--------------------------- MODULE ChoreographyProofs ---------------------------
(***************************************************************************)
(* Choreography: the runtime agrees with the panels, queued actions are    *)
(* conserved and announced ends stay ended, for every page, every limit    *)
(* and every run, together with the types and bounds these rest on.        *)
(***************************************************************************)
EXTENDS Choreography, DataLemmas, SequenceTheorems

\* The inductive invariant.  An announced animation must be known to be in
\* the runtime, or a rebuild would start it as a fresh one.
AnnouncedAreBuilt == ended \subseteq built

Inv ==
    /\ TypeOK
    /\ RuntimeMatchesScene
    /\ ActionsConserved
    /\ AnnouncedAreBuilt
    /\ AnnouncedStayFinished

-----------------------------------------------------------------------------
(* The queue.                                                              *)

\* Removing a member shortens a sequence by one.
LEMMA RemoveAtProperties ==
    ASSUME NEW S, NEW s \in Seq(S), NEW i \in 1 .. Len(s)
    PROVE  /\ RemoveAt(s, i) \in Seq(S)
           /\ Len(RemoveAt(s, i)) = Len(s) - 1
<1>1. Len(s) \in Nat /\ i \in Int /\ i >= 1 /\ i <= Len(s) /\ \A k \in 1 .. Len(s) : s[k] \in S
  OBVIOUS
<1> DEFINE front == SubSeq(s, 1, i - 1)
           back == SubSeq(s, i + 1, Len(s))
<1>2. front \in Seq(S) /\ Len(front) = i - 1
  <2>1. 1 \in Int /\ i - 1 \in Int /\ \A k \in 1 .. i - 1 : s[k] \in S
    BY <1>1
  <2>2. front \in Seq(S) /\ Len(front) = IF 1 <= i - 1 THEN (i - 1) - 1 + 1 ELSE 0
    BY <2>1, SubSeqProperties
  <2> QED BY <2>2, <1>1
<1>3. back \in Seq(S) /\ Len(back) = Len(s) - i
  <2>1. i + 1 \in Int /\ Len(s) \in Int /\ \A k \in i + 1 .. Len(s) : s[k] \in S
    BY <1>1
  <2>2. back \in Seq(S) /\ Len(back) = IF i + 1 <= Len(s) THEN Len(s) - (i + 1) + 1 ELSE 0
    BY <2>1, SubSeqProperties
  <2> QED BY <2>2, <1>1
<1> HIDE DEF front, back
<1>4. front \o back \in Seq(S) /\ Len(front \o back) = Len(front) + Len(back)
  BY <1>2, <1>3, ConcatProperties
<1>5. RemoveAt(s, i) = front \o back
  BY DEF RemoveAt, front, back
<1>6. Len(front \o back) = Len(s) - 1
  <2>1. Len(front \o back) = (i - 1) + (Len(s) - i)
    BY <1>2, <1>3, <1>4
  <2> QED BY <2>1, <1>1
<1> QED BY <1>4, <1>5, <1>6

\* A prepared batch is a sequence of actions of the page's bindings.
LEMMA PrepareFireType ==
    ASSUME NEW event, NEW source, NEW depth \in Nat
    PROVE  prepare_fire(event, source, depth) \in Seq(Pending)
<1> DEFINE ids == [i \in DOMAIN Bindings |-> i]
           I == {i \in DOMAIN Bindings : /\ Bindings[i].event = event
                                         /\ Bindings[i].source \in {None, source}}
           m == Matching(event, source)
<1>1. Len(Bindings) \in Nat /\ DOMAIN Bindings = 1 .. Len(Bindings)
  BY PageAssumption
<1>2. ids \in Seq(DOMAIN Bindings) /\ DOMAIN ids = DOMAIN Bindings
  BY <1>1
<1>3. I \in SUBSET DOMAIN ids
  BY <1>2
<1> HIDE DEF ids, I
<1>4. m = Subsequence(ids, I)
  BY DEF Matching, ids, I
<1>5. m \in Seq(DOMAIN Bindings)
  BY <1>2, <1>3, <1>4, SubsequenceProperties
<1> HIDE DEF m
<1>6. Len(m) \in Nat /\ DOMAIN m = 1 .. Len(m) /\ \A k \in DOMAIN m : m[k] \in DOMAIN Bindings
  BY <1>5
<1>7. prepare_fire(event, source, depth)
        = [k \in 1 .. Len(m) |-> [b |-> m[k], left |-> Bindings[m[k]].delay, depth |-> depth]]
  BY <1>6 DEF prepare_fire, m
<1>8. \A k \in 1 .. Len(m) :
        [b |-> m[k], left |-> Bindings[m[k]].delay, depth |-> depth] \in Pending
  BY <1>6, PageAssumption DEF Pending
<1> HIDE DEF Pending
<1> QED BY <1>6, <1>7, <1>8

\* next_ready is 0 or a position of the queue.
LEMMA NextReadyInQueue ==
    ASSUME queue \in Seq(Pending), next_ready # 0
    PROVE  next_ready \in 1 .. Len(queue)
<1> DEFINE ready == {i \in DOMAIN queue : queue[i].left = 0}
<1>1. DOMAIN queue = 1 .. Len(queue) /\ Len(queue) \in Nat
  OBVIOUS
<1>2. ready # {} /\ next_ready = Min(ready)
  BY DEF next_ready
<1>3. ready \in SUBSET Nat
  BY <1>1
<1>4. \E x \in ready : \A y \in ready : x <= y
  <2> HIDE DEF ready
  <2> QED BY <1>2, <1>3, LeastNat
<1>5. Min(ready) \in ready
  BY <1>4 DEF Min
<1> QED BY <1>1, <1>2, <1>5

\* A settled action leaves the queue and its cascade enters it; the history
\* counts the same.
LEMMA SettleProperties ==
    ASSUME queue \in Seq(Pending), NEW i \in 1 .. Len(queue), NEW more \in Seq(Pending),
           Settle(i, more), owed = Len(queue)
    PROVE  /\ queue' \in Seq(Pending)
           /\ Len(queue') = Len(queue) - 1 + Len(more)
           /\ owed' = Len(queue')
<1> DEFINE rest == RemoveAt(queue, i)
<1>1. rest \in Seq(Pending) /\ Len(rest) = Len(queue) - 1
  BY RemoveAtProperties
<1>2. queue' = rest \o more /\ owed' = owed - 1 + Len(more)
  BY DEF Settle
<1> HIDE DEF rest
<1>3. queue' \in Seq(Pending) /\ Len(queue') = Len(rest) + Len(more)
  BY <1>1, <1>2, ConcatProperties
<1> QED BY <1>1, <1>2, <1>3

-----------------------------------------------------------------------------
(* The plan.                                                               *)

\* The ids and states a call can name.
Ids == Anims \cup Panels \cup {None, TransitionId}
Tos == AnyState \cup {None}
PanelCalls == {"SetPanel", "TogglePanel"}

LEMMA ActionIsCall ==
    ASSUME NEW f \in CallNames, NEW id \in Ids, NEW to \in Tos, f \in PanelCalls => id \in Panels
    PROVE  Action(f, id, to) \in Calls
BY DEF Action, Calls, Ids, Tos, PanelCalls

LEMMA CallIsCall ==
    ASSUME NEW f \in CallNames, f \notin PanelCalls
    PROVE  Call(f) \in Calls
<1>1. None \in Ids /\ None \in Tos
  BY DEF Ids, Tos
<1>2. Action(f, None, None) \in Calls
  BY <1>1, ActionIsCall
<1> QED BY <1>2 DEF Call

LEMMA SkipNumberIsCall ==
    ASSUME NEW n \in Nat
    PROVE  SkipNumber(n) \in Calls
<1>1. "Skip" \in CallNames /\ "Skip" \notin PanelCalls
  BY DEF CallNames, PanelCalls
<1>2. Call("Skip") \in Calls
  BY <1>1, CallIsCall
<1>3. SkipNumber(n) = [Call("Skip") EXCEPT !.n = n]
  BY DEF SkipNumber
<1> QED BY <1>2, <1>3 DEF Calls

LEMMA AnimationEndIsCall ==
    ASSUME NEW a \in Anims \cup {TransitionId}
    PROVE  AnimationEnd(a) \in Calls
<1>1. a \in Ids /\ None \in Tos
  BY DEF Ids, Tos
<1>2. "AnimationEnd" \in CallNames /\ "AnimationEnd" \notin PanelCalls
  BY DEF CallNames, PanelCalls
<1>3. Action("AnimationEnd", a, None) \in Calls
  BY <1>1, <1>2, ActionIsCall
<1> QED BY <1>3 DEF AnimationEnd

\* A call keeps what it names when it is made again, or made another call.
LEMMA CallRenamed ==
    ASSUME NEW c \in Calls, NEW f \in CallNames, f \in PanelCalls => c.via \in PanelCalls \/ c.do \in PanelCalls
    PROVE  [c EXCEPT !.do = f] \in Calls
BY DEF Calls, PanelCalls

LEMMA TurnIsPlan == Turn \in Seq(Calls)
<1>1. /\ Call("Tick") \in Calls /\ Call("TickPending") \in Calls
      /\ Call("Resume") \in Calls /\ Call("Present") \in Calls
  <2>1. \A f \in {"Tick", "TickPending", "Resume", "Present"} : Call(f) \in Calls
    <3> TAKE f \in {"Tick", "TickPending", "Resume", "Present"}
    <3>1. f \in CallNames /\ f \notin PanelCalls
      BY DEF PanelCalls, CallNames
    <3> QED BY <3>1, CallIsCall
  <2> QED BY <2>1
<1> QED BY <1>1 DEF Turn

LEMMA ThenType ==
    ASSUME plan \in Seq(Calls), plan # <<>>, NEW calls \in Seq(Calls), Then(calls)
    PROVE  plan' \in Seq(Calls)
<1>1. Tail(plan) \in Seq(Calls)
  BY HeadTailProperties
<1>2. plan' = calls \o Tail(plan)
  BY DEF Then
<1> QED BY <1>1, <1>2, ConcatProperties

\* The same with one call or none.
LEMMA ThenOne ==
    ASSUME plan \in Seq(Calls), plan # <<>>, NEW c \in Calls, Then(<<c>>)
    PROVE  plan' \in Seq(Calls)
<1>1. <<c>> \in Seq(Calls)
  OBVIOUS
<1> QED BY <1>1, ThenType

LEMMA ThenNone ==
    ASSUME plan \in Seq(Calls), plan # <<>>, Then(<<>>)
    PROVE  plan' \in Seq(Calls)
<1>1. <<>> \in Seq(Calls)
  OBVIOUS
<1> QED BY <1>1, ThenType

LEMMA HeadIsCall ==
    ASSUME plan \in Seq(Calls), plan # <<>>
    PROVE  Head(plan) \in Calls
BY HeadTailProperties

\* The ends announced are those of animations.
LEMMA AnnouncedType ==
    ASSUME NEW set \in SUBSET Anims
    PROVE  Announced(set) \in Seq(Calls)
<1>1. IsFiniteSet(set)
  BY PageAssumption, FS_Subset
<1> DEFINE n == Cardinality(set)
           f == SetToSeq(set)
<1>2. n \in Nat /\ ExistsBijection(1 .. n, set)
  BY <1>1, FS_CardinalityType
<1>3. \E g \in [1 .. n -> set] : IsInjective(g)
  <2>1. PICK g : g \in Bijection(1 .. n, set)
    BY <1>2 DEF ExistsBijection
  <2>2. g \in [1 .. n -> set] /\ \A x, y \in 1 .. n : g[x] = g[y] => x = y
    BY <2>1 DEF Bijection, Injection, IsInjective
  <2> QED BY <2>2 DEF IsInjective
<1>4. f \in [1 .. n -> set]
  BY <1>3 DEF SetToSeq
<1> HIDE DEF f
<1>5. \A i \in 1 .. n : AnimationEnd(f[i]) \in Calls
  <2> TAKE i \in 1 .. n
  <2>1. f[i] \in Anims \cup {TransitionId}
    BY <1>4
  <2> QED BY <2>1, AnimationEndIsCall
<1>6. Announced(set) = [i \in 1 .. n |-> AnimationEnd(f[i])]
  BY DEF Announced, f
<1> QED BY <1>2, <1>5, <1>6

\* Pressure recovery: either one call is made instead, or the error page
\* takes over; only plan, page and evictable change.
LEMMA RefusedKeepsInv ==
    ASSUME Inv, plan # <<>>, NEW retry \in Calls, Refused(retry)
    PROVE  Inv'
<1>0. UNCHANGED <<active, built, run, trans, overlay, xition, queue, deferred,
                  inputs, owed, ended, silent>>
  BY DEF Refused
<1>1. TypeOK /\ plan \in Seq(Calls) /\ evictable \in 0 .. Evictable /\ Evictable \in Nat
  BY PageAssumption DEF Inv, TypeOK
<1>2. CASE evictable > 0
  <2>1. evictable' = evictable - 1 /\ Then(<<retry>>) /\ page' = page
    BY <1>2 DEF Refused
  <2>2. plan' \in Seq(Calls) /\ evictable' \in 0 .. Evictable
    BY <1>1, <1>2, <2>1, ThenOne
  <2>3. TypeOK'
    BY <1>0, <1>1, <2>1, <2>2 DEF TypeOK
  <2> QED BY <1>0, <2>1, <2>3 DEF Inv, RuntimeMatchesScene, Visible, InActiveState, ActionsConserved,
           AnnouncedAreBuilt, AnnouncedStayFinished, Finished
<1>3. CASE ~(evictable > 0)
  <2>1. page' = "error" /\ plan' = <<>> /\ evictable' = evictable
    BY <1>3 DEF Refused
  <2>2. TypeOK'
    BY <1>0, <1>1, <2>1 DEF TypeOK
  <2> QED BY <1>0, <2>1, <2>2 DEF Inv, RuntimeMatchesScene, ActionsConserved,
           AnnouncedAreBuilt, AnnouncedStayFinished, Finished
<1> QED BY <1>2, <1>3

-----------------------------------------------------------------------------
(* Panels and the runtime.                                                 *)

RunType == [Anims -> [st : {"Waiting", "Running", "Finished"}, left : Nat]]

LEMMA RunStates ==
    ASSUME NEW a \in Anims
    PROVE  /\ Fresh(a) \in [st : {"Waiting", "Running", "Finished"}, left : Nat]
           /\ Started(a) \in [st : {"Waiting", "Running", "Finished"}, left : Nat]
           /\ Stopped(a) \in [st : {"Waiting", "Running", "Finished"}, left : Nat]
           /\ Stopped(a).st = "Finished"
<1>1. Length[a] \in Nat
  BY PageAssumption
<1> QED BY <1>1 DEF Fresh, Started, Stopped, RunLength

\* A set or a toggle asks for a state the panel has.
LEMMA PanelStates ==
    ASSUME TypeOK, NEW p \in Panels, NEW s
    PROVE  SetTo(p, s) \in Range(States[p]) /\ ToggleTo(p) \in Range(States[p])
<1> DEFINE seq == States[p]
           n == Len(seq)
<1>1. active[p] \in Range(seq)
  BY DEF TypeOK
<1>2. seq \in Seq(Range(seq)) /\ seq # <<>>
  BY PageAssumption
<1>3. n \in Nat /\ DOMAIN seq = 1 .. n /\ n # 0
  BY <1>2
<1>4. ASSUME NEW x PROVE NextIn(seq, x) \in Range(seq)
  <2> DEFINE i == IndexOf(seq, x)
  <2>1. i \in Nat
    <3>1. CASE x \in Range(seq)
      <4>1. \E k \in DOMAIN seq : seq[k] = x
        BY <3>1 DEF Range
      <4>2. i \in DOMAIN seq
        BY <3>1, <4>1 DEF IndexOf
      <4> QED BY <4>2, <1>3
    <3>2. CASE x \notin Range(seq)
      BY <3>2 DEF IndexOf
    <3> QED BY <3>1, <3>2
  <2> HIDE DEF i
  <2>2. (i % n) + 1 \in 1 .. n
    <3> HIDE DEF n
    <3>1. i % n \in 0 .. n - 1
      BY <2>1, <1>3
    <3> QED BY <3>1, <1>3
  <2>3. seq[(i % n) + 1] \in Range(seq)
    BY <2>2, <1>3 DEF Range
  <2> QED BY <2>3 DEF NextIn, i
<1> HIDE DEF seq
<1>5. SetTo(p, s) \in Range(seq)
  BY <1>1 DEF SetTo, seq
<1>6. ToggleTo(p) \in Range(seq)
  BY <1>1, <1>4 DEF ToggleTo, seq
<1> QED BY <1>5, <1>6 DEF seq

\* What a committed relayout leaves: a runtime that agrees with the panels,
\* at most one transition per panel, and announced ends that stay ended.
LEMMA RelayoutProperties ==
    ASSUME TypeOK, AnnouncedAreBuilt, AnnouncedStayFinished,
           NEW p \in Panels, NEW s \in Range(States[p]),
           RelayoutRoom(p, s), relayout_panels_for(p, s)
    PROVE  /\ active' \in [Panels -> AnyState]
           /\ \A q \in Panels : active'[q] \in Range(States[q])
           /\ built' = Visible(active')
           /\ built' \subseteq Anims
           /\ run' \in RunType
           /\ trans' \in Seq(Transitions) /\ Len(trans') <= Cardinality(Panels)
           /\ AnnouncedAreBuilt' /\ AnnouncedStayFinished'
<1> DEFINE act == [active EXCEPT ![p] = s]
           added == IF Duration[p][s] = 0 THEN <<>>
                    ELSE <<[panel |-> p, left |-> Duration[p][s]]>>
<1>1. /\ active \in [Panels -> AnyState] /\ \A q \in Panels : active[q] \in Range(States[q])
      /\ built \subseteq Anims /\ run \in RunType /\ ended \subseteq built
      /\ trans \in Seq(Transitions) /\ Len(trans) <= Cardinality(Panels)
      /\ \A a \in ended : run[a].st = "Finished"
  BY DEF TypeOK, RunType, AnnouncedAreBuilt, AnnouncedStayFinished, Finished
<1>2. active' = act
  BY DEF relayout_panels_for
<1>3. s \in AnyState
  BY DEF AnyState
<1>4. active' \in [Panels -> AnyState] /\ \A q \in Panels : active'[q] \in Range(States[q])
  BY <1>1, <1>2, <1>3
<1>5. Duration[p][s] \in Nat
  BY PageAssumption
<1>6. added \in Seq(Transitions) /\ Len(added) = IF Duration[p][s] = 0 THEN 0 ELSE 1
  <2>1. CASE Duration[p][s] = 0
    BY <2>1
  <2>2. CASE Duration[p][s] # 0
    <3>1. [panel |-> p, left |-> Duration[p][s]] \in Transitions
      BY <1>5, <2>2 DEF Transitions
    <3> QED BY <3>1, <2>2
  <2> QED BY <2>1, <2>2
<1>7. Visible(act) \subseteq Anims
  BY DEF Visible
<1>8. Cardinality(Panels) \in Nat /\ Cardinality(Panels) >= 1
  <2>1. IsFiniteSet(Panels) /\ Panels # {}
    BY PageAssumption
  <2>2. Cardinality(Panels) \in Nat /\ Cardinality(Panels) # 0
    BY <2>1, FS_CardinalityType, FS_EmptySet
  <2> QED BY <2>2
<1> HIDE DEF act, added
<1>9. CASE animation_topology_changed(act)
  <2>1. /\ built' = Visible(act) /\ run' = Rebuilt(act) /\ trans' = added
        /\ ended' = ended \cap Visible(act)
    BY <1>9 DEF relayout_panels_for, act, added
  <2>2. run' \in RunType
    BY <2>1, RunStates DEF Rebuilt, RunType
  <2>3. \A a \in ended' : run'[a].st = "Finished"
    <3> TAKE a \in ended'
    <3>1. a \in Anims /\ a \in built /\ Finished(a)
      BY <2>1, <1>1 DEF Finished
    <3>2. run'[a] = Stopped(a)
      BY <3>1, <2>1 DEF Rebuilt
    <3> QED BY <3>1, <3>2, RunStates
  <2>4. ended' \subseteq built'
    BY <2>1
  <2>5. Len(trans') <= Cardinality(Panels)
    BY <2>1, <1>6, <1>8
  <2> QED BY <1>2, <1>4, <1>6, <1>7, <2>1, <2>2, <2>3, <2>4, <2>5
        DEF AnnouncedAreBuilt, AnnouncedStayFinished, Finished
<1>10. CASE ~animation_topology_changed(act)
  <2>1. trans' = trans \o added /\ UNCHANGED <<built, run, ended>>
    BY <1>10 DEF relayout_panels_for, act, added
  <2>2. built = Visible(act)
    BY <1>10 DEF animation_topology_changed
  <2>3. trans' \in Seq(Transitions) /\ Len(trans') = Len(trans) + Len(added)
    BY <2>1, <1>1, <1>6, ConcatProperties
  <2>4. Duration[p][s] = 0 \/ Len(trans) < Cardinality(Panels)
    BY <1>10 DEF RelayoutRoom, TransitionSlot, act
  <2>5. Len(trans) \in Nat
    BY <1>1
  <2>6. Len(trans') <= Cardinality(Panels)
    BY <2>3, <2>4, <2>5, <1>1, <1>6, <1>8
  <2> QED BY <1>1, <1>2, <1>4, <2>1, <2>2, <2>3, <2>6
        DEF AnnouncedAreBuilt, AnnouncedStayFinished, Finished
<1> QED BY <1>9, <1>10

-----------------------------------------------------------------------------
(* The steps.                                                              *)

\* A step that moves the plan along and leaves pages, panels, runtime and
\* queue alone.
LEMMA PlanOnlyKeepsInv ==
    ASSUME Inv, plan' \in Seq(Calls), page' \in {"live", "left"}, page' = "live" => page = "live",
           UNCHANGED <<active, built, run, trans, queue, evictable, owed, ended>>,
           deferred' \in {None} \cup [ready : BOOLEAN, final : BOOLEAN]
    PROVE  Inv'
<1>1. TypeOK'
  BY DEF Inv, TypeOK
<1>2. RuntimeMatchesScene' /\ ActionsConserved'
  BY DEF Inv, RuntimeMatchesScene, ActionsConserved, Visible, InActiveState
<1>3. AnnouncedAreBuilt' /\ AnnouncedStayFinished'
  BY DEF Inv, AnnouncedAreBuilt, AnnouncedStayFinished, Finished
<1> QED BY <1>1, <1>2, <1>3 DEF Inv

LEMMA InitEstablishesInv ==
    ASSUME Init
    PROVE  Inv
<1>1. plan \in Seq(Calls)
  <2>1. "page-load" \in CallNames \ PanelCalls /\ "StartPageTransition" \in CallNames \ PanelCalls
    BY DEF CallNames, PanelCalls, Events
  <2>2. Call("page-load") \in Calls /\ Call("StartPageTransition") \in Calls
    BY <2>1, CallIsCall
  <2> QED BY <2>2 DEF Init
<1>2. \A p \in Panels : States[p][1] \in Range(States[p])
  <2> TAKE p \in Panels
  <2>1. States[p] \in Seq(Range(States[p])) /\ States[p] # <<>>
    BY PageAssumption
  <2>2. 1 \in DOMAIN States[p]
    BY <2>1
  <2> QED BY <2>2 DEF Range
<1>3. active = [p \in Panels |-> States[p][1]]
  BY DEF Init
<1>4. active \in [Panels -> AnyState] /\ \A p \in Panels : active[p] \in Range(States[p])
  <2>1. \A p \in Panels : States[p][1] \in AnyState
    BY <1>2 DEF AnyState
  <2> QED BY <1>2, <1>3, <2>1
<1>5. built = Visible(active) /\ built \subseteq Anims
  BY DEF Init, Visible
<1>6. run \in RunType
  BY RunStates DEF Init, RunType
<1>7. trans \in Seq(Transitions) /\ Len(trans) = 0 /\ queue \in Seq(Pending) /\ Len(queue) = 0
  BY DEF Init
<1>8. Cardinality(Panels) \in Nat
  BY PageAssumption, FS_CardinalityType
<1>9. page = "live" /\ deferred = None /\ evictable = Evictable /\ owed = 0 /\ ended = {}
  BY DEF Init
<1>10. TypeOK
  BY <1>1, <1>4, <1>5, <1>6, <1>7, <1>8, <1>9, PageAssumption DEF TypeOK, RunType
<1> QED BY <1>5, <1>7, <1>9, <1>10
        DEF Inv, RuntimeMatchesScene, ActionsConserved, AnnouncedAreBuilt, AnnouncedStayFinished

LEMMA ExecuteAnimateKeepsInv ==
    ASSUME Inv, NEW i \in 1 .. Len(queue), page = "live", ExecuteAnimate(i)
    PROVE  Inv'
<1> DEFINE q == queue[i]
           b == Bindings[q.b]
           deep == q.depth >= MaxCascade
<1>0. UNCHANGED <<page, plan, active, built, trans, deferred, evictable>>
  BY DEF ExecuteAnimate
<1>1. TypeOK /\ queue \in Seq(Pending) /\ owed = Len(queue) /\ Len(queue) \in Nat
      /\ Len(queue) <= MaxPending /\ MaxPending \in Nat
  BY PageAssumption DEF Inv, TypeOK, ActionsConserved
<1>2. Settle(i, <<>>)
  BY DEF ExecuteAnimate
<1>3. queue' \in Seq(Pending) /\ Len(queue') = Len(queue) - 1 + Len(<<>>) /\ owed' = Len(queue')
  <2>1. <<>> \in Seq(Pending)
    OBVIOUS
  <2> QED BY <1>1, <1>2, <2>1, SettleProperties
<1>4. Len(queue') <= MaxPending
  BY <1>1, <1>3
<1>5. /\ run' = IF deep THEN run
                ELSE IF b.action = "animate" THEN trigger_start(b.target, run)
                ELSE trigger_stop(b.target, run)
      /\ ended' = IF ~deep /\ b.action = "animate" THEN ended \ {b.target} ELSE ended
  BY DEF ExecuteAnimate
<1> HIDE DEF b, deep
<1>6. built \subseteq Anims /\ run \in RunType /\ ended \subseteq built
      /\ \A a \in ended : run[a].st = "Finished"
  BY DEF Inv, TypeOK, RunType, AnnouncedAreBuilt, AnnouncedStayFinished, Finished
<1>7. run' \in RunType
  <2>1. trigger_start(b.target, run) \in RunType
    BY <1>6, RunStates DEF trigger_start, RunType
  <2>2. trigger_stop(b.target, run) \in RunType
    BY <1>6, RunStates DEF trigger_stop, RunType
  <2> QED BY <1>5, <1>6, <2>1, <2>2
<1>8. \A a \in ended' : run'[a].st = "Finished"
  <2> TAKE a \in ended'
  <2>1. a \in ended /\ a \in Anims
    BY <1>5, <1>6
  <2>2. CASE deep
    BY <2>1, <2>2, <1>5, <1>6
  <2>3. CASE ~deep /\ b.action = "animate"
    <3>1. a # b.target
      BY <1>5, <2>3
    <3> QED BY <3>1, <2>1, <2>3, <1>5, <1>6 DEF trigger_start, RunType
  <2>4. CASE ~deep /\ b.action # "animate"
    <3>1. trigger_stop(b.target, run)[a] = run[a] \/ trigger_stop(b.target, run)[a] = Stopped(a)
      BY <2>1, <1>6 DEF trigger_stop, RunType
    <3> QED BY <3>1, <2>1, <2>4, <1>5, <1>6, RunStates
  <2> QED BY <2>2, <2>3, <2>4
<1>9. TypeOK'
  BY <1>0, <1>1, <1>3, <1>4, <1>7 DEF TypeOK, RunType
<1>10. RuntimeMatchesScene' /\ ActionsConserved'
  BY <1>0, <1>3 DEF Inv, RuntimeMatchesScene, ActionsConserved, Visible, InActiveState
<1>11. AnnouncedAreBuilt' /\ AnnouncedStayFinished'
  BY <1>0, <1>5, <1>6, <1>8 DEF AnnouncedAreBuilt, AnnouncedStayFinished, Finished
<1> QED BY <1>9, <1>10, <1>11 DEF Inv

\* A relayout together with a queue of the right length and a plan of calls.
LEMMA RelayoutKeepsInv ==
    ASSUME Inv, NEW p \in Panels, NEW s \in Range(States[p]),
           RelayoutRoom(p, s), relayout_panels_for(p, s),
           plan' \in Seq(Calls), queue' \in Seq(Pending), Len(queue') <= MaxPending,
           owed' = Len(queue'), UNCHANGED <<page, deferred, evictable>>
    PROVE  Inv'
<1>1. TypeOK /\ AnnouncedAreBuilt /\ AnnouncedStayFinished
  BY DEF Inv
<1>2. /\ active' \in [Panels -> AnyState]
      /\ \A r \in Panels : active'[r] \in Range(States[r])
      /\ built' = Visible(active')
      /\ built' \subseteq Anims
      /\ run' \in RunType
      /\ trans' \in Seq(Transitions) /\ Len(trans') <= Cardinality(Panels)
      /\ AnnouncedAreBuilt' /\ AnnouncedStayFinished'
  BY <1>1, RelayoutProperties
<1>3. TypeOK'
  BY <1>1, <1>2 DEF TypeOK, RunType
<1>4. RuntimeMatchesScene'
  BY <1>2 DEF RuntimeMatchesScene, Visible, InActiveState
<1> QED BY <1>2, <1>3, <1>4 DEF Inv, ActionsConserved

LEMMA ExecutePanelKeepsInv ==
    ASSUME Inv, NEW i \in 1 .. Len(queue), page = "live", plan # <<>>, ExecutePanel(i)
    PROVE  Inv'
<1> DEFINE q == queue[i]
           b == Bindings[q.b]
           s == IF b.action = "set" THEN SetTo(b.target, b.to) ELSE ToggleTo(b.target)
           cascade == prepare_fire("state-change", b.target, q.depth + 1)
<1>1. /\ TypeOK /\ queue \in Seq(Pending) /\ owed = Len(queue) /\ Len(queue) \in Nat
      /\ Len(queue) <= MaxPending /\ MaxPending \in Nat /\ plan \in Seq(Calls)
  BY PageAssumption DEF Inv, TypeOK, ActionsConserved
<1>2. q \in Pending
  BY <1>1
<1>3. q.b \in DOMAIN Bindings /\ q.depth + 1 \in Nat
  BY <1>2 DEF Pending
<1>4. cascade \in Seq(Pending) /\ Len(cascade) \in Nat
  <2>1. cascade \in Seq(Pending)
    BY <1>3, PrepareFireType
  <2> HIDE DEF cascade
  <2> QED BY <2>1
<1>5. b.action \in {"set", "toggle"} /\ b.target \in Panels
  <2>1. b.action \in {"set", "toggle"}
    BY DEF ExecutePanel
  <2> QED BY <2>1, <1>3, PageAssumption
<1>6. s \in Range(States[b.target])
  BY <1>1, <1>5, PanelStates
<1>7. \/ Refused(Call("TickPending"))
      \/ Pressure(Call("TickPending"))
      \/ /\ Fits(cascade) /\ s = active[b.target] /\ Settle(i, <<>>)
         /\ UNCHANGED <<page, plan, active, built, run, trans, deferred, evictable, ended>>
      \/ /\ Fits(cascade) /\ s # active[b.target] /\ RelayoutRoom(b.target, s)
         /\ relayout_panels_for(b.target, s) /\ Settle(i, cascade)
         /\ UNCHANGED <<page, plan, deferred, evictable>>
  BY DEF ExecutePanel, SettleUnchanged
<1> HIDE DEF s, b, cascade
<1>8. CASE Refused(Call("TickPending")) \/ Pressure(Call("TickPending"))
  <2>1. "TickPending" \in CallNames /\ "TickPending" \notin PanelCalls
    BY DEF CallNames, PanelCalls
  <2>2. Call("TickPending") \in Calls
    BY <2>1, CallIsCall
  <2>3. Refused(Call("TickPending"))
    BY <1>8 DEF Pressure
  <2> QED BY <2>2, <2>3, RefusedKeepsInv
<1>9. CASE /\ s = active[b.target] /\ Settle(i, <<>>)
           /\ UNCHANGED <<page, plan, active, built, run, trans, deferred, evictable, ended>>
  <2>1. queue' \in Seq(Pending) /\ Len(queue') = Len(queue) - 1 + Len(<<>>) /\ owed' = Len(queue')
    <3>1. <<>> \in Seq(Pending)
      OBVIOUS
    <3> QED BY <1>1, <1>9, <3>1, SettleProperties
  <2>2. Len(queue') <= MaxPending
    BY <1>1, <2>1
  <2>3. TypeOK'
    BY <1>1, <1>9, <2>1, <2>2 DEF TypeOK
  <2> QED BY <1>9, <2>1, <2>3 DEF Inv, RuntimeMatchesScene, ActionsConserved, Visible, InActiveState,
             AnnouncedAreBuilt, AnnouncedStayFinished, Finished
<1>10. CASE /\ Fits(cascade) /\ RelayoutRoom(b.target, s)
            /\ relayout_panels_for(b.target, s) /\ Settle(i, cascade)
            /\ UNCHANGED <<page, plan, deferred, evictable>>
  <2>1. /\ queue' \in Seq(Pending) /\ Len(queue') = Len(queue) - 1 + Len(cascade)
        /\ owed' = Len(queue')
    BY <1>1, <1>4, <1>10, SettleProperties
  <2>2. Len(queue) + Len(cascade) <= MaxPending
    BY <1>10 DEF Fits
  <2>3. Len(queue') <= MaxPending
    BY <1>1, <1>4, <2>1, <2>2
  <2> QED BY <1>1, <1>5, <1>6, <1>10, <2>1, <2>3, RelayoutKeepsInv
<1> QED BY <1>7, <1>8, <1>9, <1>10

LEMMA TickPendingKeepsInv ==
    ASSUME Inv, TickPending
    PROVE  Inv'
<1>1. page = "live" /\ plan # <<>> /\ plan \in Seq(Calls) /\ queue \in Seq(Pending)
  BY DEF TickPending, Now, Inv, TypeOK
<1>2. CASE next_ready # 0 /\ ExecuteAnimate(next_ready)
  <2>1. next_ready \in 1 .. Len(queue)
    BY <1>1, <1>2, NextReadyInQueue
  <2> QED BY <1>1, <1>2, <2>1, ExecuteAnimateKeepsInv
<1>3. CASE next_ready # 0 /\ ExecutePanel(next_ready)
  <2>1. next_ready \in 1 .. Len(queue)
    BY <1>1, <1>3, NextReadyInQueue
  <2> QED BY <1>1, <1>3, <2>1, ExecutePanelKeepsInv
<1>4. CASE /\ Then(<<>>)
           /\ UNCHANGED <<page, active, built, run, trans, queue, deferred, evictable, owed, ended>>
  <2>1. plan' \in Seq(Calls)
    BY <1>1, <1>4, ThenNone
  <2>2. deferred' \in {None} \cup [ready : BOOLEAN, final : BOOLEAN]
    BY <1>4 DEF Inv, TypeOK
  <2> QED BY <1>1, <1>4, <2>1, <2>2, PlanOnlyKeepsInv
<1> QED BY <1>2, <1>3, <1>4 DEF TickPending

LEMMA FireEventKeepsInv ==
    ASSUME Inv, FireEvent
    PROVE  Inv'
<1> DEFINE c == Head(plan)
           batch == prepare_fire(c.do, c.id, 0)
<1>1. /\ page = "live" /\ plan # <<>> /\ plan \in Seq(Calls) /\ queue \in Seq(Pending)
      /\ owed = Len(queue) /\ Len(queue) \in Nat /\ MaxPending \in Nat
  BY PageAssumption DEF FireEvent, Inv, TypeOK, ActionsConserved
<1>2. c \in Calls
  BY <1>1, HeadIsCall
<1>3. batch \in Seq(Pending) /\ Len(batch) \in Nat
  <2>1. batch \in Seq(Pending)
    BY PrepareFireType
  <2> HIDE DEF batch
  <2> QED BY <2>1
<1>4. \/ /\ Fits(batch) /\ queue' = queue \o batch /\ owed' = owed + Len(batch)
         /\ Then(<<Call("TickPending")>>)
         /\ UNCHANGED <<page, active, built, run, trans, deferred, evictable, ended>>
      \/ Refused([c EXCEPT !.do = c.via])
  BY DEF FireEvent
<1> HIDE DEF batch, c
<1>5. CASE /\ Fits(batch) /\ queue' = queue \o batch /\ owed' = owed + Len(batch)
           /\ Then(<<Call("TickPending")>>)
           /\ UNCHANGED <<page, active, built, run, trans, deferred, evictable, ended>>
  <2>1. "TickPending" \in CallNames /\ "TickPending" \notin PanelCalls
    BY DEF CallNames, PanelCalls
  <2>2. Call("TickPending") \in Calls
    BY <2>1, CallIsCall
  <2>3. plan' \in Seq(Calls)
    BY <1>1, <1>5, <2>2, ThenOne
  <2>4. queue' \in Seq(Pending) /\ Len(queue') = Len(queue) + Len(batch)
    BY <1>1, <1>3, <1>5, ConcatProperties
  <2>5. Len(queue') <= MaxPending /\ owed' = Len(queue')
    BY <1>1, <1>5, <2>4 DEF Fits
  <2>6. TypeOK'
    BY <1>5, <2>3, <2>4, <2>5 DEF Inv, TypeOK
  <2> QED BY <1>5, <2>5, <2>6 DEF Inv, RuntimeMatchesScene, ActionsConserved, Visible, InActiveState,
             AnnouncedAreBuilt, AnnouncedStayFinished, Finished
<1>6. CASE Refused([c EXCEPT !.do = c.via])
  <2>1. c.via \in CallNames
    BY <1>2 DEF Calls
  <2>2. [c EXCEPT !.do = c.via] \in Calls
    BY <1>2, <2>1, CallRenamed
  <2> QED BY <1>1, <1>6, <2>2, RefusedKeepsInv
<1> QED BY <1>4, <1>5, <1>6

LEMMA AnnounceEndKeepsInv ==
    ASSUME Inv, AnnounceEnd
    PROVE  Inv'
<1>1. page = "live" /\ plan # <<>> /\ plan \in Seq(Calls)
  BY DEF AnnounceEnd, Now, Inv, TypeOK
<1>2. Head(plan) \in Calls
  BY <1>1, HeadIsCall
<1>3. Event("animation-end", Head(plan).id) \in Calls
  <2>1. Head(plan).id \in Ids /\ None \in Tos
    BY <1>2 DEF Calls, Ids, Tos
  <2>2. "animation-end" \in CallNames /\ "animation-end" \notin PanelCalls
    BY DEF CallNames, PanelCalls, Events
  <2>3. Action("animation-end", Head(plan).id, None) \in Calls
    BY <2>1, <2>2, ActionIsCall
  <2> QED BY <2>3 DEF Event
<1>4. plan' \in Seq(Calls)
  BY <1>1, <1>3, ThenOne DEF AnnounceEnd
<1>5. deferred' \in {None} \cup [ready : BOOLEAN, final : BOOLEAN]
  BY DEF AnnounceEnd, Inv, TypeOK
<1> QED BY <1>1, <1>4, <1>5, PlanOnlyKeepsInv DEF AnnounceEnd

LEMMA ResumeKeepsInv ==
    ASSUME Inv, Resume
    PROVE  Inv'
<1>1. page = "live" /\ plan # <<>> /\ plan \in Seq(Calls)
  BY DEF Resume, Now, Inv, TypeOK
<1>2. CASE page' = "left" /\ plan' = <<>> /\ deferred' = None
  BY <1>2, PlanOnlyKeepsInv DEF Resume
<1>3. CASE Then(<<>>) /\ UNCHANGED <<page, deferred>>
  <2>1. plan' \in Seq(Calls)
    BY <1>1, <1>3, ThenNone
  <2>2. deferred' \in {None} \cup [ready : BOOLEAN, final : BOOLEAN]
    BY <1>3 DEF Inv, TypeOK
  <2> QED BY <1>1, <1>3, <2>1, <2>2, PlanOnlyKeepsInv DEF Resume
<1> QED BY <1>2, <1>3 DEF Resume

LEMMA PresentKeepsInv ==
    ASSUME Inv, Present
    PROVE  Inv'
<1>1. page = "live" /\ plan # <<>> /\ plan \in Seq(Calls)
  BY DEF Present, Now, Inv, TypeOK
<1>2. plan' \in Seq(Calls)
  BY <1>1, ThenNone DEF Present
<1>3. deferred' \in {None} \cup [ready : BOOLEAN, final : BOOLEAN]
  BY DEF Present, Inv, TypeOK
<1> QED BY <1>1, <1>2, <1>3, PlanOnlyKeepsInv DEF Present

LEMMA StartPageTransitionKeepsInv ==
    ASSUME Inv, StartPageTransition
    PROVE  Inv'
<1>1. page = "live" /\ plan # <<>> /\ plan \in Seq(Calls)
  BY DEF StartPageTransition, Now, Inv, TypeOK
<1>2. plan' \in Seq(Calls)
  BY <1>1, ThenNone DEF StartPageTransition
<1>3. deferred' \in {None} \cup [ready : BOOLEAN, final : BOOLEAN]
  BY DEF StartPageTransition, Inv, TypeOK
<1> QED BY <1>1, <1>2, <1>3, PlanOnlyKeepsInv DEF StartPageTransition

LEMMA SkipCheckKeepsInv ==
    ASSUME Inv, SkipCheck
    PROVE  Inv'
<1>1. page = "live" /\ plan # <<>> /\ plan \in Seq(Calls)
  BY DEF SkipCheck, Now, Inv, TypeOK
<1>2. Head(plan).n \in Nat
  BY <1>1, HeadIsCall DEF Calls
<1>3. SkipNumber(Head(plan).n + 1) \in Calls
  BY <1>2, SkipNumberIsCall
<1>4. Then(<<SkipNumber(Head(plan).n + 1)>>) \/ Then(<<>>)
  BY DEF SkipCheck
<1>5. plan' \in Seq(Calls)
  BY <1>1, <1>3, <1>4, ThenOne, ThenNone
<1>6. deferred' \in {None} \cup [ready : BOOLEAN, final : BOOLEAN]
  BY DEF SkipCheck, Inv, TypeOK
<1> QED BY <1>1, <1>5, <1>6, PlanOnlyKeepsInv DEF SkipCheck

\* The transitions that a tick leaves.
LEMMA TicksTransitionsType ==
    ASSUME trans \in Seq(Transitions)
    PROVE  TicksTransitions \in Seq(Transitions) /\ Len(TicksTransitions) <= Len(trans)
<1> DEFINE n == Len(trans)
           older == [i \in DOMAIN trans |-> [trans[i] EXCEPT !.left = @ - 1]]
           I == {i \in DOMAIN older : older[i].left > 0}
           S == [panel : Panels, left : Nat]
           rest == Subsequence(older, I)
<1>1. n \in Nat /\ DOMAIN trans = 1 .. n /\ \A i \in 1 .. n : trans[i] \in Transitions
  OBVIOUS
<1>2. \A i \in 1 .. n : [trans[i] EXCEPT !.left = @ - 1] \in S
  BY <1>1 DEF Transitions
<1>3. older \in [1 .. n -> S]
  BY <1>1, <1>2
<1>4. older \in Seq(S) /\ Len(older) = n /\ I \in SUBSET DOMAIN older
  BY <1>1, <1>3
<1>5. \A i \in I : older[i] \in Transitions
  <2> TAKE i \in I
  <2>1. older[i] \in S /\ older[i].left > 0
    BY <1>3
  <2> HIDE DEF older
  <2> QED BY <2>1 DEF Transitions
<1> HIDE DEF older, I, S
<1>6. /\ rest \in Seq(S) /\ Len(rest) <= n /\ Len(rest) \in Nat
      /\ DOMAIN rest = 1 .. Len(rest)
      /\ \A k \in 1 .. Len(rest) : Nth(I, k) \in I /\ rest[k] = older[Nth(I, k)]
  BY <1>4, SubsequenceProperties
<1> HIDE DEF rest
<1>7. \A k \in 1 .. Len(rest) : rest[k] \in Transitions
  BY <1>5, <1>6
<1>8. rest \in [1 .. Len(rest) -> Transitions]
  BY <1>6, <1>7
<1>9. rest \in Seq(Transitions)
  BY <1>6, <1>8
<1> QED BY <1>6, <1>9 DEF TicksTransitions, rest, older, I

\* One tick of one animation: an animation that has ended stays ended.
LEMMA AdvancedType ==
    ASSUME run \in RunType, NEW a \in Anims, NEW trapped
    PROVE  /\ Advanced(a, trapped) \in [st : {"Waiting", "Running", "Finished"}, left : Nat]
           /\ Finished(a) => Advanced(a, trapped) = run[a]
<1> DEFINE T == [st : {"Waiting", "Running", "Finished"}, left : Nat]
           r == IF run[a].st = "Waiting" /\ Begins(a) THEN Started(a) ELSE run[a]
<1>1. r \in T /\ Stopped(a) \in T
  BY RunStates DEF RunType
<1>2. advance_frame(r) \in T
  <2> HIDE DEF r
  <2>1. r.left \in Nat /\ r.st \in {"Waiting", "Running", "Finished"}
    BY <1>1
  <2>2. (IF r.left = 0 THEN 0 ELSE r.left - 1) \in Nat
    BY <2>1
  <2> QED BY <1>1, <2>2 DEF advance_frame
<1>3. Advanced(a, trapped) \in T
  BY <1>1, <1>2 DEF Advanced
<1>4. Finished(a) => Advanced(a, trapped) = run[a]
  BY DEF Advanced, Finished
<1> QED BY <1>3, <1>4

\* A tick, a fast-forward or a resize of the runtime: animations may end and
\* transitions go, nothing that has ended comes back.
LEMMA RuntimeStepKeepsInv ==
    ASSUME Inv, plan' \in Seq(Calls), run' \in RunType,
           trans' \in Seq(Transitions), Len(trans') <= Len(trans),
           NEW done \in SUBSET built, ended' = ended \cup done,
           \A a \in ended \cup done : run'[a].st = "Finished",
           UNCHANGED <<page, active, built, queue, deferred, evictable, owed>>
    PROVE  Inv'
<1>1. Len(trans') <= Cardinality(Panels)
  <2>1. Len(trans) \in Nat /\ Len(trans') \in Nat /\ Len(trans) <= Cardinality(Panels)
        /\ Cardinality(Panels) \in Nat
    BY PageAssumption, FS_CardinalityType DEF Inv, TypeOK
  <2> QED BY <2>1
<1>2. TypeOK'
  BY <1>1 DEF Inv, TypeOK, RunType
<1>3. AnnouncedAreBuilt' /\ AnnouncedStayFinished'
  BY DEF Inv, AnnouncedAreBuilt, AnnouncedStayFinished, Finished
<1> QED BY <1>2, <1>3 DEF Inv, RuntimeMatchesScene, ActionsConserved, Visible, InActiveState

LEMMA TickKeepsInv ==
    ASSUME Inv, Tick
    PROVE  Inv'
<1>1. page = "live" /\ plan # <<>> /\ plan \in Seq(Calls)
  BY DEF Tick, Now, Inv, TypeOK
<1>2. CASE ~TickDue
  <2>1. /\ Then(<<>>)
        /\ UNCHANGED <<page, active, built, run, trans, queue, deferred, evictable, owed, ended>>
    BY <1>2 DEF Tick
  <2>2. plan' \in Seq(Calls)
    BY <1>1, <2>1, ThenNone
  <2>3. deferred' \in {None} \cup [ready : BOOLEAN, final : BOOLEAN]
    BY <2>1 DEF Inv, TypeOK
  <2> QED BY <1>1, <2>1, <2>2, <2>3, PlanOnlyKeepsInv
<1>3. CASE Pressure(Call("Tick"))
  <2>1. "Tick" \in CallNames /\ "Tick" \notin PanelCalls
    BY DEF CallNames, PanelCalls
  <2>2. Call("Tick") \in Calls
    BY <2>1, CallIsCall
  <2> QED BY <1>1, <1>3, <2>2, RefusedKeepsInv DEF Pressure
<1>4. ASSUME NEW trapped \in SUBSET {a \in built : Kind[a] = "wasm"},
             NEW new, new = [a \in Anims |->
                               IF a \in built THEN Advanced(a, trapped) ELSE run[a]],
             NEW done, done = NewlyFinished(run, new),
             run' = new, ended' = ended \cup done, trans' = TicksTransitions,
             Then(Announced(done)),
             UNCHANGED <<page, active, built, queue, deferred, evictable, owed>>
      PROVE  Inv'
  <2>1. /\ run \in RunType /\ trans \in Seq(Transitions) /\ built \subseteq Anims
        /\ ended \subseteq built /\ \A a \in ended : Finished(a)
    BY DEF Inv, TypeOK, RunType, AnnouncedAreBuilt, AnnouncedStayFinished
  <2>2. run' \in RunType
    <3>1. \A a \in Anims : Advanced(a, trapped) \in [st : {"Waiting", "Running", "Finished"}, left : Nat]
      BY <2>1, AdvancedType
    <3> QED BY <1>4, <2>1, <3>1 DEF RunType
  <2>3. done \subseteq built /\ \A a \in done : new[a].st = "Finished"
    BY <1>4 DEF NewlyFinished
  <2>4. \A a \in ended : new[a].st = "Finished"
    <3> TAKE a \in ended
    <3>1. a \in Anims /\ a \in built /\ Finished(a)
      BY <2>1
    <3>2. new[a] = run[a]
      BY <3>1, <1>4, <2>1, AdvancedType
    <3> QED BY <3>1, <3>2 DEF Finished
  <2>5. Announced(done) \in Seq(Calls)
    BY <2>1, <2>3, AnnouncedType
  <2>6. plan' \in Seq(Calls)
    BY <1>1, <1>4, <2>5, ThenType
  <2>7. trans' \in Seq(Transitions) /\ Len(trans') <= Len(trans)
    BY <1>4, <2>1, TicksTransitionsType
  <2>8. \A a \in ended \cup done : run'[a].st = "Finished"
    BY <1>4, <2>3, <2>4
  <2> QED BY <1>4, <2>2, <2>3, <2>6, <2>7, <2>8, RuntimeStepKeepsInv
<1>5. CASE \E trapped \in SUBSET {a \in built : Kind[a] = "wasm"} :
             LET new == [a \in Anims |->
                            IF a \in built THEN Advanced(a, trapped) ELSE run[a]]
                 done == NewlyFinished(run, new)
             IN  /\ run' = new
                 /\ ended' = ended \cup done
                 /\ trans' = TicksTransitions
                 /\ Then(Announced(done))
                 /\ UNCHANGED <<page, active, built, queue, deferred, evictable, owed>>
  BY <1>4, <1>5
<1> QED BY <1>2, <1>3, <1>5 DEF Tick

LEMMA SkipPassKeepsInv ==
    ASSUME Inv, SkipPass
    PROVE  Inv'
<1>1. page = "live" /\ plan # <<>> /\ plan \in Seq(Calls) /\ trans \in Seq(Transitions)
  BY DEF SkipPass, Now, Inv, TypeOK
<1>2. Head(plan) \in Calls
  BY <1>1, HeadIsCall
<1> DEFINE ends == [i \in DOMAIN trans |-> AnimationEnd(TransitionId)]
           last == <<Call("Flush"), [Head(plan) EXCEPT !.do = "SkipCheck"]>>
           calls == Announced(Skippable) \o ends \o last
<1>3. CASE Pressure(Head(plan))
  BY <1>1, <1>2, <1>3, RefusedKeepsInv DEF Pressure
<1>4. CASE /\ run' = [a \in Anims |-> IF a \in Skippable THEN Stopped(a) ELSE run[a]]
           /\ ended' = ended \cup Skippable
           /\ CancelTransitions
           /\ Then(calls)
           /\ UNCHANGED <<page, active, built, queue, deferred, evictable, owed>>
  <2>1. /\ run \in RunType /\ built \subseteq Anims /\ Skippable \subseteq built
        /\ ended \subseteq built /\ \A a \in ended : Finished(a)
    BY DEF Inv, TypeOK, RunType, AnnouncedAreBuilt, AnnouncedStayFinished, Skippable
  <2>2. ends \in Seq(Calls)
    <3>1. AnimationEnd(TransitionId) \in Calls
      BY AnimationEndIsCall
    <3>2. DOMAIN trans = 1 .. Len(trans) /\ Len(trans) \in Nat
      BY <1>1
    <3> QED BY <3>1, <3>2
  <2>3. last \in Seq(Calls)
    <3>1. /\ "Flush" \in CallNames /\ "Flush" \notin PanelCalls
          /\ "SkipCheck" \in CallNames /\ "SkipCheck" \notin PanelCalls
      BY DEF CallNames, PanelCalls
    <3>2. Call("Flush") \in Calls /\ [Head(plan) EXCEPT !.do = "SkipCheck"] \in Calls
      BY <1>2, <3>1, CallIsCall, CallRenamed
    <3> QED BY <3>2
  <2>4. Announced(Skippable) \in Seq(Calls)
    BY <2>1, AnnouncedType
  <2> HIDE DEF ends, last
  <2>5. calls \in Seq(Calls)
    <3>1. Announced(Skippable) \o ends \in Seq(Calls)
      BY <2>2, <2>4, ConcatProperties
    <3> QED BY <2>3, <3>1, ConcatProperties
  <2> HIDE DEF calls
  <2>6. plan' \in Seq(Calls)
    BY <1>1, <1>4, <2>5, ThenType
  <2>7. run' \in RunType
    BY <1>4, <2>1, RunStates DEF RunType
  <2>8. \A a \in ended \cup Skippable : run'[a].st = "Finished"
    <3> TAKE a \in ended \cup Skippable
    <3>1. a \in Anims
      BY <2>1
    <3>2. run'[a] = Stopped(a) \/ (a \in ended /\ run'[a] = run[a])
      BY <3>1, <1>4
    <3> QED BY <3>1, <3>2, <2>1, RunStates DEF Finished
  <2>9. trans' = <<>> /\ trans' \in Seq(Transitions) /\ Len(trans') <= Len(trans)
    <3>1. trans' = <<>>
      BY <1>4 DEF CancelTransitions
    <3>2. Len(trans) \in Nat /\ Len(<<>>) = 0
      BY <1>1
    <3> QED BY <3>1, <3>2
  <2> QED BY <1>4, <2>1, <2>6, <2>7, <2>8, <2>9, RuntimeStepKeepsInv
<1> QED BY <1>3, <1>4 DEF SkipPass

LEMMA ResizedKeepsInv ==
    ASSUME Inv, Resized
    PROVE  Inv'
<1>1. page = "live" /\ plan # <<>> /\ plan \in Seq(Calls) /\ trans \in Seq(Transitions)
  BY DEF Resized, Now, Inv, TypeOK
<1>2. PICK stopped \in ResizeStops :
        run' = [a \in Anims |-> IF a \in stopped THEN Stopped(a) ELSE run[a]]
  BY DEF Resized
<1>3. /\ run \in RunType /\ built \subseteq Anims
      /\ ended \subseteq built /\ \A a \in ended : Finished(a)
  BY DEF Inv, TypeOK, RunType, AnnouncedAreBuilt, AnnouncedStayFinished
<1>4. run' \in RunType
  BY <1>2, <1>3, RunStates DEF RunType
<1>5. \A a \in ended \cup {} : run'[a].st = "Finished"
  <2> TAKE a \in ended \cup {}
  <2>1. a \in Anims /\ a \in ended
    BY <1>3
  <2>2. run'[a] = Stopped(a) \/ run'[a] = run[a]
    BY <2>1, <1>2
  <2> QED BY <2>1, <2>2, <1>3, RunStates DEF Finished
<1>6. trans' \in Seq(Transitions) /\ Len(trans') <= Len(trans)
  <2>1. trans' = <<>>
    BY DEF Resized, CancelTransitions
  <2>2. Len(trans) \in Nat /\ Len(<<>>) = 0
    BY <1>1
  <2> QED BY <2>1, <2>2
<1>7. plan' \in Seq(Calls)
  BY <1>1, ThenNone DEF Resized
<1>8. {} \in SUBSET built /\ ended' = ended \cup {}
      /\ UNCHANGED <<page, active, built, queue, deferred, evictable, owed>>
  BY DEF Resized
<1> QED BY <1>4, <1>5, <1>6, <1>7, <1>8, RuntimeStepKeepsInv

LEMMA FlushKeepsInv ==
    ASSUME Inv, Flush
    PROVE  Inv'
<1>1. /\ page = "live" /\ plan # <<>> /\ plan \in Seq(Calls) /\ queue \in Seq(Pending)
      /\ Len(queue) <= MaxPending /\ owed = Len(queue)
  BY DEF Flush, Now, Inv, TypeOK, ActionsConserved
<1>2. "TickPending" \in CallNames /\ "TickPending" \notin PanelCalls
  BY DEF CallNames, PanelCalls
<1>3. Call("TickPending") \in Calls
  BY <1>2, CallIsCall
<1>4. plan' \in Seq(Calls)
  BY <1>1, <1>3, ThenOne DEF Flush
<1>5. queue' \in Seq(Pending) /\ Len(queue') = Len(queue)
  <2>1. DOMAIN queue = 1 .. Len(queue) /\ Len(queue) \in Nat
        /\ \A i \in 1 .. Len(queue) : queue[i] \in Pending
    BY <1>1
  <2>2. \A i \in 1 .. Len(queue) : [queue[i] EXCEPT !.left = 0] \in Pending
    BY <2>1 DEF Pending
  <2>3. queue' = [i \in 1 .. Len(queue) |-> [queue[i] EXCEPT !.left = 0]]
    BY <2>1 DEF Flush, flush_pending_now
  <2> HIDE DEF Pending
  <2> QED BY <2>1, <2>2, <2>3
<1>6. UNCHANGED <<page, active, built, run, trans, deferred, evictable, owed, ended>>
  BY DEF Flush
<1>7. TypeOK'
  BY <1>1, <1>4, <1>5, <1>6 DEF Inv, TypeOK
<1> QED BY <1>1, <1>5, <1>6, <1>7 DEF Inv, RuntimeMatchesScene, ActionsConserved, Visible, InActiveState,
           AnnouncedAreBuilt, AnnouncedStayFinished, Finished

LEMMA ChangePanelKeepsInv ==
    ASSUME Inv, ChangePanel
    PROVE  Inv'
<1> DEFINE c == Head(plan)
           s == IF c.do = "SetPanel" THEN SetTo(c.id, c.to) ELSE ToggleTo(c.id)
<1>1. /\ page = "live" /\ plan # <<>> /\ plan \in Seq(Calls) /\ c.do \in PanelCalls
      /\ queue \in Seq(Pending) /\ Len(queue) <= MaxPending /\ owed = Len(queue)
  BY DEF ChangePanel, Now, Inv, TypeOK, PanelCalls, ActionsConserved
<1>2. c \in Calls
  BY <1>1, HeadIsCall
<1>3. c.id \in Panels
  BY <1>1, <1>2 DEF Calls, PanelCalls
<1>4. s \in Range(States[c.id])
  BY <1>3, PanelStates DEF Inv
<1>5. \/ /\ Then(<<>>)
         /\ UNCHANGED <<page, active, built, run, trans, queue, deferred, evictable, owed, ended>>
      \/ Refused(c)
      \/ Pressure(c)
      \/ /\ RelayoutRoom(c.id, s) /\ relayout_panels_for(c.id, s)
         /\ Then(<<[c EXCEPT !.do = "state-change"]>>)
         /\ UNCHANGED <<page, queue, deferred, evictable, owed>>
  BY DEF ChangePanel
<1> HIDE DEF c, s
<1>6. CASE /\ Then(<<>>)
           /\ UNCHANGED <<page, active, built, run, trans, queue, deferred, evictable, owed, ended>>
  <2>1. plan' \in Seq(Calls)
    BY <1>1, <1>6, ThenNone
  <2>2. deferred' \in {None} \cup [ready : BOOLEAN, final : BOOLEAN]
    BY <1>6 DEF Inv, TypeOK
  <2> QED BY <1>1, <1>6, <2>1, <2>2, PlanOnlyKeepsInv
<1>7. CASE Refused(c) \/ Pressure(c)
  BY <1>1, <1>2, <1>7, RefusedKeepsInv DEF Pressure
<1>8. CASE /\ RelayoutRoom(c.id, s) /\ relayout_panels_for(c.id, s)
           /\ Then(<<[c EXCEPT !.do = "state-change"]>>)
           /\ UNCHANGED <<page, queue, deferred, evictable, owed>>
  <2>1. "state-change" \in CallNames /\ "state-change" \notin PanelCalls
    BY DEF CallNames, PanelCalls, Events
  <2>2. [c EXCEPT !.do = "state-change"] \in Calls
    BY <1>2, <2>1, CallRenamed
  <2>3. plan' \in Seq(Calls)
    BY <1>1, <1>8, <2>2, ThenOne
  <2> QED BY <1>1, <1>3, <1>4, <1>8, <2>3, RelayoutKeepsInv
<1> QED BY <1>5, <1>6, <1>7, <1>8

LEMMA ActivateDeferredKeepsInv ==
    ASSUME Inv, ActivateDeferred
    PROVE  Inv'
<1>1. page = "live" /\ plan # <<>> /\ plan \in Seq(Calls)
  BY DEF ActivateDeferred, Now, Inv, TypeOK
<1>2. UNCHANGED <<active, built, trans, queue, evictable, owed>>
  BY DEF ActivateDeferred
<1>3. CASE deferred # None
  <2>1. Then(<<>>) /\ UNCHANGED <<page, deferred, run, ended>>
    BY <1>3 DEF ActivateDeferred
  <2>2. plan' \in Seq(Calls)
    BY <1>1, <2>1, ThenNone
  <2>3. deferred' \in {None} \cup [ready : BOOLEAN, final : BOOLEAN]
    BY <2>1 DEF Inv, TypeOK
  <2> QED BY <1>1, <1>2, <2>1, <2>2, <2>3, PlanOnlyKeepsInv
<1>4. CASE deferred = None /\ Exit \in built
  <2>1. Then(<<>>) /\ page' = page /\ Defer
    BY <1>4 DEF ActivateDeferred
  <2>2. /\ deferred' = [ready |-> FALSE, final |-> FALSE]
        /\ run' = trigger_start(Exit, run) /\ ended' = ended \ {Exit}
    BY <2>1 DEF Defer
  <2>3. /\ run \in RunType /\ built \subseteq Anims /\ ended \subseteq built
        /\ \A a \in ended : run[a].st = "Finished"
    BY DEF Inv, TypeOK, RunType, AnnouncedAreBuilt, AnnouncedStayFinished, Finished
  <2>4. run' \in RunType
    BY <2>2, <2>3, RunStates DEF trigger_start, RunType
  <2>5. \A a \in ended' : run'[a].st = "Finished"
    BY <2>2, <2>3 DEF trigger_start, RunType
  <2>6. plan' \in Seq(Calls)
    BY <1>1, <2>1, ThenNone
  <2>7. TypeOK'
    BY <1>2, <2>1, <2>2, <2>4, <2>6 DEF Inv, TypeOK, RunType
  <2>8. AnnouncedAreBuilt' /\ AnnouncedStayFinished'
    BY <1>2, <2>2, <2>3, <2>5 DEF AnnouncedAreBuilt, AnnouncedStayFinished, Finished
  <2> QED BY <1>2, <2>1, <2>7, <2>8
          DEF Inv, RuntimeMatchesScene, ActionsConserved, Visible, InActiveState
<1>5. CASE deferred = None /\ Exit \notin built
  <2>1. page' = "left" /\ plan' = <<>> /\ UNCHANGED <<deferred, run, ended>>
    BY <1>5 DEF ActivateDeferred
  <2>2. deferred' \in {None} \cup [ready : BOOLEAN, final : BOOLEAN]
    BY <2>1, <1>5
  <2> QED BY <1>2, <2>1, <2>2, PlanOnlyKeepsInv
<1> QED BY <1>3, <1>4, <1>5

LEMMA UserCallsAreCalls == UserCalls \subseteq Calls
<1>1. \A p \in Panels, s \in AnyState : Action("SetPanel", p, s) \in Calls
  <2> TAKE p \in Panels, s \in AnyState
  <2>1. "SetPanel" \in CallNames /\ p \in Ids /\ s \in Tos
    BY DEF CallNames, Ids, Tos
  <2> QED BY <2>1, ActionIsCall
<1>2. \A p \in Panels : Action("TogglePanel", p, None) \in Calls
  <2> TAKE p \in Panels
  <2>1. "TogglePanel" \in CallNames /\ p \in Ids /\ None \in Tos
    BY DEF CallNames, Ids, Tos
  <2> QED BY <2>1, ActionIsCall
<1>3. \A f \in {"ActivateDeferred", "Resize", "focus", "blur"} : Call(f) \in Calls
  <2> TAKE f \in {"ActivateDeferred", "Resize", "focus", "blur"}
  <2>1. f \in CallNames /\ f \notin PanelCalls
    BY DEF CallNames, PanelCalls, Events
  <2> QED BY <2>1, CallIsCall
<1>4. SkipNumber(1) \in Calls
  BY SkipNumberIsCall
<1>5. ASSUME NEW c \in UserCalls PROVE c \in Calls
  <2>1. \/ \E p \in Panels, s \in AnyState : c = Action("SetPanel", p, s)
        \/ \E p \in Panels : c = Action("TogglePanel", p, None)
        \/ c \in {Call("ActivateDeferred"), Call("Resize"), Call("focus"), Call("blur")}
        \/ c = SkipNumber(1)
    BY <1>5 DEF UserCalls
  <2> QED BY <1>1, <1>2, <1>3, <1>4, <2>1
<1> QED BY <1>5

LEMMA PollKeepsInv ==
    ASSUME Inv, NEW input \in UserCalls \cup {None}, Poll(input)
    PROVE  Inv'
<1>1. /\ page = "live" /\ queue \in Seq(Pending) /\ Len(queue) <= MaxPending
      /\ owed = Len(queue)
  BY DEF Poll, Inv, TypeOK, ActionsConserved
<1>2. Turn \in Seq(Calls)
  BY TurnIsPlan
<1>3. plan' \in Seq(Calls)
  <2>1. CASE input = None
    BY <1>2, <2>1 DEF Poll
  <2>2. CASE input # None
    <3>1. <<input>> \in Seq(Calls)
      BY <2>2, UserCallsAreCalls
    <3>2. Turn \o <<input>> \in Seq(Calls) /\ <<input>> \o Turn \in Seq(Calls)
      BY <1>2, <3>1, ConcatProperties
    <3>3. plan' = Turn \o <<input>> \/ plan' = <<input>> \o Turn
      BY <2>2 DEF Poll
    <3> QED BY <3>2, <3>3
  <2> QED BY <2>1, <2>2
<1>4. queue' \in Seq(Pending) /\ Len(queue') = Len(queue)
  <2> DEFINE aged(e) == [e EXCEPT !.left = IF @ = 0 THEN 0 ELSE @ - 1]
  <2>1. DOMAIN queue = 1 .. Len(queue) /\ Len(queue) \in Nat
        /\ \A i \in 1 .. Len(queue) : queue[i] \in Pending
    BY <1>1
  <2>2. \A i \in 1 .. Len(queue) : aged(queue[i]) \in Pending
    <3> TAKE i \in 1 .. Len(queue)
    <3>1. queue[i] \in Pending /\ queue[i].left \in Nat
      BY <2>1 DEF Pending
    <3>2. (IF queue[i].left = 0 THEN 0 ELSE queue[i].left - 1) \in Nat
      BY <3>1
    <3> QED BY <3>1, <3>2 DEF Pending
  <2>3. queue' = [i \in 1 .. Len(queue) |-> aged(queue[i])]
    BY <2>1 DEF Poll, Passed
  <2> HIDE DEF aged
  <2> QED BY <2>1, <2>2, <2>3
<1>5. UNCHANGED <<page, active, built, run, trans, deferred, evictable, owed, ended>>
  BY DEF Poll
<1>6. TypeOK'
  BY <1>1, <1>3, <1>4, <1>5 DEF Inv, TypeOK
<1> QED BY <1>1, <1>4, <1>5, <1>6 DEF Inv, RuntimeMatchesScene, ActionsConserved, Visible, InActiveState,
           AnnouncedAreBuilt, AnnouncedStayFinished, Finished

-----------------------------------------------------------------------------
(* The theorems.                                                           *)

LEMMA NextKeepsInv ==
    ASSUME Inv, [Next]_vars
    PROVE  Inv'
<1>1. CASE UNCHANGED vars
  BY <1>1 DEF vars, Inv, TypeOK, RuntimeMatchesScene, ActionsConserved, Visible, InActiveState,
         AnnouncedAreBuilt, AnnouncedStayFinished, Finished
<1>2. CASE Step
  BY <1>2, TickPendingKeepsInv, FireEventKeepsInv, AnnounceEndKeepsInv, TickKeepsInv,
     ResumeKeepsInv, PresentKeepsInv, StartPageTransitionKeepsInv, ChangePanelKeepsInv,
     ActivateDeferredKeepsInv, SkipPassKeepsInv, FlushKeepsInv, SkipCheckKeepsInv,
     ResizedKeepsInv DEF Step
<1>3. CASE Poll(None) \/ \E input \in UserCalls : Poll(input)
  BY <1>3, PollKeepsInv
<1> QED BY <1>1, <1>2, <1>3 DEF Next

\* Every reachable state satisfies the inductive invariant.
THEOREM ChoreographyInvariant == Spec => []Inv
<1>1. Init => Inv
  BY InitEstablishesInv
<1>2. Inv /\ [Next]_vars => Inv'
  BY NextKeepsInv
<1> QED BY <1>1, <1>2, PTL DEF Spec

\* A panel shows one of its own states, no more transitions run than the page
\* has panels (the slots admitted with it),
\* and the action queue never outgrows MAX_PENDING_EVENT_ACTIONS
\* (events.rs), whatever the page and its bindings.
THEOREM ChoreographyTypes == Spec => []TypeOK
<1>1. Inv => TypeOK
  BY DEF Inv
<1> QED BY <1>1, ChoreographyInvariant, PTL

\* The animation runtime holds exactly what the panels show: the
\* topology test of relayout_panels_for (runner.rs) forgets no rebuild.
THEOREM RuntimeAlwaysMatches == Spec => []RuntimeMatchesScene
<1>1. Inv => RuntimeMatchesScene
  BY DEF Inv
<1> QED BY <1>1, ChoreographyInvariant, PTL

\* execute_on_actions settles every committed action exactly once, refused
\* relayouts and retries included.
THEOREM ActionsAlwaysConserved == Spec => []ActionsConserved
<1>1. Inv => ActionsConserved
  BY DEF Inv
<1> QED BY <1>1, ChoreographyInvariant, PTL

\* No rebuild and no tick replays an animation whose end was announced.
THEOREM AnnouncedNeverReplayed == Spec => []AnnouncedStayFinished
<1>1. Inv => AnnouncedStayFinished
  BY DEF Inv
<1> QED BY <1>1, ChoreographyInvariant, PTL
=============================================================================
