------------------------------ MODULE Choreography ------------------------------
(***************************************************************************)
(* What a page does by itself after it has been shown: the authored event  *)
(* bindings ([on] elements) with their queue, the panels they switch, the  *)
(* animation runtime, panel and page transitions, fast-forward (`f') and   *)
(* the link that waits for its exit animation.                             *)
(*                                                                         *)
(* The terminal loop runs on one task.  Its straight-line code is kept as  *)
(* `plan', the calls it still has to make; a step takes the first of them. *)
(* A call that the resource budget refuses is retried after something was  *)
(* evicted; when nothing is left to evict an error page replaces the page. *)
(* One turn of the loop is one unit of time.                               *)
(***************************************************************************)
EXTENDS Integers, Sequences, FiniteSets, SequencesExt, FiniteSetsExt, Subsequences

CONSTANTS
    Anims,          \* the page's [animate] elements
    Kind,           \* [Anims -> {"frame", "wasm"}]
    Autoplay,       \* the animations that start by themselves
    After,          \* [Anims -> Anims \cup {None}]: starts after that one
    Length,         \* [Anims -> Nat]: frames of a run, 0 = never ends
    Background,     \* the animations on the background layer
    Home,           \* [Anims -> <<panel, state>> or None]: inside that state
    Panels,
    States,         \* [Panels -> sequence of state names]
    Duration,       \* [Panels -> [state -> Nat]]: transition into it, 0 = cut
    Bindings,       \* sequence of [event, source, action, target, to, delay]
    Exit,           \* the animation the page's deferred link waits for
    PageTransition, \* duration of the transition into this page, 0 = none
    MaxPending,     \* MAX_PENDING_EVENT_ACTIONS
    MaxCascade,     \* MAX_CASCADE_DEPTH
    MaxPasses,      \* passes of the fast-forward loop
    Evictable,      \* what pressure recovery can evict before giving up
    MaxInputs,      \* bound on the user's inputs
    MaxFaults,      \* bound on refusals of the budget and on guest traps
    None

\* A page that passed validation: panels with at least one state, durations
\* for each, and bindings that switch panels the page has.
ASSUME PageAssumption ==
    /\ IsFiniteSet(Anims) /\ IsFiniteSet(Panels)
    /\ Length \in [Anims -> Nat]
    /\ \A p \in Panels : /\ States[p] \in Seq(Range(States[p])) /\ States[p] # <<>>
                         /\ \A s \in Range(States[p]) : Duration[p][s] \in Nat
    /\ Bindings \in Seq(Range(Bindings))
    /\ \A i \in DOMAIN Bindings :
         /\ Bindings[i].delay \in Nat
         /\ Bindings[i].action \in {"set", "toggle"} => Bindings[i].target \in Panels
    /\ MaxPending \in Nat /\ MaxPasses \in Nat /\ Evictable \in Nat

VARIABLES
    page,           \* "live", "left" (navigated away), "error"
    plan,           \* calls the loop still makes in this turn
    active,         \* [Panels -> state]: the state each panel shows
    built,          \* the animations in the runtime
    run,            \* [Anims -> [st, left]]
    trans,          \* running panel transitions: sequence of [panel, left]
    overlay,        \* the page-transition overlay node is in the scene
    xition,         \* time left in the page transition's adapter, 0 = none
    queue,          \* EventDispatcher.pending: [b, left, depth]
    deferred,       \* DeferredNavigation: None or [ready, final]
    evictable, inputs, faults,
    owed,           \* history: actions committed to the queue, not settled
    ended,          \* history: animations whose end was announced
    silent          \* history: panel changes without their state-change event

vars == <<page, plan, active, built, run, trans, overlay, xition, queue,
          deferred, evictable, inputs, faults, owed, ended, silent>>

\* The id of a panel transition, which no binding names.
TransitionId == "trans"

-----------------------------------------------------------------------------
(* The animation runtime.                                                  *)

InActiveState(a, act) == Home[a] = None \/ act[Home[a][1]] = Home[a][2]

\* The animations a runtime built from the scene holds: those that no
\* hidden panel state contains.
Visible(act) == {a \in Anims : InActiveState(a, act)}

\* Frames rendered from the authored ones; a guest states its own number.
RunLength(a) == Length[a]

Fresh(a) == [st |-> "Waiting", left |-> RunLength(a)]
Started(a) == [st |-> "Running", left |-> RunLength(a)]
Stopped(a) == [st |-> "Finished", left |-> 0]

Finished(a) == run[a].st = "Finished"

RebuiltForgets(act) == [a \in Anims |-> Fresh(a)]

\* The runtime after a rebuild: every animation starts over, the finished
\* ones are stopped again so that their end is not announced twice.
Rebuilt(act) ==
    [a \in Anims |->
        IF a \in Visible(act) /\ ~(a \in built /\ Finished(a))
        THEN Fresh(a) ELSE Stopped(a)]

TopologyByCount(act) == Cardinality(built) # Cardinality(Visible(act))

animation_topology_changed(act) == built # Visible(act)

HasAnimations == xition > 0 \/ \E a \in built : ~Finished(a)

FastForwardable(a) ==
    IF Kind[a] = "wasm"
    THEN /\ a \in Autoplay \/ run[a].st # "Waiting"
         /\ a \notin Background \/ Length[a] > 0
    ELSE a \notin Background

Skippable == {a \in built : ~Finished(a) /\ FastForwardable(a)}
HasForeground == Skippable # {} \/ xition > 0 \/ trans # <<>>

\* Waiting to running: autoplay, and the animation it comes after was
\* finished when the tick began.
Begins(a) ==
    /\ a \in Autoplay
    /\ After[a] # None => After[a] \in built /\ Finished(After[a])

advance_frame(r) == [r EXCEPT !.left = IF @ = 0 THEN 0 ELSE @ - 1]

\* One tick of one animation; trapped are the guests that trap in it.
Advanced(a, trapped) ==
    LET r == IF run[a].st = "Waiting" /\ Begins(a) THEN Started(a) ELSE run[a]
    IN  IF r.st # "Running" THEN r
        ELSE IF a \in trapped \/ r.left = 1 THEN Stopped(a)
        ELSE advance_frame(r)

trigger_start(a, r) == IF a \in built THEN [r EXCEPT ![a] = Started(a)] ELSE r
trigger_stop(a, r) == IF a \in built THEN [r EXCEPT ![a] = Stopped(a)] ELSE r

-----------------------------------------------------------------------------
(* The event dispatcher.                                                   *)

\* The bindings an event fires, in the page's order.
Matching(event, source) ==
    Subsequence([i \in DOMAIN Bindings |-> i],
                {i \in DOMAIN Bindings : /\ Bindings[i].event = event
                                         /\ Bindings[i].source \in {None, source}})

prepare_fire(event, source, depth) ==
    [k \in DOMAIN Matching(event, source) |->
        LET i == Matching(event, source)[k]
        IN  [b |-> i, left |-> Bindings[i].delay, depth |-> depth]]

\* The batch is refused as a whole when the queue cannot take all of it.
Fits(batch) == Len(queue) + Len(batch) <= MaxPending

next_ready ==
    LET ready == {i \in DOMAIN queue : queue[i].left = 0}
    IN  IF ready = {} THEN 0 ELSE Min(ready)

flush_pending_now == [i \in DOMAIN queue |-> [queue[i] EXCEPT !.left = 0]]
Passed == [i \in DOMAIN queue |->
              [queue[i] EXCEPT !.left = IF @ = 0 THEN 0 ELSE @ - 1]]

-----------------------------------------------------------------------------
(* Plans: the calls that remain in this turn of the loop.                  *)

Action(f, id, to) == [do |-> f, id |-> id, to |-> to, via |-> f, n |-> 0]
Call(f) == Action(f, None, None)
AnimationEnd(a) == Action("AnimationEnd", a, None)
Event(kind, source) == Action(kind, source, None)
SkipNumber(n) == [Call("Skip") EXCEPT !.n = n]

\* Stages 2, 3 and the presentation of the next turn.
Turn == <<Call("Tick"), Call("TickPending"), Call("Resume"), Call("Present")>>

Then(calls) == plan' = calls \o Tail(plan)
Now(f) == page = "live" /\ plan # <<>> /\ Head(plan).do = f

\* The budget refuses the call at the head: something is evicted and `retry'
\* is made instead, or the error page takes over.
Refused(retry) ==
    /\ IF evictable > 0
       THEN /\ evictable' = evictable - 1
            /\ Then(<<retry>>)
            /\ UNCHANGED page
       ELSE /\ page' = "error"
            /\ plan' = <<>>
            /\ UNCHANGED evictable
    /\ UNCHANGED <<active, built, run, trans, overlay, xition, queue, deferred,
                   inputs, owed, ended, silent>>

\* A refusal the environment chooses: memory of the process is short.
Pressure(retry) ==
    /\ faults < MaxFaults
    /\ faults' = faults + 1
    /\ Refused(retry)

-----------------------------------------------------------------------------
(* Panels.                                                                 *)

AnyState == UNION {Range(States[p]) : p \in Panels}

IndexOf(seq, x) == IF x \in Range(seq) THEN CHOOSE i \in DOMAIN seq : seq[i] = x ELSE 1
NextIn(seq, s) == seq[(IndexOf(seq, s) % Len(seq)) + 1]

\* The state a set or a toggle asks for; the current one when it changes
\* nothing (already there, unknown state, fewer than two states).
SetTo(p, s) == IF s \in Range(States[p]) THEN s ELSE active[p]
ToggleTo(p) == IF Len(States[p]) < 2 THEN active[p] ELSE NextIn(States[p], active[p])

\* One slot per panel was admitted when the page was built.
TransitionSlot == Len(trans) < Cardinality(Panels)

\* Whether relayout_panels_for finds room for the transition it would add:
\* a rebuilt runtime starts without transitions.
RelayoutRoom(p, s) ==
    Duration[p][s] = 0 \/ TransitionSlot
        \/ animation_topology_changed([active EXCEPT ![p] = s])

\* relayout_panels_for commits panel p in state s.
relayout_panels_for(p, s) ==
    LET act == [active EXCEPT ![p] = s]
        rebuild == animation_topology_changed(act)
        added == IF Duration[p][s] = 0 THEN <<>>
                 ELSE <<[panel |-> p, left |-> Duration[p][s]]>>
    IN  /\ active' = act
        /\ IF rebuild
           THEN /\ built' = Visible(act)
                /\ run' = Rebuilt(act)
                /\ trans' = added
                /\ xition' = 0
                /\ ended' = ended \cap Visible(act)
           ELSE /\ trans' = trans \o added
                /\ UNCHANGED <<built, run, xition, ended>>

-----------------------------------------------------------------------------
(* execute_on_actions: the queue's ready actions, one after the other.     *)

Settle(i, more) ==
    /\ queue' = RemoveAt(queue, i) \o more
    /\ owed' = owed - 1 + Len(more)

\* An action that needs no relayout: too deep, or it starts or stops an
\* animation.
ExecuteAnimate(i) ==
    LET q == queue[i]  b == Bindings[q.b]  deep == q.depth >= MaxCascade
    IN  /\ deep \/ b.action \in {"animate", "stop"}
        /\ Settle(i, <<>>)
        /\ run' = IF deep THEN run
                  ELSE IF b.action = "animate" THEN trigger_start(b.target, run)
                  ELSE trigger_stop(b.target, run)
        /\ ended' = IF ~deep /\ b.action = "animate" THEN ended \ {b.target} ELSE ended
        /\ UNCHANGED <<page, plan, active, built, trans, overlay, xition, deferred,
                       evictable, inputs, faults, silent>>

SettleUnchangedKept(i) == UNCHANGED <<queue, owed>>

\* A set or toggle whose panel already shows the wanted state is settled.
SettleUnchanged(i) == Settle(i, <<>>)

ExecutePanelEarly(i) ==
    LET b == Bindings[queue[i].b]
        s == IF b.action = "set" THEN SetTo(b.target, b.to) ELSE ToggleTo(b.target)
    IN  /\ queue[i].depth < MaxCascade
        /\ b.action \in {"set", "toggle"}
        /\ queue' = RemoveAt(queue, i)
        /\ \/ /\ faults < MaxFaults /\ faults' = faults + 1
              /\ Then(<<Call("TickPending")>>)
              /\ UNCHANGED <<active, built, run, trans, xition, ended, owed>>
           \/ /\ relayout_panels_for(b.target, s)
              /\ owed' = owed - 1
              /\ UNCHANGED <<plan, faults>>
        /\ UNCHANGED <<page, overlay, deferred, evictable, inputs, silent>>

\* Set and Toggle: the cascade is staged before the panel is touched, and
\* the action leaves the queue only when the relayout has committed.
ExecutePanel(i) ==
    LET q == queue[i]
        b == Bindings[q.b]
        s == IF b.action = "set" THEN SetTo(b.target, b.to) ELSE ToggleTo(b.target)
        cascade == prepare_fire("state-change", b.target, q.depth + 1)
    IN  /\ q.depth < MaxCascade
        /\ b.action \in {"set", "toggle"}
        /\ IF ~Fits(cascade) \/ (s # active[b.target] /\ ~RelayoutRoom(b.target, s))
           THEN Refused(Call("TickPending")) /\ UNCHANGED faults
           ELSE IF s = active[b.target]
           THEN /\ SettleUnchanged(i)
                /\ UNCHANGED <<page, plan, active, built, run, trans, overlay, xition,
                               deferred, evictable, inputs, faults, ended, silent>>
           ELSE \/ Pressure(Call("TickPending"))
                \/ /\ relayout_panels_for(b.target, s)
                   /\ Settle(i, cascade)
                   /\ UNCHANGED <<page, plan, overlay, deferred, evictable, inputs,
                                  faults, silent>>

\* PresentationAction::TickPendingActions.
TickPending ==
    /\ Now("TickPending")
    /\ \/ next_ready # 0 /\ (ExecuteAnimate(next_ready) \/ ExecutePanel(next_ready))
       \/ /\ next_ready = 0
          /\ Then(<<>>)
          /\ UNCHANGED <<page, active, built, run, trans, overlay, xition, queue,
                         deferred, evictable, inputs, faults, owed, ended, silent>>

-----------------------------------------------------------------------------
(* The other calls of a turn.                                              *)

Events == {"page-load", "animation-end", "focus", "blur", "state-change"}

\* An authored event: its bindings are staged and committed together, then
\* the queue runs.
FireEvent ==
    /\ page = "live" /\ plan # <<>>
    /\ Head(plan).do \in Events
    /\ LET c == Head(plan)
           batch == prepare_fire(c.do, c.id, 0)
       IN  IF Fits(batch)
           THEN /\ queue' = queue \o batch
                /\ owed' = owed + Len(batch)
                /\ silent' = IF c.do = "state-change" THEN silent - 1 ELSE silent
                /\ Then(<<Call("TickPending")>>)
                /\ UNCHANGED <<page, active, built, run, trans, overlay, xition, deferred,
                               evictable, inputs, faults, ended>>
           ELSE Refused([c EXCEPT !.do = c.via]) /\ UNCHANGED faults

AnnounceEndQuietly ==
    /\ Now("AnimationEnd")
    /\ Then(<<Event("animation-end", Head(plan).id)>>)
    /\ UNCHANGED <<page, active, built, run, trans, overlay, xition, queue, deferred,
                   evictable, inputs, faults, owed, ended, silent>>

\* The end of an animation is first told to the waiting link.
AnnounceEnd ==
    /\ Now("AnimationEnd")
    /\ deferred' = IF deferred # None /\ Head(plan).id = Exit
                   THEN [deferred EXCEPT !.ready = TRUE] ELSE deferred
    /\ Then(<<Event("animation-end", Head(plan).id)>>)
    /\ UNCHANGED <<page, active, built, run, trans, overlay, xition, queue, evictable,
                   inputs, faults, owed, ended, silent>>

\* The ends to announce: running animations that finished in this tick.
NewlyFinished(old, new) == {a \in built : old[a].st # "Finished" /\ new[a].st = "Finished"}

Announced(set) == [i \in 1 .. Cardinality(set) |-> AnimationEnd(SetToSeq(set)[i])]

\* LifecycleEvent::Timer: the loop asks for it only while an animation runs.
TickDue == HasAnimations

TicksTransitions ==
    LET older == [i \in DOMAIN trans |-> [trans[i] EXCEPT !.left = @ - 1]]
    IN  Subsequence(older, {i \in DOMAIN older : older[i].left > 0})

Tick ==
    /\ Now("Tick")
    /\ IF ~TickDue
       THEN /\ Then(<<>>)
            /\ UNCHANGED <<page, active, built, run, trans, overlay, xition, queue,
                           deferred, evictable, inputs, faults, owed, ended, silent>>
       ELSE \/ Pressure(Call("Tick"))
            \/ \E trapped \in SUBSET {a \in built : Kind[a] = "wasm"} :
                 LET new == [a \in Anims |->
                                IF a \in built THEN Advanced(a, trapped) ELSE run[a]]
                     done == NewlyFinished(run, new)
                 IN  /\ trapped \subseteq {a \in Anims : run[a].st = "Running"}
                     /\ faults + Cardinality(trapped) <= MaxFaults
                     /\ faults' = faults + Cardinality(trapped)
                     /\ run' = new
                     /\ ended' = ended \cup done
                     /\ trans' = TicksTransitions
                     /\ xition' = IF xition = 0 THEN 0 ELSE xition - 1
                     /\ overlay' = (overlay /\ xition # 1)
                     /\ Then(Announced(done))
                     /\ UNCHANGED <<page, active, built, queue, deferred, evictable,
                                    inputs, owed, silent>>

\* The deferred link navigates once its exit has ended and been shown.
Resume ==
    /\ Now("Resume")
    /\ IF deferred # None /\ deferred.ready /\ deferred.final
       THEN page' = "left" /\ plan' = <<>> /\ deferred' = None
       ELSE Then(<<>>) /\ UNCHANGED <<page, deferred>>
    /\ UNCHANGED <<active, built, run, trans, overlay, xition, queue, evictable,
                   inputs, faults, owed, ended, silent>>

\* A frame is shown; the loop drops a deferred link whose animation is gone.
Present ==
    /\ Now("Present")
    /\ deferred' = IF deferred = None \/ Exit \notin built THEN None
                   ELSE [deferred EXCEPT !.final = deferred.ready]
    /\ Then(<<>>)
    /\ UNCHANGED <<page, active, built, run, trans, overlay, xition, queue,
                   evictable, inputs, faults, owed, ended, silent>>

\* StartPageTransition, after the page's load event.
StartPageTransition ==
    /\ Now("StartPageTransition")
    /\ IF PageTransition = 0
       THEN UNCHANGED <<overlay, xition>>
       ELSE overlay' = TRUE /\ xition' = PageTransition
    /\ Then(<<>>)
    /\ UNCHANGED <<page, active, built, run, trans, queue, deferred, evictable,
                   inputs, faults, owed, ended, silent>>

-----------------------------------------------------------------------------
(* The user.                                                               *)

\* SetPanel and TogglePanel: the panel changes first, its state-change event
\* fires after the commit; refused, the whole action is retried.
ChangePanel ==
    /\ Now("SetPanel") \/ Now("TogglePanel")
    /\ LET c == Head(plan)
           s == IF c.do = "SetPanel" THEN SetTo(c.id, c.to) ELSE ToggleTo(c.id)
       IN  IF s = active[c.id]
           THEN /\ Then(<<>>)
                /\ UNCHANGED <<page, active, built, run, trans, overlay, xition, queue,
                               deferred, evictable, inputs, faults, owed, ended, silent>>
           ELSE IF ~RelayoutRoom(c.id, s) THEN Refused(c) /\ UNCHANGED faults
           ELSE \/ Pressure(c)
                \/ /\ relayout_panels_for(c.id, s)
                   /\ silent' = silent + 1
                   /\ Then(<<[c EXCEPT !.do = "state-change"]>>)
                   /\ UNCHANGED <<page, overlay, queue, deferred, evictable, inputs,
                                  faults, owed>>

Defer ==
    /\ deferred' = [ready |-> FALSE, final |-> FALSE]
    /\ run' = trigger_start(Exit, run)
    /\ ended' = ended \ {Exit}

\* The link with a defer attribute: its animation starts and the link waits;
\* without that animation the navigation goes ahead.
ActivateDeferred ==
    /\ Now("ActivateDeferred")
    /\ IF deferred # None
       THEN Then(<<>>) /\ UNCHANGED <<page, deferred, run, ended>>
       ELSE IF Exit \in built
       THEN /\ Defer
            /\ Then(<<>>)
            /\ UNCHANGED page
       ELSE page' = "left" /\ plan' = <<>> /\ UNCHANGED <<deferred, run, ended>>
    /\ UNCHANGED <<active, built, trans, overlay, xition, queue, evictable, inputs,
                   faults, owed, silent>>

CancelTransitions == trans' = <<>> /\ xition' = 0 /\ overlay' = FALSE

\* One pass of fast-forward: everything that can be skipped jumps to its
\* end, transitions are dropped, the ends are announced, delays collapse.
SkipPass ==
    /\ Now("Skip")
    /\ \/ Pressure(Head(plan))
       \/ LET ids == Announced(Skippable)
                     \o [i \in DOMAIN trans |-> AnimationEnd(TransitionId)]
          IN  /\ run' = [a \in Anims |-> IF a \in Skippable THEN Stopped(a) ELSE run[a]]
              /\ ended' = ended \cup Skippable
              /\ CancelTransitions
              /\ Then(ids \o <<Call("Flush"), [Head(plan) EXCEPT !.do = "SkipCheck"]>>)
              /\ UNCHANGED <<page, active, built, queue, deferred, evictable, inputs,
                             faults, owed, silent>>

Flush ==
    /\ Now("Flush")
    /\ queue' = flush_pending_now
    /\ Then(<<Call("TickPending")>>)
    /\ UNCHANGED <<page, active, built, run, trans, overlay, xition, deferred,
                   evictable, inputs, faults, owed, ended, silent>>

\* Another pass unless everything has settled or the passes are used up.
SkipCheck ==
    /\ Now("SkipCheck")
    /\ LET n == Head(plan).n
       IN  IF n < MaxPasses /\ (HasForeground \/ queue # <<>>)
           THEN Then(<<SkipNumber(n + 1)>>)
           ELSE Then(<<>>)
    /\ UNCHANGED <<page, active, built, run, trans, overlay, xition, queue, deferred,
                   evictable, inputs, faults, owed, ended, silent>>

ResizeStops == SUBSET {a \in built : Kind[a] = "wasm"}

\* A resize cancels the transitions; a guest that cannot resize stops.
Resized ==
    /\ Now("Resize")
    /\ \E stopped \in ResizeStops :
         /\ faults + Cardinality(stopped) <= MaxFaults
         /\ faults' = faults + Cardinality(stopped)
         /\ run' = [a \in Anims |-> IF a \in stopped THEN Stopped(a) ELSE run[a]]
    /\ CancelTransitions
    /\ Then(<<>>)
    /\ UNCHANGED <<page, active, built, queue, deferred, evictable, inputs, owed,
                   ended, silent>>

UserCalls ==
    {Action("SetPanel", p, s) : p \in Panels, s \in AnyState}
    \cup {Action("TogglePanel", p, None) : p \in Panels}
    \cup {Call("ActivateDeferred"), Call("Resize"), Call("focus"), Call("blur")}
    \cup (IF HasForeground \/ queue # <<>>
          THEN {SkipNumber(1)} ELSE {})

\* Stage 1, the end of a turn: time passes and at most one input is read.
\* A deferred link that can resume does not wait for input.
Poll(input) ==
    /\ page = "live" /\ plan = <<>>
    /\ queue' = Passed
    /\ UNCHANGED <<page, active, built, run, trans, overlay, xition, deferred,
                   evictable, faults, owed, ended, silent>>
    /\ IF input = None
       THEN plan' = Turn /\ UNCHANGED inputs
       ELSE /\ inputs < MaxInputs
            /\ input \in UserCalls
            /\ ~(deferred # None /\ deferred.ready /\ deferred.final)
            /\ inputs' = inputs + 1
            /\ plan' = IF input.do \in {"SetPanel", "TogglePanel", "ActivateDeferred"}
                       THEN Turn \o <<input>>      \* handled at the end of the turn
                       ELSE <<input>> \o Turn

-----------------------------------------------------------------------------
Init ==
    /\ page = "live"
    /\ plan = <<Call("page-load"), Call("StartPageTransition")>>
    /\ active = [p \in Panels |-> States[p][1]]
    /\ built = Visible(active)
    /\ run = [a \in Anims |-> IF a \in built THEN Fresh(a) ELSE Stopped(a)]
    /\ trans = <<>>
    /\ overlay = FALSE /\ xition = 0
    /\ queue = <<>>
    /\ deferred = None
    /\ evictable = Evictable
    /\ inputs = 0 /\ faults = 0
    /\ owed = 0 /\ ended = {} /\ silent = 0

Step ==
    \/ TickPending \/ FireEvent \/ AnnounceEnd \/ Tick \/ Resume \/ Present
    \/ StartPageTransition \/ ChangePanel \/ ActivateDeferred \/ SkipPass
    \/ Flush \/ SkipCheck \/ Resized

Next == Step \/ Poll(None) \/ \E input \in UserCalls : Poll(input)

Spec == Init /\ [][Next]_vars

\* The loop keeps turning: its calls return and an idle poll times out.
FairSpec == Spec /\ WF_vars(Step) /\ WF_vars(Poll(None))

-----------------------------------------------------------------------------
(* Properties.                                                             *)

CallNames ==
    Events \cup {"Tick", "TickPending", "Resume", "Present", "StartPageTransition",
                "AnimationEnd", "SetPanel", "TogglePanel", "ActivateDeferred",
                "Skip", "SkipCheck", "Flush", "Resize"}

\* A call that can end in a panel change names a panel.
Calls ==
    {c \in [do : CallNames, id : Anims \cup Panels \cup {None, TransitionId},
            to : AnyState \cup {None}, via : CallNames, n : Nat] :
       {c.do, c.via} \cap {"SetPanel", "TogglePanel"} # {} => c.id \in Panels}

Pending == [b : DOMAIN Bindings, left : Nat, depth : Nat]
Transitions == [panel : Panels, left : Nat \ {0}]

\* A panel shows one of its own states, and neither the queue nor the
\* transitions outgrow what was admitted for them.
TypeOK ==
    /\ page \in {"live", "left", "error"}
    /\ plan \in Seq(Calls)
    /\ active \in [Panels -> AnyState]
    /\ \A p \in Panels : active[p] \in Range(States[p])
    /\ built \subseteq Anims
    /\ run \in [Anims -> [st : {"Waiting", "Running", "Finished"}, left : Nat]]
    /\ trans \in Seq(Transitions) /\ Len(trans) <= Cardinality(Panels)
    /\ queue \in Seq(Pending) /\ Len(queue) <= MaxPending
    /\ deferred \in {None} \cup [ready : BOOLEAN, final : BOOLEAN]
    /\ evictable \in 0 .. Evictable

\* Between two calls the runtime holds exactly the animations the panels
\* show, whatever sequence of panel changes, rebuilds and refusals led here.
RuntimeMatchesScene == page = "live" => built = Visible(active)

\* A queued action is settled exactly once: a refused relayout neither loses
\* it nor lets it, or its cascade, be queued twice.
ActionsConserved == page = "live" => owed = Len(queue)

\* An animation whose end was announced stays finished until it is started
\* again: a rebuild does not replay it.
AnnouncedStayFinished == \A a \in ended : Finished(a)

\* The loop always comes back to the keyboard: neither a cascade, a settled
\* action nor fast-forward spins.
LoopReturns == (plan # <<>>) ~> (plan = <<>>)

\* A waiting link navigates or is dropped once its animation has run to its
\* end; only one that was stopped or rebuilt on the way leaves it waiting.
DeferredResolves ==
    (deferred # None)
        ~> \/ deferred = None \/ page # "live"
           \/ ~deferred.ready /\ run[Exit].st # "Running" /\ Exit \notin ended

-----------------------------------------------------------------------------
(* Statements of the documents the code does not keep.                     *)

\* Every panel transition ends.
\* It does not hold for the code: see the README, known divergences.
TransitionsSettle == (trans # <<>>) ~> (trans = <<>> \/ page # "live")

\* The overlay of a page transition is removed by its adapter.
OverlayOwned == page = "live" /\ overlay => xition > 0

\* A link waits only while its exit animation runs.
DeferredAlive ==
    page = "live" /\ plan = <<>> /\ deferred # None /\ ~deferred.ready
        => run[Exit].st = "Running"

\* Every panel change fires its state-change event.
ChangesAnnounced == page = "live" /\ plan = <<>> => silent = 0

\* A panel change on a page with memory to spare succeeds.
PanelsKeepWorking == page = "error" => faults > 0
=============================================================================
