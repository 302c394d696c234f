------------------------------ MODULE Validate ------------------------------
(***************************************************************************)
(* The checks a parsed page goes through (parser/validate.rs): every       *)
(* reference to a panel, a state or an animation must resolve, and the     *)
(* page stays within its limits.  The walks reach an element through       *)
(* Children only, so the summary_children of a [details] are not seen.     *)
(***************************************************************************)
EXTENDS Elements

CONSTANTS MAX_ON_BINDINGS, MAX_CASCADE_DEPTH,
    MAX_ANIMATE_REGIONS, MAX_WASM_INSTANCES, MAX_ANIMATION_FRAMES

\* The elements under `kids', in document order.
RECURSIVE Walk(_)
Walk(kids) ==
    IF kids = << >> THEN << >>
    ELSE <<Head(kids)>> \o Walk(Children(Head(kids))) \o Walk(Tail(kids))

Tagged(all, tag) == SelectSeq(all, LAMBDA n : n.tag = tag)
Members(s) == {s[i] : i \in DOMAIN s}
Of(n, a, default) == IF a \in DOMAIN n.at THEN n.at[a] ELSE default
StatesOf(p) == {Of(s, "name", "") : s \in {k \in Members(p.kids) : k.tag = "state"}}

\* The states of each panel id; of two panels with one id the later counts.
collect_panels(all) ==
    LET ps == Tagged(all, "panel")
    IN [id \in {Of(p, "id", "") : p \in Members(ps)} |->
            StatesOf(ps[CHOOSE i \in DOMAIN ps : /\ Of(ps[i], "id", "") = id
                                                 /\ \A j \in DOMAIN ps :
                                                      Of(ps[j], "id", "") = id => j <= i])]
collect_animation_ids(all) == {Of(n, "id", "") : n \in Members(Tagged(all, "animate"))}
collect_wasm_animation_ids(kids) ==
    {Of(n, "id", "") : n \in {m \in Members(Tagged(Walk(kids), "animate")) : "src" \in DOMAIN m.at}}
collect_element_ids(all) ==
    {Of(n, "id", "") : n \in {m \in Members(all) :
        m.tag \in {"animate", "panel", "live", "element", "link", "input"}}} \ {""}

When(c, d) == IF c THEN {d} ELSE {}

(***************************************************************************)
(* Triggers of buttons, inputs and links                                   *)
(***************************************************************************)
validate_trigger_attrs(n, panels) ==
    IF "trigger" \notin DOMAIN n.at THEN {}
    ELSE IF n.at.trigger.panel \notin DOMAIN panels THEN {Error("E020")}
    ELSE When(n.at.trigger.state \notin panels[n.at.trigger.panel], Error("E021"))

\* MUTANT: a reference is looked up among the panels only, not their states.
validate_element_triggers_panels(n, panels, animations) ==
    When(/\ n.tag = "button" /\ Of(n, "target", "") # ""
         /\ n.at.target \notin DOMAIN panels, Error("E020"))
    \cup (IF n.tag = "link" /\ "defer" \in DOMAIN n.at
          THEN When(n.at.defer \notin animations, Error("E048")) ELSE {})
validate_element_triggers(n, panels, animations) ==
    (IF /\ n.tag = "button" /\ "target" \in DOMAIN n.at
        /\ Of(n, "action", "submit") \in {"toggle", "set"}
     THEN IF n.at.target \notin DOMAIN panels THEN {Error("E020")}
          ELSE LET states == panels[n.at.target]
               IN When("states" \in DOMAIN n.at /\ ~(Members(n.at.states) \subseteq states),
                       Error("E022"))
                  \cup When("to" \in DOMAIN n.at /\ Of(n, "to", "") \notin states, Error("E021"))
     ELSE {})
    \cup (IF n.tag \in {"button", "input", "link"} THEN validate_trigger_attrs(n, panels) ELSE {})
    \cup When(n.tag = "link" /\ "defer" \in DOMAIN n.at /\ Of(n, "defer", "") \notin animations,
              Error("E048"))

(***************************************************************************)
(* Bindings                                                                *)
(***************************************************************************)
\* The longest chain of animation-end bindings, no binding used twice, that
\* starts at the end of `node'.
RECURSIVE Chain(_, _, _)
Chain(node, bindings, visited) ==
    LET next == {i \in DOMAIN bindings \ visited :
                    /\ Of(bindings[i], "event", "") = "animation-end"
                    /\ Of(bindings[i], "do", "") = "animate"
                    /\ Of(bindings[i], "source", "") = node}
    IN IF next = {} THEN 0
       ELSE Max({1 + Chain(Of(bindings[i], "target", ""), bindings, visited \cup {i}) :
                    i \in next})
compute_cascade_depth(bindings) ==
    LET sources == {b.at.source : b \in {c \in Members(bindings) : "source" \in DOMAIN c.at}}
    IN IF sources = {} THEN 0 ELSE Max({Chain(s, bindings, {}) : s \in sources})

validate_on_bindings(all, panels) ==
    LET ids == collect_element_ids(all)
        bindings == Tagged(all, "on")
        Check(b) ==
            When("source" \in DOMAIN b.at /\ Of(b, "source", "") \notin ids, Error("E045"))
            \cup When(Of(b, "target", "") \notin ids \cup {""}, Error("E046"))
            \cup When(/\ Of(b, "do", "") = "set" /\ "to" \in DOMAIN b.at
                      /\ Of(b, "target", "") \in DOMAIN panels
                      /\ Of(b, "to", "") \notin panels[Of(b, "target", "")], Error("E021"))
    IN UNION {Check(b) : b \in Members(bindings)}
       \cup When(Len(bindings) > MAX_ON_BINDINGS, Error("E044"))
       \cup When(compute_cascade_depth(bindings) > MAX_CASCADE_DEPTH, Warning("W010"))

(***************************************************************************)
(* Transitions and limits                                                  *)
(***************************************************************************)
contains_background_animation(all) ==
    \E n \in Members(Tagged(all, "animate")) : "background" \in DOMAIN n.at
is_transparent_fixed_placeholder(s) ==
    /\ Len(s.kids) = 1 /\ s.kids[1].tag = "box" /\ s.kids[1].kids = << >>
    /\ Of(s.kids[1], "w", "fit") = "fixed" /\ Of(s.kids[1], "h", "fit") = "fixed"
    /\ {"border", "bg"} \cap DOMAIN s.kids[1].at = {}

PanelRisks(page, p, backdrop) ==
    LET states == SelectSeq(p.kids, LAMBDA k : k.tag = "state")
        initial == SelectSeq(states, LAMBDA s : Of(s, "name", "") = Of(p, "state", ""))
        others == SelectSeq(states, LAMBDA s : Of(s, "name", "") # Of(p, "state", ""))
    IN IF initial = << >> THEN {}
       ELSE When(/\ "transition" \in DOMAIN page.at /\ backdrop
                 /\ is_transparent_fixed_placeholder(Head(initial)), Warning("W011"))
            \cup When(~(UNION {collect_wasm_animation_ids(s.kids) : s \in Members(others)}
                        \subseteq collect_wasm_animation_ids(Head(initial).kids)),
                      Warning("W013"))
\* A delayed page-load binding that enters a state with a transition.
Overlaps(b, panels) ==
    LET named == SelectSeq(panels, LAMBDA p : Of(p, "id", "") = Of(b, "target", ""))
    IN /\ Of(b, "event", "") = "page-load" /\ Of(b, "do", "") = "set"
       /\ Of(b, "delay", 0) # 0 /\ "to" \in DOMAIN b.at /\ named # << >>
       /\ \E s \in Members(Head(named).kids) :
             s.tag = "state" /\ Of(s, "name", "") = b.at.to /\ "transition" \in DOMAIN s.at
validate_visual_transition_risks(page, all) ==
    LET panels == Tagged(all, "panel")
    IN UNION {PanelRisks(page, p, contains_background_animation(all)) : p \in Members(panels)}
       \cup When(/\ "transition" \in DOMAIN page.at
                 /\ \E b \in Members(Tagged(all, "on")) : Overlaps(b, panels), Warning("W012"))
validate_animation_limits(all) ==
    LET regions == Tagged(all, "animate")
    IN When(Len(regions) > MAX_ANIMATE_REGIONS, Error("E049"))
       \cup When(Len(SelectSeq(regions, LAMBDA n : "src" \in DOMAIN n.at)) > MAX_WASM_INSTANCES,
                 Error("E051"))
       \cup When(Len(Tagged(all, "frame")) > MAX_ANIMATION_FRAMES, Error("E050"))

validate_triggers(page) ==
    LET all == Walk(page.kids)
        panels == collect_panels(all)
    IN UNION {validate_element_triggers(n, panels, collect_animation_ids(all)) : n \in Members(all)}
       \cup validate_on_bindings(all, panels)
       \cup validate_visual_transition_risks(page, all)
       \cup validate_animation_limits(all)
=============================================================================
