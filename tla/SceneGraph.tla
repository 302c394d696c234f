----------------------------- MODULE SceneGraph -----------------------------
(***************************************************************************)
(* The scene tree of a page (src/crates/dustnet-client/src/compositor/     *)
(* scene): how it is built from the parsed document, the patches that      *)
(* change it, the journal that undoes a relayout, and what the runner      *)
(* projects out of it (focusable elements, placed regions, sticky rows).   *)
(*                                                                         *)
(* An element of the document is [t, a, ch]: tag, attributes, children.    *)
(* A node adds to Layout's fields its parent, its AML id ("" for none) and *)
(* its transform; ids are numbered in build order.  Every node is visible: *)
(* nothing in the client hides one.  A scene is a layout state L with      *)
(*   lay   the nodes marked for layout, oldest first                       *)
(*   focus the focused node, or NoNode                                     *)
(*   old   what the open transaction will restore of lay, dirty, err, bh   *)
(***************************************************************************)
EXTENDS Layout

(***************************************************************************)
(* Building (scene/build.rs)                                               *)
(***************************************************************************)
classify(e) == IF e.t \in {"tween", "on", "include"} THEN "ancillary" ELSE "node"
NodeBearing(els) == SelectSeq(els, LAMBDA e : classify(e) = "node")
OfTag(els, tags) == SelectSeq(els, LAMBDA e : e.t \in tags)

Node(k, d, aml) ==
    [k |-> k, d |-> d, aml |-> aml, ch |-> << >>, par |-> NoNode, tr |-> <<0, 0>>]
Kin(ns, id) == [id |-> id, ns |-> ns]
insert_node(ns, node) == Kin(Append(ns, node), Len(ns) + 1)
attach_child(ns, parent, child) ==
    [ns EXCEPT ![child].par = parent, ![parent].ch = Append(@, child)]

RECURSIVE build_element(_, _)
\* Most containers come before their children, text and panels after them.
Adopt(B, parent) == Kin(attach_child(B.ns, parent, B.id), parent)
ParentFirst(ns, node, els) ==
    FoldLeft(LAMBDA acc, e : Adopt(build_element(acc.ns, e), acc.id), insert_node(ns, node), els)
Listing(B, ids) == [ids |-> Append(ids, B.id), ns |-> B.ns]
BuildAll(ns, els) ==
    FoldLeft(LAMBDA acc, e : Listing(build_element(acc.ns, e), acc.ids), [ns |-> ns, ids |-> << >>], els)
AttachAll(N, ids) ==
    Kin(FoldLeft(LAMBDA ns, child : attach_child(ns, N.id, child), N.ns, ids), N.id)

Run(s, st) == IF s = << >> THEN << >> ELSE <<[s |-> s, u |-> st.u, bg |-> st.bg]>>
RECURSIVE flatten_inline_text(_, _)
flatten_inline_text(st, e) ==
    LET texts == OfTag(e.ch, {"text"})
    IN Run(e.a.s, Inherit(st, e.a))
       \o FlattenSeq([i \in DOMAIN texts |-> flatten_inline_text(Inherit(st, e.a), texts[i])])
TextData(runs, align) == [runs |-> runs, align |-> align]
\* Beside a link or a button every child keeps its place as a node; text
\* alone is flattened into runs.
InlineKid(ns, st, e) ==
    IF e.t = "text" THEN insert_node(ns, Node("text", TextData(flatten_inline_text(st, e), e.a.align), ""))
    ELSE build_element(ns, e)
IsMixed(e) == \E i \in DOMAIN e.ch : e.ch[i].t # "text" /\ classify(e.ch[i]) = "node"
MixedText(B, e) ==
    AttachAll(insert_node(B.ns, Node("text", TextData(Run(e.a.s, e.a), e.a.align), "")), B.ids)
build_text(ns, e) ==
    IF ~IsMixed(e) THEN insert_node(ns, Node("text", TextData(flatten_inline_text(Plain, e), e.a.align), ""))
    ELSE MixedText(FoldLeft(LAMBDA acc, x : Listing(InlineKid(acc.ns, e.a, x), acc.ids),
                            [ns |-> ns, ids |-> << >>],
                            SelectSeq(NodeBearing(e.ch),
                                      LAMBDA x : x.t # "text" \/ flatten_inline_text(e.a, x) # << >>)), e)
RunOf(s) == <<[s |-> s, u |-> FALSE, bg |-> FALSE]>>

\* The selected option is the first marked one, else the first.
build_select(ns, e) ==
    LET options == OfTag(e.ch, {"option"})
        marked == {i \in DOMAIN options : options[i].a.selected}
    IN ParentFirst(ns, Node("select", [label |-> e.a.label, name |-> e.a.name,
                                       sel |-> IF marked = {} THEN 0 ELSE Min(marked) - 1], ""),
                   options)
\* The states are built first; the initial one, else the first, is active.
PanelOf(B, e) ==
    LET initial == {i \in DOMAIN B.ids : B.ns[B.ids[i]].aml = e.a.initial}
        active == B.ids[IF initial = {} THEN 1 ELSE Min(initial)]
    IN AttachAll(insert_node(B.ns, Node("panel", [active |-> active], e.a.id)), B.ids)
build_panel(ns, e) == PanelOf(BuildAll(ns, OfTag(e.ch, {"state"})), e)
\* The body of a closed details never becomes nodes.
build_details(ns, e) ==
    LET sum == NodeBearing(e.a.sum)
    IN ParentFirst(ns, Node("details", [open |-> e.a.open, nsum |-> Len(sum),
                                        summary |-> IF sum = << >> THEN e.a.summary ELSE << >>], ""),
                   sum \o (IF e.a.open THEN NodeBearing(e.ch) ELSE << >>))

FlowTags == {"header", "body", "footer", "pagination", "col", "frame", "form"}
build_element(ns, e) ==
    LET kids == NodeBearing(e.ch)
    IN CASE e.t \in FlowTags -> ParentFirst(ns, Node("flow", e.a @@ [src |-> e.t], ""), kids)
         [] e.t \in {"thead", "tbody"} -> ParentFirst(ns, Node("tbody", e.a, ""), kids)
         [] e.t \in {"nav", "list", "item", "row", "table", "tr", "th", "td"} ->
              ParentFirst(ns, Node(e.t, e.a, ""), kids)
         [] e.t = "box" -> ParentFirst(ns, Node(IF e.a.at = << >> THEN "box" ELSE "abs", e.a, ""), kids)
         [] e.t = "text" -> build_text(ns, e)
         [] e.t = "pre" -> insert_node(ns, Node("pre", e.a, ""))
         [] e.t \in {"art", "tanim"} -> insert_node(ns, Node(e.t, TextData(RunOf(e.a.s), "left"), ""))
         [] e.t = "def" -> insert_node(ns, Node("def", TextData(RunOf(trim(e.a.s)), "left"), e.a.id))
         [] e.t \in {"h1", "h2"} -> ParentFirst(ns, Node(e.t, TextData(RunOf(e.a.s), "left"), ""), kids)
         [] e.t \in {"link", "live", "anim"} -> ParentFirst(ns, Node(e.t, e.a, e.a.id), kids)
         [] e.t = "state" -> ParentFirst(ns, Node("state", e.a, e.a.name), kids)
         [] e.t = "input" -> insert_node(ns, Node("input", e.a, e.a.id))
         [] e.t \in {"button", "option", "hr", "spacer"} -> insert_node(ns, Node(e.t, e.a, ""))
         [] e.t = "select" -> build_select(ns, e)
         [] e.t = "panel" -> build_panel(ns, e)
         [] e.t = "details" -> build_details(ns, e)

\* A scene as built: nothing placed, no buffers.
Scene(ns) ==
    [n |-> ns, pl |-> [id \in DOMAIN ns |-> Placed(NoneRect, 0, NoneRect)],
     fr |-> [id \in DOMAIN ns |-> NoRect], bf |-> [id \in DOMAIN ns |-> NoBuf],
     memo |-> [id \in DOMAIN ns |-> NoMemo], bh |-> 0, dirty |-> NoneRect, lay |-> << >>,
     txn |-> FALSE, jl |-> << >>, jb |-> << >>, old |-> << >>, focus |-> NoNode,
     left |-> 0, how |-> "none", hit |-> NoNode, err |-> FALSE]
from_document(els) ==
    Scene(ParentFirst(<< >>, Node("root", << >>, ""), NodeBearing(els)).ns)

(***************************************************************************)
(* Looking things up (scene/tree.rs)                                       *)
(***************************************************************************)
\* AML ids are searched from the last node built.
find_by_aml_id(L, aml) ==
    LET all == {id \in DOMAIN L.n : aml # "" /\ L.n[id].aml = aml}
    IN IF all = {} THEN {} ELSE {Max(all)}
RECURSIVE TreeOrderFrom(_, _)
TreeOrderFrom(L, id) ==
    <<id>> \o FlattenSeq([i \in DOMAIN children(L, id) |-> TreeOrderFrom(L, children(L, id)[i])])
iter_tree_order(L) == TreeOrderFrom(L, Root)
\* Counts every details of the tree, 0-based.
find_details_by_index(L, index) ==
    LET all == SelectSeq(iter_tree_order(L), LAMBDA id : kind(L, id) = "details")
    IN IF index + 1 \in DOMAIN all THEN {all[index + 1]} ELSE {}
iter_placed(L) ==
    LET ids == SelectSeq(iter_tree_order(L),
                         LAMBDA id : kind(L, id) \in {"panel", "anim", "live"} /\ ~is_empty(L.pl[id].r))
    IN [i \in DOMAIN ids |-> [id |-> L.n[ids[i]].aml, k |-> kind(L, ids[i]), r |-> L.pl[ids[i]].r,
                              d |-> IF kind(L, ids[i]) = "live" THEN data(L, ids[i]) ELSE << >>]]
iter_sticky(L) ==
    LET ids == SelectSeq(iter_tree_order(L),
                         LAMBDA id : /\ kind(L, id) \in {"nav", "box"} /\ L.pl[id].r.h > 0
                                     /\ data(L, id).sticky # "none")
    IN [i \in DOMAIN ids |-> [at |-> data(L, ids[i]).sticky, y |-> L.pl[ids[i]].r.y, h |-> L.pl[ids[i]].r.h]]

(***************************************************************************)
(* Focusable elements (panels.rs), in the order Tab visits them            *)
(***************************************************************************)
NoAction == [k |-> "none"]
ActionOf(L, id, form, idx) ==
    CASE kind(L, id) = "button" -> data(L, id).act @@ [form |-> form]
      [] kind(L, id) = "link" -> [k |-> "navigate", href |-> data(L, id).href]
      [] kind(L, id) = "input" -> [k |-> "input", form |-> form, max |-> data(L, id).maxlen]
      [] kind(L, id) = "select" -> [k |-> "select", form |-> form]
      [] kind(L, id) = "details" -> [k |-> "details", index |-> idx]
rect_of(L, id) == IF L.fr[id] = NoRect THEN NoneRect ELSE L.fr[id]
Focusable(L, id, form, idx) ==
    [node |-> id, action |-> ActionOf(L, id, form, idx), col |-> rect_of(L, id).x,
     row |-> rect_of(L, id).y, width |-> rect_of(L, id).w, sticky |-> FALSE]

RECURSIVE collect_from_scene_children(_, _, _, _)
\* What is searched below a node.
Searched(L, id) ==
    CASE kind(L, id) = "panel" -> children(L, data(L, id).active)
      [] kind(L, id) = "details" /\ ~data(L, id).open ->
           SubSeq(children(L, id), 1, Least(data(L, id).nsum, Len(children(L, id))))
      [] kind(L, id) \in {"button", "link", "input", "select", "hr", "spacer"} -> << >>
      [] OTHER -> children(L, id)
IsForm(L, id) == kind(L, id) = "flow" /\ data(L, id).src = "form"
CollectNode(L, acc, id, form) ==
    LET own == IF kind(L, id) \in {"button", "link", "input", "select", "details"}
               THEN <<Focusable(L, id, form, acc.nd)>> ELSE << >>
        nd == IF kind(L, id) = "details" THEN acc.nd + 1 ELSE acc.nd
    IN collect_from_scene_children(L, Searched(L, id), IF IsForm(L, id) THEN id ELSE form,
                                   [out |-> acc.out \o own, nd |-> nd])
collect_from_scene_children(L, ids, form, acc) ==
    FoldLeft(LAMBDA a, id : CollectNode(L, a, id, form), acc, ids)
collect_focusables_from_scene(L) ==
    collect_from_scene_children(L, children(L, Root), NoNode, [out |-> << >>, nd |-> 0]).out

(***************************************************************************)
(* Patches (scene/patch.rs, scene/invalidation.rs)                         *)
(***************************************************************************)
mark_layout(L, id) == IF id \in Range(L.lay) THEN L ELSE [L EXCEPT !.lay = Append(@, id)]
\* A state that is not the panel's leaves everything alone.
set_panel_active(L, panel, active) ==
    IF active \notin Range(children(L, panel)) THEN L
    ELSE mark_composite(mark_composite(
             mark_layout([L EXCEPT !.n[panel].d.active = active], panel),
             L.pl[panel].bb), L.pl[active].bb)
toggle_details(L, id) ==
    IF kind(L, id) # "details" THEN L
    ELSE mark_composite(mark_layout([L EXCEPT !.n[id].d.open = ~@], id), L.pl[id].bb)
set_input_value(L, id, value) ==
    IF id \notin DOMAIN L.n \/ kind(L, id) # "input" THEN L
    ELSE mark_composite(mark_layout([L EXCEPT !.n[id].d.value = value], id), L.pl[id].r)
set_select_index(L, id, index) ==
    IF kind(L, id) # "select" THEN L
    ELSE mark_composite(mark_layout([L EXCEPT !.n[id].d.sel = index], id), L.pl[id].r)
OutlineOf(L, id) == IF id = NoNode THEN NoneRect ELSE L.pl[id].bb
set_focus(L, id) ==
    mark_composite(mark_composite([L EXCEPT !.focus = id], OutlineOf(L, L.focus)), OutlineOf(L, id))
\* Rect::translate stops at the edge of the page.
translate(r, tr) == Rect(Most(r.x + tr[1], 0), Most(r.y + tr[2], 0), r.w, r.h)
effective_rect(L, id) == translate(L.pl[id].bb, L.n[id].tr)
set_transform(L, id, tr) ==
    LET M == [L EXCEPT !.n[id].tr = tr]
    IN mark_composite(mark_composite(M, effective_rect(L, id)), effective_rect(M, id))

(***************************************************************************)
(* The relayout transaction (scene/tree.rs)                                *)
(***************************************************************************)
Opened(L) == [L EXCEPT !.txn = TRUE, !.jl = << >>, !.jb = << >>,
                       !.old = [lay |-> L.lay, dirty |-> L.dirty, err |-> L.err, bh |-> L.bh]]
commit_relayout_transaction(L) == [L EXCEPT !.txn = FALSE, !.jl = << >>, !.jb = << >>, !.old = << >>]
\* MUTANT: the journal restores the nodes and their buffers, not the queue.
rollback_keeps_queue(L) ==
    [L EXCEPT !.bf = [id \in DOMAIN @ |-> IF id \in DOMAIN L.jb THEN L.jb[id] ELSE @[id]],
              !.pl = [id \in DOMAIN @ |-> IF id \in DOMAIN L.jl THEN L.jl[id].pl ELSE @[id]],
              !.fr = [id \in DOMAIN @ |-> IF id \in DOMAIN L.jl THEN L.jl[id].fr ELSE @[id]],
              !.dirty = L.old.dirty, !.err = L.old.err, !.bh = L.old.bh,
              !.txn = FALSE, !.jl = << >>, !.jb = << >>, !.old = << >>]
\* Restores what the journal holds; the page buffer is the runner's own and
\* its candidate is dropped.  Properties set by a patch are the caller's.
rollback_relayout_transaction(L) ==
    [L EXCEPT !.bf = [id \in DOMAIN @ |-> IF id \in DOMAIN L.jb THEN L.jb[id] ELSE @[id]],
              !.pl = [id \in DOMAIN @ |-> IF id \in DOMAIN L.jl THEN L.jl[id].pl ELSE @[id]],
              !.fr = [id \in DOMAIN @ |-> IF id \in DOMAIN L.jl THEN L.jl[id].fr ELSE @[id]],
              !.lay = L.old.lay, !.dirty = L.old.dirty, !.err = L.old.err, !.bh = L.old.bh,
              !.txn = FALSE, !.jl = << >>, !.jb = << >>, !.old = << >>]
\* A copy of the node's buffer to draw on; the live one waits in the journal.
stage_buffer_for_relayout(L, id) ==
    IF ~L.txn \/ id \in DOMAIN L.jb THEN L ELSE [L EXCEPT !.jb = @ @@ (id :> L.bf[id])]
try_resize_preserving(b, w, h) ==
    [w |-> w, h |-> h, ink |-> Restrict(b.ink, {p \in DOMAIN b.ink : p[1] < w /\ p[2] < h})]
\* ensure_buffer: the buffer of a region keeps its cells when it is resized.
ensure_buffer(L, id, w0, h0) ==
    LET w == Most(w0, 1)
        h == Most(h0, 1)
    IN IF L.bf[id] # NoBuf /\ L.bf[id].w = w /\ L.bf[id].h = h THEN L
       ELSE IF L.bf[id] = NoBuf THEN allocate_buffer(stage_buffer_for_relayout(L, id), id, w, h)
       ELSE [stage_buffer_for_relayout(L, id) EXCEPT !.bf[id] = try_resize_preserving(@, w, h)]
=============================================================================
