------------------------------- MODULE Scene -------------------------------
(***************************************************************************)
(* The terminal runner's loop around one page                              *)
(* (src/crates/dustnet-client/src/compositor/terminal/runner.rs): present, *)
(* read an event, tick, take a live update, do what the key asked for,     *)
(* lay out again what was marked.  Every admission on the way may be       *)
(* refused; the refused event is then tried again or given up, and giving  *)
(* up shows the client's own error page.  (Who decides which is Viewer's   *)
(* part, the subscriptions behind the updates are AtpLink's, animations    *)
(* and authored events are Choreography's.)                                *)
(***************************************************************************)
EXTENDS Compositor

CONSTANTS
    Docs,          \* page name -> [cols, rows, bg, els]
    ErrDoc,        \* the client's error page
    First,         \* the page opened first
    Sizes,         \* the terminal sizes, <<width, height>>
    Updates,       \* live updates: [id, delta, els]
    Typed,         \* the graphemes that are typed
    FaultVisits,   \* at which node visits of a pass an admission may be refused
    NoEvent        \* nothing was refused

VARIABLES
    page,     \* [doc, L, foc, placed, sh, own]
    view,     \* [scroll, tw, th, ch, sb]: ViewportState
    mode,     \* [active, node, value, cursor, max]: InputMode
    regions,  \* placed index -> what a scrolling live region has kept
    subs,     \* the subscribed regions, <<placed index, id>>
    comp, screen,
    redraw, help,
    ph,       \* event, tick, act, drain
    act,      \* the viewer action read: any, until one is chosen
    pend      \* the refused event, or NoEvent
vars == <<page, view, mode, regions, subs, comp, screen, redraw, help, ph, act, pend>>

(***************************************************************************)
(* The viewport (terminal/presentation.rs)                                 *)
(***************************************************************************)
with_sticky(tw, th, ch, sb) == [scroll |-> 0, tw |-> tw, th |-> th, ch |-> ch, sb |-> sb]
viewport_height(v) == Monus(v.th, 2)
scroll_height(v) == Monus(viewport_height(v), v.sb)
max_scroll(v) == Monus(v.ch, scroll_height(v))
scrollable(v) == v.ch > viewport_height(v)
Clamped(v, scroll) == [v EXCEPT !.scroll = Least(scroll, max_scroll(v))]
scroll_to_row(v, row) ==
    Clamped(v, IF row < v.scroll THEN row
               ELSE IF row >= v.scroll + scroll_height(v) THEN Monus(row + 1, scroll_height(v))
               ELSE v.scroll)
\* handle_key: where a scroll key leads.
ScrollKeys == {"down", "up", "pagedown", "pageup", "home", "end"}
handle_key(v, key) ==
    CASE key = "home" -> 0
      [] key = "end" -> max_scroll(v)
      [] ~scrollable(v) -> v.scroll
      [] key = "down" -> IF v.scroll < max_scroll(v) THEN v.scroll + 1 ELSE v.scroll
      [] key = "up" -> Monus(v.scroll, 1)
      [] key = "pagedown" -> Least(v.scroll + scroll_height(v), max_scroll(v))
      [] key = "pageup" -> Monus(v.scroll, scroll_height(v))

(***************************************************************************)
(* Refused admissions.  A fault names the step of a pass that is refused,  *)
(* "node" the left-th node visited: the copy of its children or its buffer;*)
(* "lease" what the finished layout is read into (its lists, its lease, the*)
(* sticky rows), "hydrate" the buffers of the placed regions.              *)
(***************************************************************************)
Fault(at, left, how) == [at |-> at, left |-> left, how |-> how]
NoFault == Fault("none", 0, "none")
Faults == {Fault(at, 0, "none") : at \in {"begin", "clone", "project", "queue"}}
          \cup {Fault("node", n, how) : n \in FaultVisits, how \in {"copy", "buffer"}}
          \cup {NoFault}
\* A layout that was admitted throughout may be refused afterwards.
Later(f) == IF f = NoFault THEN {"none", "lease", "hydrate"} ELSE {"none"}
Armed(L, f) == [L EXCEPT !.left = f.left, !.how = f.how]
Rested(L) == [begin_layout_pass(L) EXCEPT !.left = 0, !.how = "none", !.hit = NoNode]

(***************************************************************************)
(* What the runner derives from a scene                                    *)
(***************************************************************************)
\* split_sticky: everything below the top of the lowest bottom-sticky region
\* leaves the scrolling part.
SplitAt(L, foc, placed, sr) ==
    [L |-> [L EXCEPT !.bh = sr.y], placed |-> placed, sh |-> sr.h,
     foc |-> [i \in DOMAIN foc |-> IF foc[i].row < sr.y THEN foc[i]
                                   ELSE [foc[i] EXCEPT !.row = @ - sr.y, !.sticky = TRUE]]]
Lowest(all) ==
    LET top == Max({all[i].y : i \in DOMAIN all}) IN Last(SelectSeq(all, LAMBDA s : s.y = top))
split_sticky(L, foc, placed, sticky) ==
    IF sticky = << >> THEN [L |-> L, placed |-> placed, sh |-> 0, foc |-> foc]
    ELSE SplitAt(L, foc, placed, Lowest(sticky))
populate_projection_collections(L) ==
    split_sticky(L, collect_focusables_from_scene(L), iter_placed(L),
                 SelectSeq(iter_sticky(L), LAMBDA s : s.at = "bottom"))
\* hydrate_scene_buffers: a buffer of its size for every placed region.
NeedsBuffer(L, p) ==
    \E id \in find_by_aml_id(L, p.id) : ensure_buffer(L, id, p.r.w, p.r.h) # L
Hydrate(L, p, refuse) ==
    LET ids == find_by_aml_id(L, p.id)
        id == CHOOSE x \in ids : TRUE
    IN IF ids = {} THEN L
       ELSE IF refuse THEN record_resource_error(stage_buffer_for_relayout(L, id))
       ELSE ensure_buffer(L, id, p.r.w, p.r.h)
hydrate_scene_buffers(L, placed, late) ==
    LET needy == {i \in DOMAIN placed : NeedsBuffer(L, placed[i])}
        hit == IF late = "hydrate" /\ needy # {} THEN Min(needy) ELSE 0
    IN FoldLeft(LAMBDA M, i : Hydrate(M, placed[i], i = hit), L, [i \in DOMAIN placed |-> i])

(***************************************************************************)
(* The steady-state layout pass: the marked nodes, the last first, and the *)
(* parent of each one whose size changed.                                  *)
(***************************************************************************)
SameSize(r, s) == r.w = s.w /\ r.h = s.h
Cascade(L, M, id, queue, done) ==
    IF SameSize(L.pl[id].r, M.pl[id].r) \/ L.n[id].par \in done \cup {NoNode} THEN queue
    ELSE Append(queue, L.n[id].par)
RECURSIVE DrainQueue(_, _, _, _)
Relaid(L, M, doc, id, rest, done) ==
    IF M.err THEN M ELSE DrainQueue(M, doc, Cascade(L, M, id, rest, done), done)
DrainQueue(L, doc, queue, done) ==
    IF queue = << >> THEN L
    ELSE IF Last(queue) \in done \/ is_empty(L.pl[Last(queue)].r)
    THEN DrainQueue(L, doc, Front(queue), done \cup {Last(queue)})
    ELSE Relaid(L, relayout_in_place(L, doc, Last(queue)), doc, Last(queue), Front(queue),
                done \cup {Last(queue)})
layout_pass_invalidated(L, doc, f) ==
    IF f.at = "queue" THEN L ELSE DrainQueue([Armed(L, f) EXCEPT !.lay = << >>], doc, L.lay, {})

(***************************************************************************)
(* Outcomes of a pass: [ok, L, foc, placed, sh]                            *)
(***************************************************************************)
Failed(L) == [ok |-> FALSE, L |-> L, foc |-> << >>, placed |-> << >>, sh |-> 0]
Hydrated(P, late) ==
    LET H == hydrate_scene_buffers(P.L, P.placed, late)
    IN [ok |-> ~H.err, L |-> H, foc |-> P.foc, placed |-> P.placed, sh |-> P.sh]
Projected(L, late) ==
    IF L.err \/ late = "lease" THEN Failed(L) ELSE Hydrated(populate_projection_collections(L), late)
relayout_panels_for(L, doc, f) ==
    IF f.at \in {"clone", "project", "queue"} THEN {Failed(L)}
    ELSE {Projected(M, late) : M \in {layout_pass_invalidated(L, doc, f)}, late \in Later(f)}
full_layout_pass(L, doc, w, h, f) ==
    {Projected(M, late) : M \in {layout_scene(Armed(L, f), doc, w, h)}, late \in Later(f)}

Page(doc, own, P) ==
    [doc |-> doc, own |-> own, L |-> Rested(P.L), foc |-> P.foc, placed |-> P.placed, sh |-> P.sh]
DocOf(p) == IF p.own THEN ErrDoc ELSE Docs[p.doc]
\* layout_page_with_admission.
layout_page(name, own, w, h) ==
    LET doc == IF own THEN ErrDoc ELSE Docs[name]
    IN Page(name, own, Projected(layout_scene(from_document(doc.els), doc, w, h), "none"))
\* The page with a committed pass, and with one rolled back.
Committed(p, P) == Page(p.doc, p.own, [P EXCEPT !.L = commit_relayout_transaction(@)])
RolledBack(p, L) == [p EXCEPT !.L = Rested(rollback_relayout_transaction(L))]

(***************************************************************************)
(* Panels and details (apply_presentation_action)                          *)
(***************************************************************************)
IsPanel(L, id) == kind(L, id) = "panel"
StateOf(L, panel, name) == SelectSeq(children(L, panel), LAMBDA s : L.n[s].aml = name)
\* apply_panel_patch: the scene, unchanged when there is nothing to do.
apply_panel_patch(L, panel, name) ==
    IF L.n[data(L, panel).active].aml = name \/ StateOf(L, panel, name) = << >> THEN L
    ELSE set_panel_active(L, panel, StateOf(L, panel, name)[1])
toggle_panel_state(L, panel, names) ==
    LET at == {i \in DOMAIN names : names[i] = L.n[data(L, panel).active].aml}
        cur == IF at = {} THEN 1 ELSE Min(at)
    IN IF Len(names) < 2 THEN L ELSE apply_panel_patch(L, panel, names[(cur % Len(names)) + 1])
\* The node an event is about: none, or one.
TargetOf(L, ev) ==
    IF ev.k = "details" THEN find_details_by_index(L, ev.index)
    ELSE {id \in find_by_aml_id(L, ev.panel) : IsPanel(L, id)}
Patched(L, ev, id) ==
    CASE ev.k = "details" -> toggle_details(L, id)
      [] ev.k = "set" -> apply_panel_patch(L, id, ev.state)
      [] ev.k = "toggle" -> toggle_panel_state(L, id, ev.states)
\* What takes the patch back, before the transaction is rolled back.
Unpatched(L, M, ev, id) ==
    IF ev.k = "details" THEN toggle_details(M, id) ELSE set_panel_active(M, id, data(L, id).active)

Refuse(ev) == pend' = ev /\ UNCHANGED <<page, view, regions, redraw>>
Nothing == pend' = NoEvent /\ UNCHANGED <<page, view, regions, redraw>>
\* After a relayout the viewport keeps its sticky height.
FinishRelayout(P) ==
    /\ page' = Committed(page, P)
    /\ view' = Clamped([view EXCEPT !.ch = P.L.bh], view.scroll)
    /\ redraw' = TRUE /\ pend' = NoEvent /\ UNCHANGED regions
UndoRelayout(ev, id, L) ==
    /\ page' = RolledBack(page, Unpatched(page.L, L, ev, id))
    /\ pend' = ev /\ UNCHANGED <<view, regions, redraw>>
Attempt(ev, id, P) == IF P.ok THEN FinishRelayout(P) ELSE UndoRelayout(ev, id, P.L)
Patch(ev, id, f, L) ==
    IF L = Opened(page.L) THEN Nothing
    ELSE \E P \in relayout_panels_for(L, DocOf(page), f) : Attempt(ev, id, P)
PanelEvent(ev, f) ==
    \/ TargetOf(page.L, ev) = {} /\ f = NoFault /\ Nothing
    \/ f.at = "begin" /\ TargetOf(page.L, ev) # {} /\ Refuse(ev)
    \/ f.at # "begin" /\ \E id \in TargetOf(page.L, ev) :
           Patch(ev, id, f, Patched(Opened(page.L), ev, id))

(***************************************************************************)
(* Resizing and draining                                                   *)
(***************************************************************************)
FinishResize(P, ev) ==
    /\ page' = Committed(page, P)
    /\ view' = Clamped(with_sticky(ev.w, ev.h, P.L.bh, P.sh), view.scroll)
    /\ redraw' = TRUE /\ pend' = NoEvent /\ UNCHANGED regions
\* prepare_resize_projection.
ResizeEvent(ev, f) ==
    /\ f.at \notin {"clone", "project", "queue"}
    /\ IF f.at = "begin" THEN Refuse(ev)
       ELSE \E P \in full_layout_pass(Opened(page.L), DocOf(page), ev.w, ev.h, f) :
               IF P.ok THEN FinishResize(P, ev)
               ELSE page' = RolledBack(page, P.L) /\ pend' = ev /\ UNCHANGED <<view, regions, redraw>>
\* drain_invalidated_layout_transactionally: only the scene and the height of
\* the page buffer change.
Drained(L) == commit_relayout_transaction(L)
DrainEvent(ev, f) ==
    IF page.L.lay = << >> THEN f = NoFault /\ Nothing
    ELSE IF f.at \in {"begin", "clone"} THEN Refuse(ev)
    ELSE \E L \in {layout_pass_invalidated(Opened(page.L), DocOf(page), f)} :
            /\ IF L.err \/ f.at = "queue" THEN page' = RolledBack(page, L) /\ pend' = ev
               ELSE page' = [page EXCEPT !.L = Rested(Drained(L))] /\ pend' = NoEvent
            /\ UNCHANGED <<view, regions, redraw>>

(***************************************************************************)
(* Live updates                                                            *)
(***************************************************************************)
live_regions(placed) == {<<i, placed[i].id>> : i \in {j \in DOMAIN placed : placed[j].k = "live"}}
\* inherited_background: an enclosing box with a background shows through.
RECURSIVE inherited_background(_, _, _)
inherited_background(L, id, at) ==
    LET up == L.n[id].par
    IN /\ up # NoNode
       /\ \/ kind(L, up) \in {"box", "abs"} /\ data(L, up).bg /\ L.bf[up] # NoBuf
             /\ contains_point(L.pl[up].r, at)
          \/ inherited_background(L, up, at)
Over(b, bg) == IF bg THEN [b EXCEPT !.ink = @ @@ [p \in Cells(Rect(0, 0, b.w, b.h)) |-> " "]] ELSE b
\* An update is laid out as a page of its own, of the size of the region.
MiniScene(u, r) == layout_scene(from_document(u.els), [cols |-> 0, rows |-> 0, bg |-> FALSE], r.w, r.h)
Mini(L, id, u, r) == Over(walk(MiniScene(u, r), r.w, r.h), inherited_background(L, id, <<L.pl[id].r.x, L.pl[id].r.y>>))
content_height(b) == IF b.ink = NoInk THEN 0 ELSE Max({p[2] : p \in DOMAIN b.ink}) + 1
RowOf(b, y) == [x \in {p[1] : p \in {q \in DOMAIN b.ink : q[2] = y}} |-> b.ink[<<x, y>>]]
RowsOf(b) == [i \in 1..content_height(b) |-> RowOf(b, i - 1)]
\* RegionBuffer::rebuild.
rebuild(old, rows, limit, how) ==
    CASE how = "replace" -> SubSeq(rows, 1, Least(Len(rows), limit))
      [] how = "append" -> SubSeq(old \o rows, Monus(Len(old \o rows), limit) + 1, Len(old \o rows))
      [] how = "prepend" -> SubSeq(rows \o old, 1, Least(Len(rows \o old), limit))
HowOf(scroll, delta) ==
    IF ~delta THEN "replace" ELSE IF scroll = "prepend" THEN "prepend" ELSE "append"
RegionOf(i, w, h, limit) ==
    IF i \in DOMAIN regions /\ regions[i].w = w /\ regions[i].vis = h /\ regions[i].limit = limit
    THEN regions[i] ELSE [w |-> w, vis |-> h, limit |-> limit, rows |-> << >>]
UpdateRegion(R, b, how) == [R EXCEPT !.rows = rebuild(R.rows, RowsOf(b), R.limit, how)]
\* copy_visible_to: the last rows of a tail, the first ones otherwise.
Visible(R, scroll) ==
    IF scroll = "prepend" THEN SubSeq(R.rows, 1, Least(R.vis, Len(R.rows)))
    ELSE SubSeq(R.rows, Monus(Len(R.rows), R.vis) + 1, Len(R.rows))
InkOf(rows, w) ==
    [p \in UNION {{<<x, i - 1>> : x \in DOMAIN rows[i] \cap 0..(w - 1)} : i \in DOMAIN rows} |->
        rows[p[2] + 1][p[1]]]
copy_visible_to(b, R, scroll) ==
    [b EXCEPT !.ink = InkOf(Visible(R, scroll), R.w)
                      @@ Restrict(@, {p \in DOMAIN @ : p[1] >= R.w \/ p[2] >= R.vis})]
Paint(id, ink) ==
    page' = [page EXCEPT !.L = mark_composite([@ EXCEPT !.bf[id].ink = ink], @.pl[id].r)]
Install(id, i, R, scroll) ==
    /\ Paint(id, copy_visible_to(page.L.bf[id], R, scroll).ink)
    /\ regions' = [j \in DOMAIN regions \cup {i} |-> IF j = i THEN R ELSE regions[j]]
\* apply_live_update.
ApplyUpdate(u, i, id, b) ==
    LET d == page.placed[i].d
        r == page.placed[i].r
    IN IF page.L.bf[id] = NoBuf THEN UNCHANGED <<page, regions>>
       ELSE IF d.scroll = "none"
       THEN Paint(id, Restrict(b.ink, {p \in DOMAIN b.ink : p[1] < page.L.bf[id].w /\ p[2] < page.L.bf[id].h}))
            /\ UNCHANGED regions
       ELSE \E R \in {UpdateRegion(RegionOf(i, r.w, r.h, Most(d.buffer, r.h)), b, HowOf(d.scroll, u.delta))} :
                Install(id, i, R, d.scroll)
UpdateEvent(ev, f) ==
    /\ UNCHANGED view
    /\ \/ f.at = "project" /\ pend' = ev /\ UNCHANGED <<page, regions, redraw>>
       \/ /\ f = NoFault /\ pend' = NoEvent /\ redraw' = TRUE
          /\ \E id \in find_by_aml_id(page.L, ev.u.id) :
                \E b \in {Mini(page.L, id, ev.u, page.placed[ev.i].r)} : ApplyUpdate(ev.u, ev.i, id, b)

(***************************************************************************)
(* Presenting                                                              *)
(***************************************************************************)
BlankScreen == [ink |-> NoInk, hl |-> {}]
\* The help modal is painted over the frame, outside of it.
ModalCells(v) == Cells(Rect(0, 0, v.tw, Least(2, viewport_height(v))))
WithHelp(S, v, shown) ==
    IF ~shown THEN S
    ELSE [ink |-> [p \in DOMAIN S.ink \cup ModalCells(v) |->
                      IF p \in ModalCells(v) THEN "modal" ELSE S.ink[p]],
          hl |-> S.hl \ ModalCells(v)]
Port(v) == [off |-> v.scroll, sh |-> scroll_height(v), vh |-> viewport_height(v)]
Frame(C, S, p, v) == present_pass(C, S, p.L, p.foc, Port(v), v.tw, p.sh)
Resized(C, p, v) == resize(C, v.tw, p.L.bh + p.sh)
\* The walk of a frame that is not cached may be refused.
Walks(C, p) == C.out = NoBuf \/ ~is_empty(p.L.dirty)
Shown == [page EXCEPT !.L.dirty = NoneRect]
PresentEvent(ev, f) ==
    \/ /\ f = NoFault /\ pend' = NoEvent /\ redraw' = FALSE
       /\ \E F \in {Frame(comp, screen, page, view)} :
             comp' = F.C /\ screen' = WithHelp(F.S, view, help)
       /\ page' = Shown /\ UNCHANGED <<view, regions, subs>>
    \* A refused frame retires the subscriptions and is drawn anew.  (Frames of
    \* the error page are taken to be admitted: README, known divergences.)
    \/ /\ f.at = "project" /\ ~page.own /\ Walks(Resized(comp, page, view), page) /\ pend' = ev
       /\ regions' = << >> /\ subs' = {}
       /\ comp' = invalidate_presented(invalidate_cache(Resized(comp, page, view)))
       /\ UNCHANGED <<page, view, redraw, screen>>

(***************************************************************************)
(* Pages                                                                   *)
(***************************************************************************)
NoInput == [active |-> FALSE, node |-> NoNode, value |-> << >>, cursor |-> 0, max |-> 0]
invalidate_compositor_for_new_scene == comp' = invalidate_presented(invalidate_cache(comp))
ShowPage(p) ==
    /\ page' = p
    /\ view' = with_sticky(view.tw, view.th, p.L.bh, p.sh)
    /\ regions' = << >> /\ redraw' = TRUE /\ pend' = NoEvent
    /\ invalidate_compositor_for_new_scene
Resubscribed(p) == subs' = live_regions(p.placed)
\* A page that is admitted replaces the one shown; one that is not, or one
\* whose refused event was given up, gives way to the error page.
Open(name) == \E p \in {layout_page(name, FALSE, view.tw, view.th)} :
                 ShowPage(p) /\ mode' = NoInput /\ Resubscribed(p)
ActivateErrorPage == \E p \in {layout_page(page.doc, TRUE, view.tw, view.th)} :
                        ShowPage(p) /\ UNCHANGED <<mode, subs>>

(***************************************************************************)
(* Keys                                                                    *)
(***************************************************************************)
Chosen == current_focus_index(page.L, page.foc)
NextFocus(n, cur, forward) ==
    IF forward THEN (cur % n) + 1 ELSE IF cur \in {0, 1} THEN n ELSE cur - 1
advance_focus(forward) ==
    /\ redraw' = TRUE /\ pend' = NoEvent /\ UNCHANGED <<regions, mode>>
    /\ IF page.foc = << >> THEN UNCHANGED <<page, view>>
       ELSE \E f \in {page.foc[NextFocus(Len(page.foc), Chosen, forward)]} :
               /\ page' = [page EXCEPT !.L = set_focus(@, f.node)]
               /\ view' = IF f.sticky THEN view ELSE scroll_to_row(view, f.row)
ClearFocus == /\ page' = [page EXCEPT !.L = set_focus(@, NoNode)]
              /\ redraw' = TRUE /\ pend' = NoEvent /\ UNCHANGED <<view, regions, mode>>
\* advance_select.
advance_select(L, id) ==
    LET n == Len(children(L, id))
    IN IF n = 0 THEN L ELSE set_select_index(L, id, (data(L, id).sel + 1) % n)
AdvanceSelect(id) == /\ page' = [page EXCEPT !.L = advance_select(@, id)]
                     /\ redraw' = TRUE /\ pend' = NoEvent /\ UNCHANGED <<view, regions, mode>>
Cut(value, max) == IF max = 0 THEN value ELSE SubSeq(value, 1, Least(max, Len(value)))
\* InputMode::try_activate.
try_activate(id, max) ==
    LET value == Cut(data(page.L, id).value, max)
    IN /\ mode' = [active |-> TRUE, node |-> id, value |-> value, cursor |-> Len(value), max |-> max]
       /\ redraw' = TRUE /\ pend' = NoEvent /\ UNCHANGED <<page, view, regions>>
\* Enter on the focused element.  Submitting a form opens its target.
Activate(f) ==
    LET el == page.foc[Chosen]
        a == el.action
    IN \/ /\ Chosen = 0 /\ f = NoFault /\ Nothing /\ UNCHANGED <<mode, comp, subs>>
       \/ /\ Chosen # 0 /\ a.k \in {"set", "toggle", "details"} /\ PanelEvent(a, f)
          /\ UNCHANGED <<mode, comp, subs>>
       \/ /\ Chosen # 0 /\ f = NoFault
          /\ \/ a.k = "input" /\ try_activate(el.node, a.max) /\ UNCHANGED <<comp, subs>>
             \/ a.k = "select" /\ AdvanceSelect(el.node) /\ UNCHANGED <<comp, subs>>
             \/ a.k \in {"navigate", "submit"} /\ Open(a.href)

\* handle_input_key: the mode after the key, and the action it stands for.
Typing(key) ==
    CASE key = "left" -> [mode EXCEPT !.cursor = Monus(@, 1)]
      [] key = "right" -> [mode EXCEPT !.cursor = Least(@ + 1, Len(mode.value))]
      [] key = "backspace" ->
           IF mode.cursor = 0 THEN mode
           ELSE [mode EXCEPT !.value = RemoveAt(@, mode.cursor), !.cursor = @ - 1]
      [] key \in Typed ->
           IF mode.max # 0 /\ Len(mode.value) >= mode.max THEN mode
           ELSE [mode EXCEPT !.value = InsertAt(@, mode.cursor + 1, key), !.cursor = @ + 1]
      [] OTHER -> [mode EXCEPT !.active = FALSE]
InputKeys == {"left", "right", "backspace", "esc", "enter", "tab", "backtab"} \cup Typed
InputAction(key) ==
    CASE key = "esc" -> "clear" [] key = "enter" -> "redraw" [] key = "tab" -> "next"
      [] key = "backtab" -> "prev" [] OTHER -> "none"
\* A character beyond the field's length is dropped, value and all.
Dropped(key) == key \in Typed /\ mode.max # 0 /\ Len(mode.value) >= mode.max
handle_input_key(key) ==
    /\ mode.active
    /\ mode' = Typing(key) /\ act' = InputAction(key)
    /\ \/ /\ mode'.active /\ ~Dropped(key) /\ redraw' = TRUE
          /\ page' = [page EXCEPT !.L = set_input_value(@, mode.node, Cut(mode'.value, mode.max))]
       \/ ~mode'.active /\ UNCHANGED <<page, redraw>>
       \/ mode'.active /\ Dropped(key) /\ UNCHANGED <<page, redraw>>
    /\ UNCHANGED <<view, regions, comp, pend, help>>

(***************************************************************************)
(* The loop                                                                *)
(***************************************************************************)
Redo(ev, f) ==
    \/ ev.k = "present" /\ PresentEvent(ev, f)
    \/ /\ ev.k # "present" /\ UNCHANGED <<comp, screen, subs>>
       /\ \/ ev.k \in {"set", "toggle", "details"} /\ PanelEvent(ev, f)
          \/ ev.k = "resize" /\ ResizeEvent(ev, f)
          \/ ev.k = "drain" /\ DrainEvent(ev, f)
          \/ ev.k = "update" /\ UpdateEvent(ev, f)

Present(f) ==
    /\ ph = "event" /\ pend = NoEvent /\ redraw
    /\ PresentEvent([k |-> "present"], f) /\ UNCHANGED <<mode, help, ph, act>>
Reading == ph = "event" /\ pend = NoEvent /\ ~redraw /\ ph' = "tick" /\ UNCHANGED <<screen, subs>>
NoKey ==
    /\ Reading /\ act' = IF mode.active \/ help THEN "none" ELSE "any"
    /\ UNCHANGED <<page, view, mode, regions, comp, redraw, help, pend>>
InputKey(key) == Reading /\ ~help /\ handle_input_key(key)
ScrollKey(key) ==
    /\ Reading /\ ~help /\ ~mode.active /\ handle_key(view, key) # view.scroll
    /\ view' = Clamped(view, handle_key(view, key)) /\ redraw' = TRUE /\ act' = "none"
    /\ UNCHANGED <<page, mode, regions, comp, help, pend>>
\* Closing the help makes the page repaint what it covered.
CloseHelp ==
    /\ Reading /\ help /\ help' = FALSE /\ comp' = invalidate_presented(comp)
    /\ redraw' = TRUE /\ act' = "none" /\ UNCHANGED <<page, view, mode, regions, pend>>
ResizeTo(size, f) ==
    /\ Reading /\ size # <<view.tw, view.th>> /\ act' = "redraw"
    /\ ResizeEvent([k |-> "resize", w |-> size[1], h |-> size[2]], f) /\ UNCHANGED <<mode, help, comp>>

Ticking == ph = "tick" /\ pend = NoEvent /\ UNCHANGED <<mode, help, act, view, screen, comp>>
NoTick == Ticking /\ ph' = "act" /\ Nothing /\ subs = live_regions(page.placed) /\ UNCHANGED subs
\* A tween moves its box to the places its author named.
Moves(L, id) == IF kind(L, id) = "abs" THEN data(L, id).moves ELSE {}
Tween(id, tr) ==
    /\ Ticking /\ ph' = "act" /\ tr # page.L.n[id].tr
    /\ page' = [page EXCEPT !.L = set_transform(@, id, tr)]
    /\ redraw' = TRUE /\ UNCHANGED <<regions, subs, pend>>
\* A page whose live regions changed subscribes anew, forgetting their rows.
Resubscribe ==
    /\ Ticking /\ UNCHANGED ph /\ subs # live_regions(page.placed)
    /\ Resubscribed(page) /\ regions' = << >> /\ UNCHANGED <<page, redraw, pend>>
Live(u, f) ==
    /\ ph = "tick" /\ pend = NoEvent /\ subs = live_regions(page.placed) /\ ph' = "act"
    /\ \E s \in subs : s[2] = u.id /\ UpdateEvent([k |-> "update", u |-> u, i |-> s[1]], f)
    /\ UNCHANGED <<mode, help, act, comp, screen, subs>>

Acting == ph = "act" /\ pend = NoEvent /\ ph' = "drain" /\ act' = "none" /\ UNCHANGED screen
Focus(forward) ==
    /\ Acting /\ act \in {"any", IF forward THEN "next" ELSE "prev"}
    /\ advance_focus(forward) /\ UNCHANGED <<comp, subs, help>>
Escape == Acting /\ act \in {"any", "clear"} /\ ClearFocus /\ UNCHANGED <<comp, subs, help>>
Enter(f) == Acting /\ act = "any" /\ Activate(f) /\ UNCHANGED help
Reload == Acting /\ act = "any" /\ Open(page.doc) /\ UNCHANGED help
ShowHelp ==
    /\ Acting /\ act = "any" /\ help' = TRUE /\ redraw' = TRUE
    /\ UNCHANGED <<page, view, mode, regions, subs, comp, pend>>
NoAct ==
    /\ Acting /\ act \in {"none", "any", "redraw"} /\ redraw' = (redraw \/ act = "redraw")
    /\ UNCHANGED <<page, view, mode, regions, subs, comp, pend, help>>
\* A page the client cannot admit.
RefusedPage == Acting /\ act = "any" /\ ActivateErrorPage /\ UNCHANGED help

Drain(f) ==
    /\ ph = "drain" /\ pend = NoEvent /\ ph' = "event"
    /\ DrainEvent([k |-> "drain"], f) /\ UNCHANGED <<mode, help, act, comp, screen, subs>>

\* The pressure was relieved, or it could not be.
Retry(f) == pend # NoEvent /\ Redo(pend, f) /\ UNCHANGED <<mode, help, ph, act>>
Abandon == pend # NoEvent /\ ActivateErrorPage /\ UNCHANGED <<screen, help, ph, act>>

Init ==
    \E size \in Sizes : \E p \in {layout_page(First, FALSE, size[1], size[2])} :
        /\ page = p /\ view = with_sticky(size[1], size[2], p.L.bh, p.sh)
        /\ mode = NoInput /\ regions = << >> /\ subs = live_regions(p.placed)
        /\ comp = NewCompositor /\ screen = BlankScreen /\ redraw = TRUE /\ help = FALSE
        /\ ph = "event" /\ act = "none" /\ pend = NoEvent
Next ==
    \/ \E f \in Faults : Present(f) \/ Enter(f) \/ Drain(f) \/ Retry(f)
    \/ \E f \in Faults, size \in Sizes : ResizeTo(size, f)
    \/ \E f \in Faults, u \in Updates : Live(u, f)
    \/ NoKey \/ CloseHelp \/ NoTick \/ Resubscribe \/ Escape \/ Reload \/ ShowHelp \/ NoAct
    \/ RefusedPage \/ Abandon
    \/ \E key \in InputKeys : InputKey(key)
    \/ \E key \in ScrollKeys : ScrollKey(key)
    \/ \E id \in DOMAIN page.L.n : \E tr \in Moves(page.L, id) : Tween(id, tr)
    \/ \E forward \in BOOLEAN : Focus(forward)
Spec == Init /\ [][Next]_vars

(***************************************************************************)
(* What must hold                                                          *)
(***************************************************************************)
\* Whatever admission is refused, and at whatever point of the pass, the
\* refused event leaves no trace on the page, the viewport, the field being
\* edited or the live regions (a frame that is refused retires those).
EventAtomic ==
    [][pend' # NoEvent => /\ UNCHANGED <<page, view, mode>>
                          /\ pend'.k = "present" \/ UNCHANGED regions]_vars
\* The lists keys and updates go by are those of the scene as it is laid out.
ProjectionsFresh ==
    page.L.lay = << >> => \E P \in {populate_projection_collections(page.L)} :
                              page.foc = P.foc /\ page.placed = P.placed /\ page.sh = P.sh
\* The uppermost rows of a screen.
UpperRows(S, n) ==
    LET seen == {p \in DOMAIN S.ink \cup S.hl : p[2] < n}
    IN [ink |-> Restrict(S.ink, DOMAIN S.ink \cap seen), hl |-> S.hl \cap seen]
DrawnAnew == WithHelp(Frame(NewCompositor, BlankScreen, page, view).S, view, help)
ShowsRows(n) == ~redraw /\ pend = NoEvent => UpperRows(screen, n) = UpperRows(DrawnAnew, n)
\* Incremental drawing (the cached frame, the diff inside the marked rectangle,
\* the highlight that moves) leaves what one full drawing of the scene leaves,
\* on every scrolling row that has been on the screen since the last full frame.
ScreenFresh == ShowsRows(comp.rows)
\* Does not hold (README, known divergences): on every scrolling row.  Rows a
\* resize of the height alone brings into view stay as the terminal has them.
EveryRowShown == ShowsRows(scroll_height(view))
\* In whatever order events, ticks, updates and refusals arrive, what the
\* runner derived from the scene is the scene's, and the rows kept on the screen
\* are those of the scene as the compositor walks it.  (What that walk leaves in
\* or out, and the sticky rows: README, known divergences.)
SceneShown == ProjectionsFresh /\ ScreenFresh
=============================================================================
