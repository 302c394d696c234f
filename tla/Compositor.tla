----------------------------- MODULE Compositor -----------------------------
(***************************************************************************)
(* Composition and presentation (src/crates/dustnet-client/src/compositor/ *)
(* composite.rs, present/mod.rs, terminal/runner.rs): the scene's buffers  *)
(* are walked into one frame, the frame is diffed against the one last     *)
(* presented, and the changed cells are written to the terminal.  Sticky   *)
(* rows and the focus highlight are drawn over the viewport.               *)
(*                                                                         *)
(* A compositor C is [w, h, out, pres, off, pend, span]: the cached and    *)
(* the presented frame, the scroll offset presented, the rectangle to      *)
(* diff, the highlighted span.  `rows` is an auxiliary count, which no     *)
(* step reads: the scrolling rows on the screen ever since the last full   *)
(* frame.  A screen S is [ink, hl]: the cells of the viewport and those in *)
(* reverse video.  The animations of a page have not started (Choreography *)
(* has their runtime) and no overlay is shown.                             *)
(***************************************************************************)
EXTENDS SceneGraph

CONSTANT NoSpan

RECURSIVE is_under_animation(_, _)
is_under_animation(L, id) ==
    LET up == L.n[id].par
    IN up # NoNode /\ (kind(L, up) = "anim" \/ is_under_animation(L, up))

\* A buffer's covering cells at the node's rectangle, shifted by its
\* transform and clipped by the frame.
blit_placed(L, id, out) ==
    LET r == L.pl[id].r
        dx == Most(0, Least(r.x + L.n[id].tr[1], out.w))
        dy == Most(0, Least(r.y + L.n[id].tr[2], out.h))
        src == L.bf[id].ink
        seen == {p \in DOMAIN src : p[1] + dx < out.w /\ p[2] + dy < out.h}
    IN IF is_empty(r) THEN out
       ELSE [out EXCEPT !.ink = [q \in {<<p[1] + dx, p[2] + dy>> : p \in seen} |->
                                    src[<<q[1] - dx, q[2] - dy>>]] @@ @]
\* Containers and content in tree order, then live regions and panels over
\* their children.  Inactive states keep their buffers and are walked too.
Layers(L) ==
    LET buffered == SelectSeq(iter_tree_order(L), LAMBDA id : L.bf[id] # NoBuf)
    IN SelectSeq(buffered, LAMBDA id : /\ kind(L, id) \notin {"anim", "live", "panel"}
                                       /\ ~is_under_animation(L, id))
       \o SelectSeq(buffered, LAMBDA id : kind(L, id) \in {"live", "panel"})
walk(L, w, h) == FoldLeft(LAMBDA out, id : blit_placed(L, id, out), Buffer(w, h), Layers(L))

NewCompositor == [w |-> 0, h |-> 0, out |-> NoBuf, pres |-> NoBuf, off |-> 0,
                  pend |-> NoneRect, span |-> NoSpan, rows |-> 0]
resize(C, w, h) ==
    IF C.w = w /\ C.h = h THEN C
    ELSE [C EXCEPT !.w = w, !.h = h, !.out = NoBuf, !.pres = NoBuf, !.pend = NoneRect, !.span = NoSpan]
invalidate_cache(C) == [C EXCEPT !.out = NoBuf]
invalidate_presented(C) == [C EXCEPT !.pres = NoBuf, !.span = NoSpan]
\* The cached frame serves again while nothing is marked.
composite_at(C, L) ==
    IF C.out # NoBuf /\ is_empty(L.dirty) THEN [C EXCEPT !.pend = NoneRect]
    ELSE [C EXCEPT !.pend = L.dirty, !.out = walk(L, C.w, C.h)]

(***************************************************************************)
(* Writing cells to the terminal                                           *)
(***************************************************************************)
Glyph(b, p) == IF p \in DOMAIN b.ink THEN b.ink[p] ELSE "clear"
\* Writes the cells of `at` (frame coordinates), `up` rows higher.  The second
\* half of a wide glyph is written with its first.
Write(S, frame, at, up) ==
    LET first == {p \in at : Glyph(frame, p) # "cont"}
        both == first \cup {<<p[1] + 1, p[2]>> : p \in {q \in first : Glyph(frame, q) = "W"}}
        inked == both \cap DOMAIN frame.ink
        cells == {<<p[1], p[2] - up>> : p \in both}
    IN [ink |-> [q \in {<<p[1], p[2] - up>> : p \in inked} |-> frame.ink[<<q[1], q[2] + up>>]]
                @@ Restrict(S.ink, DOMAIN S.ink \ cells),
        hl |-> S.hl \ cells]
render_full(frame, off, vh) ==
    LET S == [ink |-> NoInk, hl |-> {}]
    IN Write(S, frame, {p \in DOMAIN frame.ink : p[2] \in off..(off + vh - 1)}, off)
render_diff(S, prev, frame, off, vh, scope) ==
    Write(S, frame, {p \in DOMAIN frame.ink \cup DOMAIN prev.ink :
                        /\ p[2] \in off..(off + vh - 1) /\ Glyph(frame, p) # Glyph(prev, p)
                        /\ is_empty(scope) \/ contains_point(scope, p)}, off)
\* present_main: the new compositor and screen.
present_main(C, S, off, vh) ==
    LET diff == C.pres # NoBuf /\ C.off = off
    IN [C |-> [C EXCEPT !.pres = C.out, !.off = off, !.pend = NoneRect,
                        !.span = IF diff THEN @ ELSE NoSpan,
                        !.rows = IF diff THEN Least(@, vh) ELSE vh],
        S |-> IF diff THEN render_diff(S, C.pres, C.out, off, vh, C.pend)
              ELSE render_full(C.out, off, vh)]

\* refresh_sticky_buffer and render_at_offset: the rows below the page buffer.
refresh_sticky_buffer(frame, bh, sh) ==
    LET rows == {p \in DOMAIN frame.ink : p[2] \in bh..(bh + sh - 1)}
    IN [w |-> frame.w, h |-> sh,
        ink |-> [q \in {<<p[1], p[2] - bh>> : p \in rows} |-> frame.ink[<<q[1], q[2] + bh>>]]]
render_at_offset(S, sticky, at) == Write(S, sticky, Cells(Rect(0, 0, sticky.w, sticky.h)), 0 - at)

(***************************************************************************)
(* The focus highlight (draw_viewer_frame_inner): the focused element's    *)
(* cells without trailing blanks, written over the frame.                  *)
(***************************************************************************)
FocusSpan(f, buf, row, vh) ==
    LET solid == {x \in f.col..(f.col + f.width - 1) :
                     Glyph(buf, <<x, f.row>>) \notin {"clear", " ", "cont"}}
    IN IF row \notin 0..(vh - 1) \/ solid = {} THEN NoSpan
       ELSE [row |-> row, brow |-> f.row, from |-> f.col, to |-> Max(solid), sticky |-> f.sticky]
SpanCells(s) == {<<x, s.brow>> : x \in s.from..s.to}
Wipe(S, s, buf) == Write(S, buf, SpanCells(s), s.brow - s.row)
Highlight(S, s, buf) ==
    [Write(S, buf, SpanCells(s), s.brow - s.row) EXCEPT !.hl = @ \cup {<<x, s.row>> : x \in s.from..s.to}]
\* MUTANT: a highlight that leaves the viewport is not wiped.
MoveSpan_keeps_last(S, prev, new, bufs) ==
    LET wiped == IF prev # NoSpan /\ prev # new /\ new # NoSpan THEN Wipe(S, prev, bufs[prev.sticky]) ELSE S
    IN IF new = NoSpan THEN wiped ELSE Highlight(wiped, new, bufs[new.sticky])
MoveSpan(S, prev, new, bufs) ==
    LET wiped == IF prev # NoSpan /\ prev # new THEN Wipe(S, prev, bufs[prev.sticky]) ELSE S
    IN IF new = NoSpan THEN wiped ELSE Highlight(wiped, new, bufs[new.sticky])

\* The focused element: the first one of the scene's focused node.
current_focus_index(L, foc) ==
    LET at == {i \in DOMAIN foc : foc[i].node = L.focus} IN IF at = {} THEN 0 ELSE Min(at)
\* draw_viewer_frame: V is [off, sh, vh]: scroll offset, scroll height and
\* viewport height; sticky the height of the sticky rows.
DrawFocus(M, L, foc, V, bufs) ==
    LET i == current_focus_index(L, foc)
        row == IF foc[i].sticky THEN V.sh + foc[i].row ELSE foc[i].row - V.off
        new == IF i = 0 THEN NoSpan ELSE FocusSpan(foc[i], bufs[foc[i].sticky], row, V.vh)
    IN [C |-> [M.C EXCEPT !.span = new], S |-> MoveSpan(M.S, M.C.span, new, bufs)]
StickyDrawn(M, sticky, V) ==
    IF sticky.h = 0 THEN M ELSE [M EXCEPT !.S = render_at_offset(@, sticky, V.sh)]
DrawWith(M, L, foc, V, sticky) ==
    DrawFocus(StickyDrawn(M, sticky, V), L, foc, V,
              [k \in BOOLEAN |-> IF k /\ sticky.h > 0 THEN sticky ELSE M.C.out])
draw_viewer_frame(C, S, L, foc, V, sticky) ==
    DrawWith(present_main(C, S, V.off, V.sh), L, foc, V, sticky)
\* composite_pass and present_pass.
present_pass(C, S, L, foc, V, tw, sh) ==
    LET D == composite_at(resize(C, tw, L.bh + sh), L)
    IN draw_viewer_frame(D, S, L, foc, V, refresh_sticky_buffer(D.out, L.bh, sh))
=============================================================================
