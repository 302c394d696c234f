------------------------------- MODULE Layout -------------------------------
(***************************************************************************)
(* The layout pass over the scene tree                                     *)
(* (src/crates/dustnet-client/src/compositor/layout): text measuring and   *)
(* wrapping, borders, and one rule per kind of node.  A pass is a function *)
(* of a layout state L, which holds the nodes and everything a pass writes:*)
(*   n     node id -> [k, ch, d, ...]: kind, children, data (SceneGraph)   *)
(*   pl    node id -> placement [r, adv, bb]                               *)
(*   fr    node id -> focusable_screen_rect, or NoRect                     *)
(*   bf    node id -> cell buffer, or NoBuf                                *)
(*   memo  node id -> height [w, h] measured in this pass, or NoMemo       *)
(*   bh    the height of the page buffer                                   *)
(*   dirty the rectangle to composite and present; lay  the nodes to lay   *)
(*         out again; txn, jl, jb  the transaction and its snapshots       *)
(*   left, how, hit, err  the refused admission, the node it hit, the flag *)
(* A text is a sequence of graphemes, a cell a glyph; of a style only what *)
(* makes a blank cover the cells below it is kept: underline and           *)
(* background.                                                             *)
(***************************************************************************)
EXTENDS Integers, Sequences, FiniteSets, FiniteSetsExt, SequencesExt, Functions, TLC

CONSTANTS NoRect, NoBuf, NoMemo, NoNode, MAX_LAYOUT_ROWS

(***************************************************************************)
(* Rectangles (layout/rect.rs)                                             *)
(***************************************************************************)
Rect(x, y, w, h) == [x |-> x, y |-> y, w |-> w, h |-> h]
NoneRect == Rect(0, 0, 0, 0)
is_empty(r) == r.w = 0 \/ r.h = 0
Monus(a, b) == IF a > b THEN a - b ELSE 0
Least(a, b) == IF a < b THEN a ELSE b
Most(a, b) == IF a > b THEN a ELSE b
Span(x, y, right, bottom) == Rect(x, y, right - x, bottom - y)
union(a, b) ==
    IF is_empty(a) THEN b ELSE IF is_empty(b) THEN a
    ELSE Span(Least(a.x, b.x), Least(a.y, b.y),
              Most(a.x + a.w, b.x + b.w), Most(a.y + a.h, b.y + b.h))
\* intersect, with an empty rectangle for None.
intersect(a, b) ==
    LET s == Span(Most(a.x, b.x), Most(a.y, b.y),
                  Least(a.x + a.w, b.x + b.w), Least(a.y + a.h, b.y + b.h))
    IN IF is_empty(a) \/ is_empty(b) \/ s.w <= 0 \/ s.h <= 0 THEN NoneRect ELSE s
contains_point(r, p) == /\ ~is_empty(r) /\ p[1] \in r.x..(r.x + r.w - 1)
                        /\ p[2] \in r.y..(r.y + r.h - 1)
Cells(r) == {<<x, y>> : x \in r.x..(r.x + r.w - 1), y \in r.y..(r.y + r.h - 1)}

Placed(r, adv, bb) == [r |-> r, adv |-> adv, bb |-> bb]
empty_at(c) == Placed(Rect(c.x, c.y, 0, 0), 0, Rect(c.x, c.y, 0, 0))

(***************************************************************************)
(* Text (layout/text.rs).  "z" stands for any grapheme of no width, "W"    *)
(* for a wide one.                                                         *)
(***************************************************************************)
char_width(g) == CASE g = "z" -> 0 [] g = "W" -> 2 [] OTHER -> 1
display_width(s) == FoldLeft(LAMBDA n, g : n + char_width(g), 0, s)

\* str::split and split_whitespace: the parts between separators, and the
\* non-empty ones.
Split(s, seps) ==
    FoldLeft(LAMBDA parts, g : IF g \in seps THEN Append(parts, << >>)
                               ELSE [parts EXCEPT ![Len(parts)] = Append(@, g)],
             << << >> >>, s)
split_whitespace(s) == SelectSeq(Split(s, {" ", "nl"}), LAMBDA part : part # << >>)
words_of(s) == SelectSeq(split_whitespace(s), LAMBDA word : display_width(word) > 0)
TrimOf(s, blanks) ==
    LET at == {i \in DOMAIN s : s[i] \notin blanks}
    IN IF at = {} THEN << >> ELSE SubSeq(s, Min(at), Max(at))
trim(s) == TrimOf(s, {" ", "nl"})

\* A word too wide for a line, cut into chunks.
try_force_break_word(word, max) ==
    FoldLeft(LAMBDA chunks, g :
                IF /\ char_width(g) > 0 /\ Last(chunks) # << >>
                   /\ display_width(Last(chunks)) + char_width(g) > max
                THEN Append(chunks, <<g>>)
                ELSE [chunks EXCEPT ![Len(chunks)] = Append(@, g)],
             << << >> >>, word)

PushLine(lines, line) == IF line = << >> THEN lines ELSE Append(lines, line)
WrapWord(acc, word, max) ==
    IF display_width(word) > max
    THEN [lines |-> PushLine(acc.lines, acc.cur) \o try_force_break_word(word, max), cur |-> << >>]
    ELSE IF acc.cur = << >> THEN [acc EXCEPT !.cur = word]
    ELSE IF display_width(acc.cur) + 1 + display_width(word) <= max
    THEN [acc EXCEPT !.cur = @ \o <<" ">> \o word]
    ELSE [lines |-> Append(acc.lines, acc.cur), cur |-> word]
Finished(acc) == PushLine(acc.lines, acc.cur)
try_wrap_paragraph(par, max) ==
    IF par = << >> THEN << << >> >>
    ELSE Finished(FoldLeft(LAMBDA a, word : WrapWord(a, word, max),
                           [lines |-> << >>, cur |-> << >>], words_of(par)))
OrOneLine(lines, max) == IF max = 0 \/ lines = << >> THEN << << >> >> ELSE lines
WrapAll(pars, max) == FlattenSeq([i \in DOMAIN pars |-> try_wrap_paragraph(pars[i], max)])
try_wrap_text(text, max) == OrOneLine(WrapAll(Split(text, {"nl"}), max), max)

(***************************************************************************)
(* Cell buffers (layout/cell.rs): the cells that are not transparent.      *)
(***************************************************************************)
Plain == [u |-> FALSE, bg |-> FALSE]
\* is_transparent: a blank without background or decoration.
Covers(glyph, st) == glyph # " " \/ st.u \/ st.bg
NoInk == [p \in {} |-> " "]
Buffer(w, h) == [w |-> w, h |-> h, ink |-> NoInk]
put_char(b, x, y, glyph, st) ==
    IF x >= b.w \/ y >= b.h THEN b
    ELSE [b EXCEPT !.ink = IF Covers(glyph, st) THEN [p \in DOMAIN @ \cup {<<x, y>>} |->
                                  IF p = <<x, y>> THEN glyph ELSE @[p]]
                           ELSE Restrict(@, DOMAIN @ \ {<<x, y>>})]
ensure_rows(b, h) == [b EXCEPT !.h = Most(@, Least(h, MAX_LAYOUT_ROWS))]

\* put_str_clipped: whole graphemes up to the clip column.
PutGrapheme(acc, y, g, st, clip) ==
    IF acc.stop \/ acc.col >= clip THEN [acc EXCEPT !.stop = TRUE]
    ELSE IF char_width(g) = 0 THEN acc
    ELSE IF acc.col + char_width(g) > clip THEN [acc EXCEPT !.stop = TRUE]
    ELSE [acc EXCEPT !.col = @ + char_width(g),
                     !.b = IF g = "W" THEN put_char(put_char(@, acc.col, y, g, st),
                                                    acc.col + 1, y, "cont", st)
                           ELSE put_char(@, acc.col, y, g, st)]
put_str_clipped(b, x, y, s, st, max_col) ==
    IF x >= b.w THEN b
    ELSE FoldLeft(LAMBDA acc, g : PutGrapheme(acc, y, g, st, Least(max_col, b.w)),
                  [b |-> b, col |-> x, stop |-> FALSE], s).b

Aligned(align, width, used) ==
    CASE align = "left" -> 0
      [] align = "center" -> Monus(width, used) \div 2
      [] align = "right" -> Monus(width, used)
PutLines(b, y, width, lines, st, align) ==
    [b |-> FoldLeft(LAMBDA buf, i :
               put_str_clipped(ensure_rows(buf, y + i),
                   Aligned(align, width, display_width(lines[i])), y + i - 1, lines[i], st, width),
               b, [i \in DOMAIN lines |-> i]),
     y |-> y + Len(lines)]
render_wrapped_text(b, y, width, text, st, align) ==
    PutLines(b, y, width, try_wrap_text(text, width), st, align)

(***************************************************************************)
(* Borders and rules (layout/border.rs).  A border's glyphs are named for  *)
(* their place; a joint is drawn over the border, a title under joints.    *)
(***************************************************************************)
BorderGlyph(p, w, h) ==
    CASE p[1] \in {0, w - 1} /\ p[2] \in {0, h - 1} -> "corner"
      [] p[2] \in {0, h - 1} -> "bar"
      [] OTHER -> "post"
ShownTitle(title, max) ==
    IF Len(title) > max THEN SubSeq(title, 1, max - 1) \o <<"dots">> ELSE title
TitleInk(title, w) ==
    IF title = << >> \/ w <= 4 THEN << >>
    ELSE LET shown == ShownTitle(title, w - 4)
             after == 2 + Len(shown)
         IN [x \in 1..(IF Len(title) <= w - 4 /\ after < w - 1 THEN after ELSE after - 1) |->
                IF x = 1 \/ x = after THEN " " ELSE shown[x - 1]]
JointCells(j, w, h) ==
    {p \in {<<j.top, 0>>, <<j.bottom, h - 1>>} : p[1] \in 1..(w - 2)}
    \cup {p \in {<<0, j.left>>, <<w - 1, j.right>>} : p[2] \in 1..(h - 2)}
BorderInk(w, h, title, joins) ==
    [p \in {q \in Cells(Rect(0, 0, w, h)) : q[1] \in {0, w - 1} \/ q[2] \in {0, h - 1}} |->
        IF p \in JointCells(joins, w, h) THEN "joint"
        ELSE IF p[2] = 0 /\ p[1] \in DOMAIN TitleInk(title, w) THEN TitleInk(title, w)[p[1]]
        ELSE BorderGlyph(p, w, h)]
\* The cells of `over` drawn onto b.
Overlaid(b, over, st) ==
    LET hit == {p \in DOMAIN over : p[1] < b.w /\ p[2] < b.h}
        left == {p \in hit : Covers(over[p], st)}
    IN [b EXCEPT !.ink = [p \in (DOMAIN @ \ hit) \cup left |-> IF p \in left THEN over[p] ELSE @[p]]]
\* draw_border_with_joints: the buffer drawn on and the space inside.
draw_border_with_joints(b, w, h, d, st) ==
    IF ~d.border THEN [b |-> b, x |-> 0, y |-> 0, w |-> w]
    ELSE IF w < 2 \/ h < 2 THEN [b |-> b, x |-> 0, y |-> 0, w |-> 0]
    ELSE [b |-> Overlaid(b, BorderInk(w, h, d.title, d.joins), st), x |-> 1, y |-> 1, w |-> w - 2]
draw_hr(b, y, width, glyph, st) ==
    Overlaid(b, [p \in Cells(Rect(0, y, width, 1)) |-> glyph], st)
fill_rect(b, w, h, st) == Overlaid(b, [p \in Cells(Rect(0, 0, w, h)) |-> " "], st)

(***************************************************************************)
(* What a pass writes (scene/tree.rs)                                      *)
(***************************************************************************)
Root == 1
kind(L, id) == L.n[id].k
data(L, id) == L.n[id].d
children(L, id) == L.n[id].ch

\* The journal keeps the first snapshot of a node in a transaction.
checkpoint_layout(L, id) ==
    IF ~L.txn \/ id \in DOMAIN L.jl THEN L
    ELSE [L EXCEPT !.jl = @ @@ (id :> [pl |-> L.pl[id], fr |-> L.fr[id]])]
checkpoint_buffer(L, id) ==
    IF ~L.txn \/ id \in DOMAIN L.jb THEN L ELSE [L EXCEPT !.jb = @ @@ (id :> L.bf[id]), !.bf[id] = NoBuf]
mark_composite(L, r) == [L EXCEPT !.dirty = union(@, r)]
record_resource_error(L) == [L EXCEPT !.err = TRUE]
ensure_height(L, h) == [L EXCEPT !.bh = Most(@, Least(h, MAX_LAYOUT_ROWS))]

update_placement(L, id, p) ==
    IF L.pl[id] = p THEN L
    ELSE mark_composite(mark_composite([checkpoint_layout(L, id) EXCEPT !.pl[id] = p],
                                       L.pl[id].bb), p.bb)
update_focusable_rect(L, id, r) == [checkpoint_layout(L, id) EXCEPT !.fr[id] = r]
\* A fresh buffer.  A refused one leaves the node without: the transaction has
\* put the old one into its journal by then.
allocate_buffer(L, id, w, h) ==
    IF L.hit = id /\ L.how = "buffer" THEN record_resource_error(checkpoint_buffer(L, id))
    ELSE [checkpoint_buffer(L, id) EXCEPT !.bf[id] = Buffer(Most(w, 1), Most(h, 1))]
\* layout_buffer_mut: drawing on a node that has no buffer draws nothing.
Drawn(L, id, b) == IF L.bf[id] = NoBuf THEN L ELSE [L EXCEPT !.bf[id] = b]
Canvas(L, id) == IF L.bf[id] = NoBuf THEN Buffer(1, 1) ELSE L.bf[id]

\* A measured height counts in the pass it was taken in only: the code stamps
\* it with the pass, here a new pass forgets it.
begin_layout_pass(L) == [L EXCEPT !.memo = [id \in DOMAIN @ |-> NoMemo]]
cached_measure(L, id, w) == L.memo[id] # NoMemo /\ L.memo[id].w = w
set_cached_measure(L, id, w, h) == [L EXCEPT !.memo[id] = [w |-> w, h |-> h]]

Result(L, p, y) == [L |-> L, p |-> p, y |-> y]
Refused(L, c) == Result(record_resource_error(L), empty_at(c), c.y)
Below(c, y) == [c EXCEPT !.y = y]

(***************************************************************************)
(* Inline content (layout/kinds/mod.rs, layout/engine.rs)                  *)
(***************************************************************************)
Segment(s, st, foc) == [s |-> s, st |-> st, foc |-> foc]
Inherit(st, run) == [u |-> run.u \/ st.u, bg |-> run.bg \/ st.bg]

RECURSIVE append_inline_segments(_, _, _, _)
try_collect_inline_segments(L, roots, st, foc) ==
    FlattenSeq([i \in DOMAIN roots |-> append_inline_segments(L, roots[i], st, foc)])
append_inline_segments(L, id, st, foc) ==
    CASE kind(L, id) = "link" ->
           try_collect_inline_segments(L, children(L, id), [st EXCEPT !.u = TRUE], id)
      [] kind(L, id) = "button" ->
           <<Segment(<<"[", " ">> \o data(L, id).label \o <<" ", "]">>, st, id)>>
      [] kind(L, id) \in {"text", "pre", "art", "def", "tanim", "h1", "h2"} ->
           LET runs == SelectSeq(data(L, id).runs, LAMBDA r : r.s # << >>)
           IN [i \in DOMAIN runs |-> Segment(runs[i].s, Inherit(st, runs[i]), foc)]
              \o try_collect_inline_segments(L, children(L, id), st, foc)
      [] OTHER -> << >>

\* segments_to_words.  A word joins its predecessor when no white space lies
\* between their segments.
Blank(g) == g \in {" ", "nl"}
JoinsBack(segs, i) == /\ i > 1 /\ segs[i].s # << >> /\ ~Blank(segs[i].s[1])
                      /\ segs[i - 1].s # << >> /\ ~Blank(Last(segs[i - 1].s))
StyledWords(segs, i, ws) ==
    SelectSeq([j \in DOMAIN ws |-> [s |-> ws[j], st |-> segs[i].st, foc |-> segs[i].foc,
                                    join |-> j = 1 /\ JoinsBack(segs, i)]],
              LAMBDA w : display_width(w.s) > 0)
FirstAlone(ws) == [i \in DOMAIN ws |-> [ws[i] EXCEPT !.join = @ /\ i > 1]]
segments_to_words(segs) ==
    FirstAlone(FlattenSeq([i \in DOMAIN segs |-> StyledWords(segs, i, split_whitespace(segs[i].s))]))

\* A line is a sequence of graphemes that keep their style and the node that
\* takes the focus there; runs of equal ones are the code's spans.
Glyphs(word, s) == [i \in DOMAIN s |-> [g |-> s[i], st |-> word.st, foc |-> word.foc]]
LineWidth(line) == FoldLeft(LAMBDA n, x : n + char_width(x.g), 0, line)
Gap(line, word) ==
    IF Last(line).foc = word.foc THEN [g |-> " ", st |-> Last(line).st, foc |-> word.foc]
    ELSE [g |-> " ", st |-> [word.st EXCEPT !.u = FALSE], foc |-> NoNode]
force_break_styled_word(lines, word, max) ==
    LET chunks == try_force_break_word(word.s, max)
    IN [lines |-> lines \o [i \in 1..(Len(chunks) - 1) |-> Glyphs(word, chunks[i])],
        cur |-> Glyphs(word, Last(chunks))]
WrapInlineWord(acc, word, max) ==
    LET gap == IF word.join \/ acc.cur = << >> THEN << >> ELSE <<Gap(acc.cur, word)>>
    IN IF LineWidth(acc.cur) + Len(gap) + display_width(word.s) <= max
       THEN [acc EXCEPT !.cur = @ \o gap \o Glyphs(word, word.s)]
       ELSE IF display_width(word.s) > max
       THEN force_break_styled_word(PushLine(acc.lines, acc.cur), word, max)
       ELSE [lines |-> PushLine(acc.lines, acc.cur), cur |-> Glyphs(word, word.s)]
try_wrap_inline_segments(segs, max) ==
    OrOneLine(Finished(FoldLeft(LAMBDA a, w : WrapInlineWord(a, w, max),
                                [lines |-> << >>, cur |-> << >>], segments_to_words(segs))), max)

\* The first stretch of a line that belongs to a focusable node.
Stretch(line, f) ==
    LET from == Min({i \in DOMAIN line : line[i].foc = f})
        to == Max({i \in from..Len(line) : \A j \in from..i : line[j].foc = f})
    IN [at |-> LineWidth(SubSeq(line, 1, from - 1)), w |-> LineWidth(SubSeq(line, from, to))]
Focused(line) == {line[i].foc : i \in DOMAIN line} \ {NoNode}
MarkFocus(L, lines, i, x, y, origin) ==
    LET new == Focused(lines[i]) \ UNION {Focused(lines[j]) : j \in 1..(i - 1)}
    IN FoldLeft(LAMBDA acc, f : update_focusable_rect(acc, f,
                    Rect(x + Stretch(lines[i], f).at + origin[1], y + origin[2],
                         Stretch(lines[i], f).w, 1)),
                L, SetToSeq(new))
PutLine(b, x, y, line, clip) ==
    IF x >= b.w THEN b
    ELSE FoldLeft(LAMBDA acc, g : PutGrapheme(acc, y, g.g, g.st, clip),
                  [b |-> b, col |-> x, stop |-> FALSE], line).b
\* render_inline_lines_with_origin: draws the lines on the node's buffer from
\* column c.x and row c.y and records where its focusables are on the page.
render_inline_lines_with_origin(L, id, c, lines, align, origin) ==
    FoldLeft(LAMBDA acc, i :
        LET x == c.x + Aligned(align, c.w, LineWidth(lines[i]))
            b == ensure_rows(Canvas(acc, id), c.y + i)
        IN MarkFocus(Drawn(acc, id, PutLine(b, x, c.y + i - 1, lines[i], Least(c.x + c.w, b.w))),
                     lines, i, x, c.y + i - 1, origin),
        L, [i \in DOMAIN lines |-> i])
Inner(c, x, w) == [c EXCEPT !.x = x, !.y = 0, !.w = w]

(***************************************************************************)
(* Leaves (layout/kinds).  c is the LayoutCtx: position, width, viewport   *)
(* height and inherited style.                                             *)
(***************************************************************************)
\* Every leaf is placed over the width it was given, h rows from c.y.
LeafBound(L, id, c, h, bb) ==
    LET p == Placed(Rect(c.x, c.y, c.w, h), h, union(Rect(c.x, c.y, c.w, h), bb))
    IN Result(update_placement(ensure_height(L, c.y + h), id, p), p, c.y + h)
Leaf(L, id, c, h) == LeafBound(L, id, c, h, Rect(c.x, c.y, c.w, h))
\* A field of one row at the left, w columns of which take the focus.
Field(L, id, c, s, w) ==
    LET A == allocate_buffer(L, id, c.w, 1)
        D == Drawn(A, id, put_str_clipped(Canvas(A, id), 0, 0, s, c.st, c.w))
    IN Leaf(update_focusable_rect(D, id, Rect(c.x, c.y, w, 1)), id, c, 1)
layout_button(L, id, c) ==
    LET s == <<"[", " ">> \o data(L, id).label \o <<" ", "]">>
    IN Field(L, id, c, s, Least(Len(s), c.w))
\* The visible prefix of the value (or of the placeholder), padded.
VisiblePrefix(s, max) ==
    SubSeq(s, 1, Max({n \in 0..Len(s) : display_width(SubSeq(s, 1, n)) <= max}))
layout_input(L, id, c) ==
    LET d == data(L, id)
        shown == IF d.value = << >> THEN d.placeholder
                 ELSE IF d.password THEN [i \in DOMAIN d.value |-> "*"] ELSE d.value
        w == Least(c.w, 40)
        vis == VisiblePrefix(shown, Monus(w, 2))
    IN Field(L, id, c, <<"[">> \o vis
                       \o [i \in 1..(Monus(w, 2) - display_width(vis)) |-> "_"] \o <<"]">>, w)
ChosenLabel(L, id, options) ==
    IF data(L, id).sel + 1 \in DOMAIN options THEN data(L, options[data(L, id).sel + 1]).label
    ELSE <<"(", "n", "o", "n", "e", ")">>
ShownChoice(A, id, c, rows, label) ==
    put_str_clipped(put_str_clipped(Canvas(A, id), 0, 0, data(A, id).label, c.st, c.w), 0, rows - 1,
                    <<"[", "down", " ">> \o label \o <<"]">>, c.st, c.w)
WholeFocus(R, id) == [R EXCEPT !.L = update_focusable_rect(@, id, R.p.r)]
SelectOn(A, id, c, rows, label) ==
    WholeFocus(Leaf(Drawn(A, id, ShownChoice(A, id, c, rows, label)), id, c, rows), id)
SelectRows(L, id, c, rows) ==
    SelectOn(allocate_buffer(L, id, c.w, rows), id, c, rows,
             ChosenLabel(L, id, SelectSeq(children(L, id), LAMBDA o : kind(L, o) = "option")))
layout_select(L, id, c) == SelectRows(L, id, c, IF data(L, id).label # << >> THEN 2 ELSE 1)
layout_hr(L, id, c) ==
    LET A == allocate_buffer(L, id, c.w, 1)
    IN Leaf(Drawn(A, id, draw_hr(Canvas(A, id), 0, c.w, "rule", c.st)), id, c, 1)
layout_spacer(L, id, c) == Leaf(L, id, c, data(L, id).lines)

\* Preformatted text: lines as written, aligned as a block, clipped.
RunLines(runs) ==
    FoldLeft(LAMBDA lines, r :
        FoldLeft(LAMBDA ls, g :
            IF g = "nl" THEN Append(ls, << >>)
            ELSE [ls EXCEPT ![Len(ls)] = Append(@, [g |-> g, st |-> r])], lines, r.s),
        << << >> >>, runs)
Verbatim(L, id, c, lines, align) ==
    LET A == allocate_buffer(L, id, c.w, 1)
        widest == Max({0} \cup {LineWidth(lines[i]) : i \in DOMAIN lines})
        b == FoldLeft(LAMBDA buf, i :
                 PutLine(buf, Aligned(align, c.w, widest), i - 1,
                         [j \in DOMAIN lines[i] |->
                             [lines[i][j] EXCEPT !.st = Inherit(c.st, @)]], Least(c.w, buf.w)),
                 ensure_rows(Canvas(A, id), Len(lines)), [i \in DOMAIN lines |-> i])
    IN Leaf(Drawn(A, id, b), id, c, IF A.bf[id] = NoBuf THEN 0 ELSE Len(lines))
layout_pre(L, id, c) == Verbatim(L, id, c, RunLines(data(L, id).runs), data(L, id).align)
FirstRun(L, id) == IF data(L, id).runs = << >> THEN [s |-> << >>, u |-> FALSE, bg |-> FALSE]
                   ELSE data(L, id).runs[1]
layout_art(L, id, c) ==
    Verbatim(L, id, c, RunLines(<<[FirstRun(L, id) EXCEPT !.u = FALSE, !.bg = FALSE]>>), "left")
\* A definition's or a text animation's first run, on one row.
OneRow(L, id, c, s, bb) ==
    LET A == allocate_buffer(L, id, c.w, 1)
    IN LeafBound(Drawn(A, id, put_str_clipped(Canvas(A, id), 0, 0, s, c.st, c.w)), id, c, 1, bb)
layout_element_def(L, id, c) ==
    LET s == trim(FirstRun(L, id).s)
    IN OneRow(L, id, c, s, Rect(c.x, c.y, Most(Least(display_width(s), c.w), 1), 1))
layout_text_animate(L, id, c) == OneRow(L, id, c, FirstRun(L, id).s, Rect(c.x, c.y, c.w, 1))

\* Inline children on the node's own buffer, from row y0 of it.
InlineLines(L, id, c, lines, y0, align) ==
    [L |-> render_inline_lines_with_origin(L, id, Below(Inner(c, 0, c.w), y0), lines, align, <<c.x, c.y>>),
     y |-> y0 + Len(lines)]
InlineLinesOf(segs, w) == IF segs = << >> THEN << >> ELSE try_wrap_inline_segments(segs, w)
Inlined(L, id, c, roots, st, foc, y0, align) ==
    InlineLines(L, id, c, InlineLinesOf(try_collect_inline_segments(L, roots, st, foc), c.w), y0, align)
\* A heading's own text, then its inline children, then the rule of level 1.
HeadingText(A, id, c, text) ==
    IF text = << >> \/ A.bf[id] = NoBuf THEN [b |-> Canvas(A, id), y |-> 0]
    ELSE render_wrapped_text(Canvas(A, id), 0, c.w, text, c.st, "left")
Ruled(L, id, c, y) ==
    IF kind(L, id) # "h1" \/ y = 0 THEN Leaf(L, id, c, y)
    ELSE Leaf(Drawn(L, id, draw_hr(ensure_rows(Canvas(L, id), y + 1), y, c.w, "rule", c.st)), id, c, y + 1)
RuledFrom(I, id, c) == Ruled(I.L, id, c, I.y)
HeadingFrom(A, id, c, own) ==
    RuledFrom(Inlined(Drawn(A, id, own.b), id, c, children(A, id), c.st, NoNode, own.y, "left"), id, c)
HeadingOn(A, id, c) == HeadingFrom(A, id, c, HeadingText(A, id, c, trim(FirstRun(A, id).s)))
layout_heading(L, id, c) == HeadingOn(allocate_buffer(L, id, c.w, 1), id, c)
\* Plain text: one run wraps by itself, several runs or children inline.
InlinedLeaf(I, id, c) == Leaf(I.L, id, c, I.y)
Wrapped(A, id, c, W) == Leaf(Drawn(A, id, W.b), id, c, W.y)
OneRun(A, id, c, text) ==
    IF text = << >> \/ A.bf[id] = NoBuf THEN Leaf(A, id, c, 0)
    ELSE Wrapped(A, id, c, render_wrapped_text(Canvas(A, id), 0, c.w, text,
                               Inherit(c.st, FirstRun(A, id)), data(A, id).align))
TextOn(A, id, c) ==
    IF children(A, id) # << >> \/ Len(data(A, id).runs) > 1
    THEN InlinedLeaf(Inlined(A, id, c, <<id>>, c.st, NoNode, 0, data(A, id).align), id, c)
    ELSE OneRun(A, id, c, TrimOf(FirstRun(A, id).s, {" "}))
layout_text_plain(L, id, c) == TextOn(allocate_buffer(L, id, c.w, 1), id, c)
\* A link of one run is a label on one row; any other link is inline.
IsSimpleLink(L, id) ==
    /\ Len(children(L, id)) = 1
    /\ LET t == children(L, id)[1]
       IN /\ kind(L, t) \in {"text", "pre", "art", "def", "tanim", "h1", "h2"}
          /\ Len(data(L, t).runs) = 1 /\ children(L, t) = << >> /\ trim(data(L, t).runs[1].s) # << >>
try_simple_link(L, id, c) ==
    LET run == data(L, children(L, id)[1]).runs[1]
    IN Field(L, id, [c EXCEPT !.st = [u |-> TRUE, bg |-> c.st.bg \/ run.bg]], trim(run.s),
             Least(display_width(trim(run.s)), c.w))
layout_link(L, id, c) ==
    IF IsSimpleLink(L, id) THEN try_simple_link(L, id, c)
    ELSE InlinedLeaf(Inlined(allocate_buffer(L, id, c.w, 1), id, c, children(L, id),
                             [c.st EXCEPT !.u = TRUE], id, 0, "left"), id, c)
layout_item(L, id, c) ==
    InlinedLeaf(Inlined(allocate_buffer(L, id, c.w, 1), id, c, children(L, id), c.st, NoNode, 0, "left"),
                id, c)

(***************************************************************************)
(* Tables (layout/kinds/table.rs)                                          *)
(***************************************************************************)
RECURSIVE push_text_content(_, _)
push_text_content(L, ids) ==
    FlattenSeq([i \in DOMAIN ids |->
        IF kind(L, ids[i]) \notin {"text", "pre", "art", "def", "tanim", "h1", "h2"} THEN << >>
        ELSE FlattenSeq([j \in DOMAIN data(L, ids[i]).runs |-> trim(data(L, ids[i]).runs[j].s)])
             \o push_text_content(L, children(L, ids[i]))])
collect_row_cells(L, tr) ==
    LET cells == SelectSeq(children(L, tr), LAMBDA x : kind(L, x) \in {"th", "td"})
    IN [i \in DOMAIN cells |-> [s |-> push_text_content(L, children(L, cells[i])),
                                head |-> kind(L, cells[i]) = "th"]]
RowsIn(L, ids) == SelectSeq(ids, LAMBDA x : kind(L, x) = "tr")
collect_table_rows(L, ids) ==
    LET trs == FlattenSeq([i \in DOMAIN ids |->
                   IF kind(L, ids[i]) = "tr" THEN <<ids[i]>>
                   ELSE IF kind(L, ids[i]) = "tbody" THEN RowsIn(L, children(L, ids[i])) ELSE << >>])
    IN [i \in DOMAIN trs |-> collect_row_cells(L, trs[i])]

NaturalWidth(rows, j) ==
    Max({0} \cup {display_width(rows[i][j].s) : i \in {k \in DOMAIN rows : j \in DOMAIN rows[k]}})
Total(ws) == FoldLeft(LAMBDA a, b : a + b, 0, ws)
\* Columns wider than the page shrink in proportion, to at least one cell.
ColumnWidths(rows, cols, width) ==
    LET ws == [j \in 1..cols |-> NaturalWidth(rows, j)]
        space == Monus(width, (cols - 1) * 3)
    IN IF Total(ws) + (cols - 1) * 3 <= width THEN ws
       ELSE [j \in 1..cols |-> Most(1, IF Total(ws) = 0 THEN 0 ELSE (ws[j] * space) \div Total(ws))]
CellText(s, cw) ==
    IF display_width(s) > cw THEN VisiblePrefix(s, Monus(cw, 1)) \o <<"dots">>
    ELSE s \o [i \in 1..(cw - display_width(s)) |-> " "]
ColumnAt(ws, j) == Total(SubSeq(ws, 1, j - 1)) + (j - 1) * 3
PutBar(cell, x, y, last, st, clip) ==
    IF last THEN cell ELSE put_str_clipped(cell, x, y, <<" ", "post", " ">>, st, clip)
PutRow(b, y, row, ws, st, clip) ==
    FoldLeft(LAMBDA buf, j :
        PutBar(put_str_clipped(buf, ColumnAt(ws, j), y, CellText(row[j].s, ws[j]), st, clip),
               ColumnAt(ws, j) + ws[j], y, j = Len(row), st, clip), b, [j \in DOMAIN row |-> j])
HeaderRule(b, y, ws, st) ==
    Overlaid(b, [p \in Cells(Rect(0, y, Total(ws) + (Len(ws) - 1) * 3, 1)) |->
                    IF \E j \in 2..Len(ws) : p[1] = ColumnAt(ws, j) - 2 THEN "cross" ELSE "bar"], st)
\* The rule follows the first row.
RuleAfter(b, i, ws, ruled, c) ==
    IF i = 1 /\ ruled THEN HeaderRule(ensure_rows(b, 2), 1, ws, c.st) ELSE b
TableInk(b, rows, ws, skip, c) ==
    FoldLeft(LAMBDA buf, i :
        LET y == IF i = 1 THEN 0 ELSE i + skip - 1
        IN RuleAfter(PutRow(ensure_rows(buf, y + 1), y, rows[i], ws, c.st, c.w), i, ws, skip = 1, c),
        b, [i \in DOMAIN rows |-> i])
TableFrom(A, id, c, rows, ws, skip) ==
    Leaf(Drawn(A, id, TableInk(Canvas(A, id), rows, ws, skip, c)), id, c,
         IF A.bf[id] = NoBuf THEN 0 ELSE Len(rows) + skip)
TableRows(L, id, c, rows, cols) ==
    IF cols = 0 THEN Result(update_placement(L, id, empty_at(c)), empty_at(c), c.y)
    ELSE TableFrom(allocate_buffer(L, id, c.w, 1), id, c, rows, ColumnWidths(rows, cols, c.w),
                   IF \E j \in DOMAIN rows[1] : rows[1][j].head THEN 1 ELSE 0)
Widest(rows) == Max({0} \cup {Len(rows[i]) : i \in DOMAIN rows})
TableOf(L, id, c, rows) == TableRows(L, id, c, rows, Widest(rows))
layout_table(L, id, c) == TableOf(L, id, c, collect_table_rows(L, children(L, id)))

(***************************************************************************)
(* Containers                                                              *)
(***************************************************************************)
RECURSIVE layout_node(_, _, _)

\* layout_children_scene: one child below the other.
Under(acc, R) == [adv |-> acc.adv + R.p.adv, L |-> R.L, bb |-> union(acc.bb, R.p.bb)]
Stacked(end, c) == Result(end.L, Placed(Rect(c.x, c.y, c.w, end.adv), end.adv, end.bb), c.y + end.adv)
layout_children_scene(L, ids, c) ==
    Stacked(FoldLeft(LAMBDA acc, id : Under(acc, layout_node(acc.L, id, Below(c, c.y + acc.adv))),
                     [L |-> L, adv |-> 0, bb |-> Rect(c.x, c.y, 0, 0)], ids), c)
\* Lists and animations go on from where the last child left ctx.y.
After(acc, R) == [bb |-> union(acc.bb, R.p.bb), L |-> R.L, y |-> R.y]
FromWhereLeft(L, ids, c) ==
    FoldLeft(LAMBDA acc, id : After(acc, layout_node(acc.L, id, Below(c, acc.y))),
             [L |-> L, y |-> c.y, bb |-> Rect(c.x, c.y, 0, 0)], ids)
Settle(R, id, p, y) == Result(update_placement(R, id, p), p, y)

HeightOf(R, bh) ==
    [L |-> [R.L EXCEPT !.bh = bh], h |-> Most(R.p.adv, IF is_empty(R.p.bb) THEN 0 ELSE R.p.bb.h)]
measure_children_height_scene(L, ids, w, st) ==
    HeightOf(layout_children_scene([L EXCEPT !.bh = 1], ids,
                                   [x |-> 0, y |-> 0, w |-> w, vh |-> 0, st |-> st]), L.bh)
\* The height of a box's content, measured once per pass and width.
Remember(m, id, w) == [m EXCEPT !.L = set_cached_measure(m.L, id, w, m.h)]
Measured(L, id, w, st) ==
    IF data(L, id).h.t # "fit" THEN [L |-> L, h |-> 0]
    ELSE IF cached_measure(L, id, w) THEN [L |-> L, h |-> L.memo[id].h]
    ELSE Remember(measure_children_height_scene(L, children(L, id), w, st), id, w)

Overhead(d) == (IF d.border THEN 2 ELSE 0) + d.pad * 2
BoxWidth(d, c, x) ==
    CASE d.w.t = "fixed" -> Least(d.w.v, c.w)
      [] d.w.t = "fill" -> Monus(c.w, Monus(x, c.x))
      [] d.w.t = "fit" -> c.w
BoxHeight(L, d, y, content) ==
    CASE d.h.t = "fixed" -> d.h.v
      [] d.h.t = "fit" -> content + Overhead(d)
      [] d.h.t = "fill" -> Most(Monus(L.bh, y), 3)
\* layout_box_node, also used for absolute boxes (at # <<>>: x and y given).
\* g is the box's geometry [x, y, w, h, adv, st].
Bordered(A, id, filled, g) ==
    IF A.bf[id] = NoBuf THEN [b |-> filled, x |-> 0, y |-> 0, w |-> g.w]
    ELSE draw_border_with_joints(filled, g.w, g.h, data(A, id), g.st)
Filled(A, id, g) == IF data(A, id).bg THEN fill_rect(Canvas(A, id), g.w, g.h, g.st) ELSE Canvas(A, id)
Framed(A, id, inner) == [L |-> Drawn(A, id, inner.b), x |-> inner.x, y |-> inner.y, w |-> inner.w]
DrawBoxOn(A, id, g) == Framed(A, id, Bordered(A, id, Filled(A, id, g), g))
DrawBox(L, id, g) == DrawBoxOn(allocate_buffer(ensure_height(L, g.y + g.h), id, g.w, g.h), id, g)
BoxOver(R, id, c, g, rect) ==
    Settle(R.L, id, Placed(rect, g.adv, union(rect, R.p.bb)), IF g.adv = 0 THEN c.y ELSE g.y + g.h)
BoxContent(B, id, c, g, d) ==
    BoxOver(layout_children_scene(B.L, children(B.L, id),
                [c EXCEPT !.x = g.x + B.x + Least(d.pad, B.w), !.y = g.y + B.y + d.pad,
                          !.w = Monus(B.w, d.pad * 2), !.st = g.st]),
            id, c, g, Rect(g.x, g.y, g.w, g.h))
BoxAt(L, id, c, g) == BoxContent(DrawBox(L, id, g), id, c, g, data(L, id))
High(g, h, absolute) == [g EXCEPT !.h = h, !.adv = IF absolute THEN 0 ELSE h]
PlaceBox(M, id, c, g, d) ==
    BoxAt(M.L, id, c, High(g, BoxHeight(M.L, d, g.y, M.h), d.at # << >>))
BoxSpot(d, c, w) ==
    [x |-> IF d.at # << >> THEN d.at[1] ELSE c.x + Aligned(d.align, c.w, w),
     y |-> IF d.at # << >> THEN d.at[2] ELSE c.y, w |-> w, h |-> 0, adv |-> 0,
     st |-> [c.st EXCEPT !.bg = @ \/ d.bg]]
MeasureBox(L, id, c, g, d) ==
    PlaceBox(Measured(L, id, Monus(g.w, Overhead(d)), g.st), id, c, g, d)
BoxOf(L, id, c, d) ==
    MeasureBox(L, id, c, BoxSpot(d, c, BoxWidth(d, c, IF d.at # << >> THEN d.at[1] ELSE c.x)), d)
layout_box_node(L, id, c) == BoxOf(L, id, c, data(L, id))

\* layout_list: the markers on the list's own buffer, the items indented.
Marker(d, i) ==
    CASE d.style = "number" -> ToString(i)
      [] d.style = "none" -> ""
      [] OTHER -> "dot"
MarkerWidth(d, i) == IF d.style = "number" THEN (IF i < 10 THEN 2 ELSE 3) ELSE 1
ListIndent(d, n) ==
    CASE d.style = "number" -> (IF n < 10 THEN 1 ELSE 2) + 2
      [] d.style = "none" -> 0
      [] OTHER -> 2
PutMarker(L, id, d, i, x, y, st) ==
    IF d.style = "none" \/ L.bf[id] = NoBuf THEN L
    ELSE Drawn(L, id, put_str_clipped(ensure_rows(Canvas(L, id), y + 1), Monus(x, MarkerWidth(d, i) + 1), y,
                      IF d.style = "number" THEN <<Marker(d, i), ".">> ELSE <<Marker(d, i)>>,
                      st, Canvas(L, id).w))
ListUnder(end, id, c, rect) ==
    Settle(ensure_height(end.L, end.y), id, Placed(rect, rect.h, union(rect, end.bb)), end.y)
ListFrom(end, id, c) == ListUnder(end, id, c, Rect(c.x, c.y, c.w, end.y - c.y))
Listed(A, id, c, d, ids, ind) ==
    ListFrom(FoldLeft(LAMBDA acc, i :
                 After(acc, layout_node(PutMarker(acc.L, id, d, i, ind, acc.y - c.y, c.st), ids[i],
                                        [c EXCEPT !.x = @ + ind, !.w = Monus(@, ind), !.y = acc.y])),
                 [L |-> A, y |-> c.y, bb |-> Rect(c.x, c.y, 0, 0)], [i \in DOMAIN ids |-> i]), id, c)
layout_list(L, id, c) ==
    Listed(allocate_buffer(L, id, c.w, 1), id, c, data(L, id), children(L, id),
           ListIndent(data(L, id), Len(children(L, id))))

\* layout_details: the indicator and the summary on the node's own buffer,
\* then the body, if it is open.
OwnSummary(A, id, c, text) ==
    [L |-> update_focusable_rect(
               Drawn(A, id, put_str_clipped(Canvas(A, id), 0, 0, text, c.st, c.w)), id,
               Rect(c.x, c.y, Least(display_width(text), c.w), 1)),
     h |-> 1, bb |-> Rect(c.x, c.y, 0, 0)]
InlineSummary(A, id, c, arrow, lines) ==
    [L |-> render_inline_lines_with_origin(
               update_focusable_rect(
                   Drawn(A, id, put_str_clipped(Canvas(A, id), 0, 0, arrow, c.st, c.w)), id,
                   Rect(c.x, c.y, 2, 1)),
               id, Inner(c, 2, Monus(c.w, 2)), lines, "left", <<c.x, c.y>>),
     h |-> Most(Len(lines), 1), bb |-> Rect(c.x + 2, c.y, Monus(c.w, 2), Most(Len(lines), 1))]
SummaryOn(A, id, c, kids, arrow) ==
    IF kids = << >> THEN OwnSummary(A, id, c, arrow \o data(A, id).summary)
    ELSE InlineSummary(A, id, c, arrow,
             InlineLinesOf(try_collect_inline_segments(A, kids, c.st, NoNode), Monus(c.w, 2)))
SummaryLine(L, id, c, d) ==
    SummaryOn(allocate_buffer(L, id, c.w, 1), id, c,
              SubSeq(children(L, id), 1, Least(d.nsum, Len(children(L, id)))),
              <<IF d.open THEN "down" ELSE "right", " ">>)
DetailsBody(S, id, c, d) ==
    LET body == SubSeq(children(S.L, id), d.nsum + 1, Len(children(S.L, id)))
        at == [c EXCEPT !.x = @ + 2, !.y = @ + S.h, !.w = Monus(@, 2)]
    IN IF d.open /\ body # << >> THEN layout_children_scene(S.L, body, at)
       ELSE Result(S.L, Placed(NoneRect, 0, NoneRect), c.y + S.h)
Details(S, B, id, c) ==
    LET rect == Rect(c.x, c.y, c.w, B.y - c.y)
    IN Settle(ensure_height(B.L, B.y), id,
              Placed(rect, rect.h, union(rect, union(S.bb, B.p.bb))), B.y)
DetailsFrom(S, id, c) == Details(S, DetailsBody(S, id, c, data(S.L, id)), id, c)
layout_details(L, id, c) == DetailsFrom(SummaryLine(L, id, c, data(L, id)), id, c)

\* Columns of declared or shared width, side by side.
Declared(L, id) ==
    IF kind(L, id) = "box" \/ (kind(L, id) = "flow" /\ data(L, id).src = "col")
    THEN data(L, id).w ELSE [t |-> "fill"]
RowWidths(L, id, c) ==
    LET ids == children(L, id)
        room == Monus(c.w, data(L, id).gap * Monus(Len(ids), 1))
        fixed == [i \in DOMAIN ids |->
                     IF Declared(L, ids[i]).t = "fixed" THEN Least(Declared(L, ids[i]).v, room) ELSE 0]
        fills == Cardinality({i \in DOMAIN ids : Declared(L, ids[i]).t # "fixed"})
        share == IF fills = 0 THEN 0 ELSE Monus(room, Total(fixed)) \div fills
    IN [i \in DOMAIN ids |-> IF fixed[i] = 0 THEN share ELSE fixed[i]]
Beside(acc, R, step) ==
    [x |-> acc.x + step, L |-> R.L, h |-> Most(acc.h, R.p.adv), bb |-> union(acc.bb, R.p.bb)]
ColumnsFrom(L, ids, c, ws, gap) ==
    FoldLeft(LAMBDA acc, i :
        Beside(acc, layout_node(acc.L, ids[i], [c EXCEPT !.x = acc.x, !.w = ws[i]]), ws[i] + gap),
        [L |-> L, x |-> c.x, h |-> 0, bb |-> Rect(c.x, c.y, 0, 0)], [i \in DOMAIN ids |-> i])
RowOver(end, id, c, rect) ==
    Settle(end.L, id, Placed(rect, end.h, IF children(end.L, id) = << >> THEN rect ELSE union(rect, end.bb)),
           c.y + end.h)
RowFrom(end, id, c) == RowOver(end, id, c, Rect(c.x, c.y, c.w, end.h))
layout_row(L, id, c) ==
    RowFrom(ColumnsFrom(L, children(L, id), c, RowWidths(L, id, c), data(L, id).gap), id, c)

\* The active state's children; the state itself is never placed.
PanelFrom(R, id, c) ==
    LET b == IF is_empty(R.p.bb) THEN Rect(c.x, c.y, c.w, 1) ELSE R.p.bb
        rect == Rect(b.x, b.y, Most(b.w, 1), Most(b.h, 1))
    IN Settle(R.L, id, Placed(rect, R.p.adv, union(rect, R.p.bb)), R.y)
layout_panel(L, id, c) ==
    PanelFrom(layout_children_scene(L, children(L, data(L, id).active), c), id, c)

LiveFrom(R, id, c) ==
    LET content == IF is_empty(R.p.bb) THEN R.p.adv ELSE Monus(R.p.bb.y + R.p.bb.h, c.y)
        h == IF data(R.L, id).h.t = "fixed" THEN data(R.L, id).h.v ELSE Most(content, 1)
        rect == Rect(c.x, c.y, c.w, h)
    IN Settle(ensure_height(R.L, c.y + h), id, Placed(rect, h, union(rect, R.p.bb)), c.y + h)
layout_live(L, id, c) == LiveFrom(layout_children_scene(L, children(L, id), c), id, c)

\* A background animation covers the viewport; a WASM effect lays out all its
\* children, a frame animation its first frame.
AnimationFrom(R, id, c) ==
    LET d == data(R.L, id)
        flow == R.y - c.y
        h == IF is_empty(R.bb) THEN flow ELSE Most(R.bb.h, flow)
        region == h > 0 \/ children(R.L, id) # << >>
        rect == Rect(IF d.at = << >> THEN c.x ELSE d.at[1], IF d.at = << >> THEN c.y ELSE d.at[2],
                     c.w, IF region THEN Most(h, 1) ELSE 0)
    IN Settle(R.L, id, Placed(rect, flow, union(rect, R.bb)), R.y)
layout_animation(L, id, c) ==
    LET rect == Rect(0, 0, c.w, c.vh)
        kids == children(L, id)
    IN IF data(L, id).background THEN Settle(L, id, Placed(rect, 0, rect), c.y)
       ELSE AnimationFrom(FromWhereLeft(L, IF data(L, id).src THEN kids ELSE SubSeq(kids, 1, 1), c),
                          id, c)

FlowFrom(R, id) == Settle(R.L, id, R.p, R.y)
\* layout_node: the rule of the node's kind.  Kinds that copy their children
\* first may have that refused; then nothing of the node changes.
Dispatch(L, id, c) ==
    CASE kind(L, id) \in {"flow", "nav", "state", "tbody"} ->
           FlowFrom(layout_children_scene(L, children(L, id), c), id)
      [] kind(L, id) \in {"box", "abs"} -> layout_box_node(L, id, c)
      [] kind(L, id) = "list" -> layout_list(L, id, c)
      [] kind(L, id) = "item" -> layout_item(L, id, c)
      [] kind(L, id) = "details" -> layout_details(L, id, c)
      [] kind(L, id) = "row" -> layout_row(L, id, c)
      [] kind(L, id) = "text" -> layout_text_plain(L, id, c)
      [] kind(L, id) = "pre" -> layout_pre(L, id, c)
      [] kind(L, id) = "art" -> layout_art(L, id, c)
      [] kind(L, id) = "def" -> layout_element_def(L, id, c)
      [] kind(L, id) = "tanim" -> layout_text_animate(L, id, c)
      [] kind(L, id) \in {"h1", "h2"} -> layout_heading(L, id, c)
      [] kind(L, id) = "link" -> layout_link(L, id, c)
      [] kind(L, id) = "button" -> layout_button(L, id, c)
      [] kind(L, id) = "input" -> layout_input(L, id, c)
      [] kind(L, id) = "select" -> layout_select(L, id, c)
      [] kind(L, id) = "hr" -> layout_hr(L, id, c)
      [] kind(L, id) = "spacer" -> layout_spacer(L, id, c)
      [] kind(L, id) = "panel" -> layout_panel(L, id, c)
      [] kind(L, id) = "anim" -> layout_animation(L, id, c)
      [] kind(L, id) = "live" -> layout_live(L, id, c)
      [] kind(L, id) = "table" -> layout_table(L, id, c)
      [] OTHER -> Result(L, empty_at(c), c.y)
NoCopy == {"button", "input", "select", "hr", "spacer"}
Visit(L, id) == [L EXCEPT !.left = @ - 1, !.hit = IF L.left = 1 THEN id ELSE @]
layout_node(L, id, c) ==
    IF L.left = 1 /\ L.how = "copy" /\ kind(L, id) \notin NoCopy THEN Refused(Visit(L, id), c)
    ELSE Dispatch(Visit(L, id), id, c)

(***************************************************************************)
(* Passes                                                                  *)
(***************************************************************************)
\* layout_scene_inner: the root's children into a page buffer of the window
\* or of the size a screen page asks for.
layout_scene(L, page, w, h) ==
    LET bw == IF page.cols = 0 THEN w ELSE page.cols
        bh == IF page.rows = 0 THEN h ELSE page.rows
        c == [x |-> 0, y |-> 0, w |-> bw, vh |-> bh, st |-> [Plain EXCEPT !.bg = page.bg]]
    IN layout_children_scene([begin_layout_pass(L) EXCEPT !.bh = bh], children(L, Root), c).L
\* relayout_in_place: one node over the rectangle it has.
relayout_in_place(L, page, id) ==
    LET r == L.pl[id].r
        c == [x |-> r.x, y |-> r.y, w |-> r.w, vh |-> r.h, st |-> [Plain EXCEPT !.bg = page.bg]]
    IN IF is_empty(r) THEN begin_layout_pass(L)
       ELSE layout_node(ensure_height(begin_layout_pass(L), r.y + r.h), id, c).L
=============================================================================
