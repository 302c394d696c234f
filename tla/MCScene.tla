------------------------------ MODULE MCScene ------------------------------
(***************************************************************************)
(* Small pages for the runner's loop: panels beside a sticky bar, a form,  *)
(* a live log under a details element, and one page with every other kind  *)
(* of node.                                                                *)
(***************************************************************************)
EXTENDS Scene

\* Three glyphs.
a == "a"
b == "b"
c == "c"

El(t, attrs, ch) == [t |-> t, a |-> attrs, ch |-> ch]
T(s) == El("text", [s |-> s, u |-> FALSE, bg |-> FALSE, align |-> "left"], << >>)
Bare(t, ch) == El(t, << >>, ch)
Plainly(t, ch) == El(t, [none |-> 0], ch)
Joins == [top |-> 0, bottom |-> 0, left |-> 0, right |-> 0]
BoxA == [at |-> << >>, w |-> [t |-> "fill"], h |-> [t |-> "fit"], border |-> TRUE,
         title |-> << >>, joins |-> Joins, pad |-> 0, align |-> "left", bg |-> FALSE,
         sticky |-> "none", moves |-> {}]
Nav(sticky, ch) == El("nav", [sticky |-> sticky], ch)
Link(href, s) == El("link", [id |-> "", href |-> href], <<T(s)>>)
Button(label, act1) == El("button", [label |-> label, act |-> act1], << >>)
State(name, ch) == El("state", [name |-> name], ch)
Page0(els) == [cols |-> 0, rows |-> 0, bg |-> FALSE, els |-> els]

Panels == Page0(<<
    Plainly("body", <<
        El("panel", [id |-> "p", initial |-> "s"], <<
            State("s", <<T(<<a, " ", a>>)>>),
            State("t", <<T(<<b, b, b, " ", b, b, b, " ", b>>), Link("blocks", <<c>>)>>)>>),
        Button(<<a>>, [k |-> "toggle", panel |-> "p", states |-> <<"s", "t">>]),
        T(<<a, b, a>>)>>),
    Nav("bottom", <<Button(<<b>>, [k |-> "set", panel |-> "p", state |-> "t"])>>)>>)

Form == Page0(<<
    Plainly("form", <<
        El("input", [id |-> "i", value |-> << >>, placeholder |-> <<b>>, password |-> FALSE,
                     maxlen |-> 1, name |-> "n"], << >>),
        El("select", [label |-> <<a>>, name |-> "m"], <<
            El("option", [label |-> <<a>>, selected |-> FALSE], << >>),
            El("option", [label |-> <<b, b>>, selected |-> TRUE], << >>)>>),
        Button(<<c>>, [k |-> "submit", href |-> "panels"])>>)>>)

Logs == Page0(<<
    El("details", [open |-> TRUE, summary |-> <<b>>, sum |-> << >>], <<T(<<a>>)>>),
    El("box", [BoxA EXCEPT !.bg = TRUE], <<
        El("live", [id |-> "l", h |-> [t |-> "fixed", v |-> 1], scroll |-> "tail", buffer |-> 2],
           <<T(<<c>>)>>)>>)>>)

Cell(t, s) == Bare(t, <<T(s)>>)
Blocks == Page0(<<
    El("h1", [s |-> <<a>>], << >>),
    Bare("table", <<Bare("thead", <<Bare("tr", <<Cell("th", <<a>>), Cell("th", <<b>>)>>)>>),
                    Bare("tr", <<Cell("td", <<c>>), Cell("td", <<a>>)>>)>>),
    El("list", [style |-> "number"], <<Bare("item", <<T(<<a>>)>>), Bare("item", <<Link("form", <<b>>)>>)>>),
    El("row", [gap |-> 1], <<El("col", [w |-> [t |-> "fixed", v |-> 2]], <<T(<<a>>)>>),
                             El("col", [w |-> [t |-> "fill"]], <<T(<<b>>)>>)>>),
    El("box", [BoxA EXCEPT !.at = <<3, 1>>, !.w = [t |-> "fixed", v |-> 3], !.h = [t |-> "fixed", v |-> 3],
                           !.title = <<a>>, !.moves = {<<0, 0>>, <<1, 1>>}], <<T(<<c>>)>>),
    Link("lines", <<a>>)>>)
Lines == Page0(<<
    El("h2", [s |-> <<b>>], << >>),
    El("pre", [runs |-> <<[s |-> <<a, "nl", b>>, u |-> FALSE, bg |-> TRUE]>>, align |-> "center"], << >>),
    El("art", [s |-> <<c, "nl", c>>], << >>),
    El("def", [id |-> "d", s |-> <<a>>], << >>), El("tanim", [s |-> <<b>>], << >>),
    Bare("hr", << >>), El("spacer", [lines |-> 1], << >>),
    El("anim", [id |-> "m", background |-> FALSE, src |-> FALSE, at |-> << >>], <<Plainly("frame", <<T(<<a>>)>>)>>),
    Link("live", <<a>>)>>)

MCDocs == [panels |-> Panels, form |-> Form, live |-> Logs, blocks |-> Blocks, lines |-> Lines]
MCErrDoc == Page0(<<T(<<"!">>)>>)
MCSizes == {<<8, 7>>, <<6, 7>>, <<8, 6>>}
MCUpdates == {[id |-> "l", delta |-> TRUE, els |-> <<T(<<a>>)>>],
              [id |-> "l", delta |-> FALSE, els |-> <<T(<<a>>)>>]}
=============================================================================
