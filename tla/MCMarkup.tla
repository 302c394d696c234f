------------------------------ MODULE MCMarkup ------------------------------
(***************************************************************************)
(* Pages for Markup: every short sequence of tokens over a few tags, for   *)
(* each pair of parsing loops; every known tag inside every other; pages   *)
(* with references, right and wrong; pages that define components.         *)
(***************************************************************************)
EXTENDS Markup

W == Text(<<"w">>)
B == Text(<<"blank">>)
E == << >>
O(n) == Open(n, E, FALSE)
S(n) == Open(n, E, TRUE)
Upto(alphabet, n) == UNION {[1..k -> alphabet] : k \in 0..n}
Paged(bodies) == {<<O("page")>> \o b \o <<Close("page")>> : b \in bodies}

\* Alphabets over which every sequence is parsed.
Bold == Open("text", [bold |-> "yes"], FALSE)
Boxes == {O("box"), Close("box"), S("box")}
Mixed == {O("text"), Close("text"), O("link"), Close("link"), W, B}
Styled == {O("pre"), Close("pre"), Bold, Close("text"), W, O("box"), Close("box")}
Tweens == {O("tween"), Close("tween"), O("at"), Close("at"), W, S("at"), O("box")}
Labels == {O("button"), Close("button"), O("box"), Close("box"), W, S("hr")}
Skips == {O("on"), Close("on"), O("at"), Close("at"), O("x"), Close("x"), W}
Stray == {O("page"), Close("page"), S("page"), O("box"), Close("box"), W, B}

\* Every tag in every other, twice.
AllTags == Known \cup {"x"}
Pairs == {<<O(p), W, Open(t, E, FALSE), W, Close(t), S(t), Close(p)>> :
             p \in AllTags \ VoidTags, t \in AllTags \ VoidTags}
         \cup {<<O(p), S(t), B, W, Close(p)>> : p \in AllTags \ VoidTags, t \in AllTags}

\* A panel with two states and elements that refer to it or to nothing.
Panel == <<Open("panel", [id |-> "p", state |-> "s1"], FALSE),
           Open("state", [name |-> "s1"], TRUE),
           Open("state", [name |-> "s2", transition |-> "fade"], FALSE), Close("state"),
           Close("panel")>>
Going(p, s) == {<<Open("button", [action |-> "set", target |-> p, to |-> s], TRUE)>>,
                <<Open("link", [href |-> "h", trigger |-> [panel |-> p, state |-> s]], TRUE)>>,
                <<Open("on", [event |-> "page-load", do |-> "set", target |-> p, to |-> s,
                              delay |-> 1], TRUE)>>}
Chained(from) == <<Open("on", [event |-> "animation-end", source |-> from, do |-> "animate",
                               target |-> "a"], TRUE)>>
Waiting(id) == <<Open("link", [href |-> "h", defer |-> id], TRUE)>>
Referring == Going("p", "s2") \cup Going("p", "s3") \cup Going("q", "s1")
             \cup {Waiting("a"), Waiting("p"), Chained("a"), Chained("b"),
                   <<Open("animate", [id |-> "a", src |-> "m", background |-> "yes"], TRUE)>>,
                   <<Open("button", [action |-> "toggle", target |-> "p",
                                     states |-> <<"s1", "s3">>], TRUE)>>}
\* The text that opens a [details] without a summary is its inline summary.
Summary(x) == <<O("details"), O("text")>> \o x \o <<Close("text"), Close("details")>>
Linked == {<<Open("page", [transition |-> "fade"], FALSE)>> \o b \o <<Close("page")>> :
              b \in {x \o y : x \in Referring \cup {Panel}, y \in Referring \cup {Panel}}
                    \cup {Panel \o x \o y : x \in Referring, y \in Referring}
                    \cup {x \o Summary(y) : x \in Referring, y \in Referring}}

\* A component with an attribute and a slot, and up to four tokens using it.
Def(body) == <<Open("def", [name |-> "c", attrs |-> <<[n |-> "a", d |-> "v"]>>,
                            slots |-> <<"s">>], FALSE)>> \o body \o <<Close("def")>>
Bodies == {<<W>>, <<Text(<<"$a", "$$">>), Open("slot", [name |-> "s"], TRUE)>>,
           <<O("box"), Open("slot", [name |-> "s"], FALSE), W, Close("slot"), Close("box")>>}
Uses == {Open("c", [a |-> "u"], FALSE), Open("c", E, TRUE), Close("c"), W,
         Open("slot-content", [name |-> "s"], FALSE), Close("slot-content")}
Composed == {<<O("page")>> \o Def(b) \o u \o <<Close("page")>> : b \in Bodies, u \in Upto(Uses, 4)}
            \cup {<<O("page")>> \o Def(b) \o Def(b) \o <<Close("page")>> : b \in Bodies}
            \cup {<<O("def"), W, Close("def"), O("page"), Open("def", [name |-> "d"], TRUE),
                    Close("page")>>}

Pages == Paged(UNION {Upto(Boxes, 8), Upto(Mixed, 5), Upto(Styled, 5), Upto(Tweens, 4),
                      Upto(Labels, 5), Upto(Skips, 4), Pairs})
         \cup Upto(Stray, 3) \cup Linked \cup Composed
Refs == [x \in {"$a"} |-> "a"]
Builtins == {"box", "text", "page"}
=============================================================================
