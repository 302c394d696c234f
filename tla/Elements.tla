------------------------------ MODULE Elements ------------------------------
(***************************************************************************)
(* The elements of AML (parser/mod.rs, parser/ast.rs): what each parse_*   *)
(* function makes of an open tag and of the body read for it, and what it  *)
(* reports.  Attribute values are words; `bad' names the ones that do not  *)
(* parse, which the code replaces by the default.  The four trigger-*      *)
(* attributes are one, "trigger", a [panel, state] pair.                   *)
(*                                                                         *)
(* An element is [tag, at, kids, text, lead]: `kids' are its children (the *)
(* runs of a [pre], the keyframes of a [tween]), `text' its own text and   *)
(* `lead' the summary_children of a [details].                             *)
(***************************************************************************)
EXTENDS Components, TLC

Node(tag, at, kids, text, lead) ==
    [tag |-> tag, at |-> at, kids |-> kids, text |-> text, lead |-> lead]
Plain(s) == Node("text", << >>, << >>, s, << >>)     \* text without a tag

Has(t, a) == a \in DOMAIN t.at
Kept(t) == [a \in DOMAIN t.at \ t.bad |-> t.at[a]]
Trim(s) ==
    LET words == {i \in DOMAIN s : s[i] # "blank"}
    IN IF words = {} THEN << >>
       ELSE SubSeq(s, CHOOSE i \in words : \A j \in words : i <= j,
                      CHOOSE i \in words : \A j \in words : i >= j)

(* What a parse function may report.                                       *)
Unknown(t, known) == IF DOMAIN t.at \subseteq known THEN {} ELSE {Warning("W002")}
Missing(t, a, code) == IF Has(t, a) THEN {} ELSE {Error(code)}
parse_color_attr(t) == IF t.bad \cap {"fg", "bg"} = {} THEN {} ELSE {Warning("E011")}
transition_attr(t) == IF "transition" \in t.bad THEN {Warning("W008")} ELSE {}
parse_triggers(t) == IF "trigger" \in t.bad THEN {Warning("E011")} ELSE {}

Built(t, kids, text, diags) ==
    [node |-> Node(t.name, Kept(t), kids, text, << >>), diags |-> diags]

StyleAttrs == {"fg", "bg", "bold", "italic", "underline", "strikethrough", "dim", "blink"}

(***************************************************************************)
(* Layout                                                                  *)
(***************************************************************************)
BoxAttrs == {"x", "y", "w", "h", "border", "fg", "bg", "padding", "title", "join-top",
             "join-bottom", "join-left", "join-right", "align", "sticky"}
parse_box(t, kids) ==
    Built(t, kids, << >>,
          Unknown(t, BoxAttrs) \cup parse_color_attr(t)
          \cup (IF t.bad \cap {"w", "h", "border"} = {} THEN {} ELSE {Warning("W002")}))
parse_row(t, kids) == Built(t, kids, << >>, Unknown(t, {"gap", "align"}))
parse_col(t, kids) == Built(t, kids, << >>, Unknown(t, {"w", "align"}))
parse_hr(t) == Built(t, << >>, << >>, Unknown(t, {"style", "fg"}) \cup parse_color_attr(t))
parse_spacer(t) ==
    Built(t, << >>, << >>,
          Unknown(t, {"lines"}) \cup (IF "lines" \in t.bad THEN {Warning("W002")} ELSE {}))
parse_container(t, kids) == Built(t, kids, << >>, {})
parse_nav(t, kids) == Built(t, kids, << >>, {})

(***************************************************************************)
(* Text                                                                    *)
(***************************************************************************)
\* A sole child that is a text without children gives its words and goes.
parse_text(t, kids) ==
    LET absorbs == Len(kids) = 1 /\ kids[1].tag = "text" /\ kids[1].kids = << >>
    IN Built(t, IF absorbs THEN << >> ELSE kids, IF absorbs THEN kids[1].text ELSE << >>,
             Unknown(t, StyleAttrs \cup {"align"}) \cup parse_color_attr(t))
parse_pre(t, runs) ==
    Built(t, runs, << >>, Unknown(t, {"fg", "bg", "align"}) \cup parse_color_attr(t))
\* The first childless text with words, wherever it stands, is the content.
parse_heading(t, kids) ==
    LET own == {i \in DOMAIN kids : kids[i].tag = "text" /\ kids[i].kids = << >>
                                    /\ \A j \in 1..(i - 1) :
                                          kids[j].tag = "text" /\ kids[j].kids = << >>
                                              => kids[j].text = << >>}
        keep == SelectSeq([i \in DOMAIN kids |-> i], LAMBDA i : i \notin own)
    IN Built(t, [i \in DOMAIN keep |-> kids[keep[i]]],
             IF own = {} THEN << >> ELSE kids[CHOOSE i \in own : \A j \in own : j <= i].text,
             Unknown(t, {"level", "fg"}) \cup parse_color_attr(t))
parse_list(t, kids) == Built(t, kids, << >>, Unknown(t, {"style", "bullet-char"}))
parse_item(t, kids) == Built(t, kids, << >>, {})

(***************************************************************************)
(* Interaction                                                             *)
(***************************************************************************)
parse_link(t, kids) ==
    Built(t, kids, << >>,
          Unknown(t, {"id", "href", "transition", "duration", "key", "prefetch", "defer", "trigger"})
          \cup transition_attr(t) \cup parse_triggers(t) \cup Missing(t, "href", "E011"))
parse_input(t) ==
    Built(t, << >>, << >>,
          Unknown(t, {"id", "name", "maxlen", "placeholder", "multiline", "rows", "password",
                      "value", "trigger"})
          \cup parse_triggers(t) \cup Missing(t, "name", "E011"))
parse_select(t, kids) ==
    LET options == {i \in DOMAIN kids : kids[i].tag = "option"}
        selected == {i \in options : "selected" \in DOMAIN kids[i].at}
    IN Built(t, kids, << >>,
             Missing(t, "name", "E011")
             \cup (IF options = {} \/ \E i, j \in selected : i # j THEN {Error("E011")} ELSE {}))
parse_option(t, content) ==
    Built(t, << >>, IF t.sc THEN <<Attr(t, "value", "")>> ELSE Trim(content), {})
parse_button(t, content) ==
    LET action == IF "action" \in t.bad THEN "submit" ELSE Attr(t, "action", "submit")
    IN Built(t, << >>, Trim(content),
             transition_attr(t) \cup parse_triggers(t)
             \cup (IF action = "toggle" /\ Len(Attr(t, "states", << >>)) < 2
                   THEN {Error("E023")} ELSE {})
             \cup (IF action = "set" THEN Missing(t, "to", "E011") ELSE {}))
parse_form(t, kids) == Built(t, kids, << >>, Missing(t, "action", "E011"))

(***************************************************************************)
(* Media and animation                                                     *)
(***************************************************************************)
parse_art(t, content) == Built(t, << >>, content, {})
parse_table(t, kids) == Built(t, kids, << >>, {})
parse_tr(t, kids) == Built(t, kids, << >>, {})
parse_cell(t, kids) == Built(t, kids, << >>, parse_color_attr(t))
parse_animate(t, kids) == Built(t, kids, << >>, {})
parse_frame(t, kids) == Built(t, kids, << >>, {})
parse_element_def(t, content) == Built(t, << >>, content, parse_color_attr(t))
parse_tween(t, keyframes) == Built(t, keyframes, << >>, Missing(t, "target", "E014"))
parse_keyframe(t, content) == Node("at", Kept(t), << >>, content, << >>)
parse_text_animate(t, content) == Built(t, << >>, Trim(content), {})

(***************************************************************************)
(* Server content, panels, events and details                              *)
(***************************************************************************)
parse_include(t) == Built(t, << >>, << >>, Missing(t, "name", "E011"))
parse_live(t, kids) ==
    Built(t, kids, << >>, Missing(t, "id", "E011") \cup Missing(t, "endpoint", "E011"))
parse_panel(t, kids) ==
    LET states == {i \in DOMAIN kids : kids[i].tag = "state"}
        name(i) == Attr(kids[i], "name", "")
    IN Built(t, kids, << >>,
             Missing(t, "id", "E011") \cup Missing(t, "state", "E026")
             \cup (IF states = {} /\ ~t.sc THEN {Error("E025")} ELSE {})
             \cup (IF \E i, j \in states : i # j /\ name(i) = name(j) THEN {Error("E024")} ELSE {})
             \cup (IF Has(t, "state") /\ states # {} /\ \A i \in states : name(i) # t.at.state
                   THEN {Error("E026")} ELSE {}))
parse_state(t, kids) ==
    Built(t, kids, << >>, transition_attr(t) \cup Missing(t, "name", "E011"))
parse_on(t) ==
    Built(t, << >>, << >>,
          Unknown(t, {"event", "source", "do", "target", "to", "delay"})
          \cup (IF Has(t, "event") /\ "event" \notin t.bad THEN {} ELSE {Error("E041")})
          \cup (IF Has(t, "do") /\ "do" \notin t.bad THEN {} ELSE {Error("E042")})
          \cup Missing(t, "target", "E011")
          \cup (IF Attr(t, "event", "") = "animation-end" THEN Missing(t, "source", "E043") ELSE {}))
\* Without a summary attribute a first child that is text becomes the summary.
parse_details(t, kids) ==
    LET taken == ~Has(t, "summary") /\ kids # << >> /\ kids[1].tag = "text"
        inline == taken /\ kids[1].kids # << >>
        summary == IF Has(t, "summary") THEN <<t.at.summary>>
                   ELSE IF taken /\ ~inline THEN kids[1].text ELSE << >>
    IN [node |-> Node("details", Kept(t), IF taken THEN Tail(kids) ELSE kids, summary,
                      IF inline THEN <<kids[1]>> ELSE << >>),
        diags |-> Unknown(t, {"summary", "open"})
                  \cup (IF summary = << >> /\ ~inline THEN {Error("E011")} ELSE {})]

(***************************************************************************)
(* parse_element: the body each tag has, where a tag may stand, and the    *)
(* function that builds it                                                 *)
(***************************************************************************)
ChildTags == {"box", "row", "col", "header", "body", "footer", "nav", "text", "heading", "list",
              "item", "link", "select", "form", "table", "thead", "tbody", "tr", "td", "th",
              "animate", "frame", "live", "panel", "state", "details", "pagination"}
RawTags == {"option", "button", "art", "element", "text-animate"}
VoidTags == {"hr", "divider", "spacer", "input", "include", "meta", "style"}
Known == ChildTags \cup RawTags \cup VoidTags \cup {"pre", "tween", "at", "on"}

\* The elements a tag must stand in, and the error where it does not.
Home == [col |-> {"row"}, item |-> {"list"}, option |-> {"select"},
         tr |-> {"thead", "tbody", "table"}, td |-> {"tr"}, th |-> {"tr"},
         frame |-> {"animate"}, at |-> {"tween"}, state |-> {"panel"}]
HomeError == [col |-> "E002", item |-> "E003", option |-> "E004", tr |-> "E005", td |-> "E006",
              th |-> "E006", frame |-> "E007", at |-> "E008", state |-> "E025"]
Misplaced(t, parent) ==
    IF t.name \in DOMAIN Home /\ parent \notin Home[t.name]
    THEN {Error(HomeError[t.name])} ELSE {}

\* The element of tag t whose body is b: children, words, runs or keyframes.
Element(t, b) ==
    LET n == t.name IN
    CASE n = "box" -> parse_box(t, b)          [] n = "row" -> parse_row(t, b)
      [] n = "col" -> parse_col(t, b)          [] n \in {"hr", "divider"} -> parse_hr(t)
      [] n = "spacer" -> parse_spacer(t)       [] n = "nav" -> parse_nav(t, b)
      [] n \in {"header", "body", "footer", "thead", "tbody", "pagination"} -> parse_container(t, b)
      [] n = "text" -> parse_text(t, b)        [] n = "pre" -> parse_pre(t, b)
      [] n = "heading" -> parse_heading(t, b)  [] n = "list" -> parse_list(t, b)
      [] n = "item" -> parse_item(t, b)        [] n = "link" -> parse_link(t, b)
      [] n = "input" -> parse_input(t)         [] n = "select" -> parse_select(t, b)
      [] n = "option" -> parse_option(t, b)    [] n = "button" -> parse_button(t, b)
      [] n = "form" -> parse_form(t, b)        [] n = "art" -> parse_art(t, b)
      [] n = "table" -> parse_table(t, b)      [] n = "tr" -> parse_tr(t, b)
      [] n \in {"td", "th"} -> parse_cell(t, b)
      [] n = "animate" -> parse_animate(t, b)  [] n = "frame" -> parse_frame(t, b)
      [] n = "element" -> parse_element_def(t, b)
      [] n = "tween" -> parse_tween(t, b)      [] n = "text-animate" -> parse_text_animate(t, b)
      [] n = "live" -> parse_live(t, b)        [] n = "include" -> parse_include(t)
      [] n = "panel" -> parse_panel(t, b)      [] n = "state" -> parse_state(t, b)
      [] n = "details" -> parse_details(t, b)  [] n = "on" -> parse_on(t)

\* What a tag contributes to its parent: [meta], [style] and a stray [at]
\* nothing, an unknown tag its children.
Transparent(b) ==
    IF Len(b) < 2 THEN b ELSE <<Node("body", << >>, b, << >>, << >>)>>
Yield(t, b) ==
    IF t.name \in {"meta", "style", "at"} THEN [nodes |-> << >>, diags |-> {}]
    ELSE IF t.name \notin Known
    THEN [nodes |-> IF t.sc THEN << >> ELSE Transparent(b), diags |-> {Warning("W001")}]
    ELSE [nodes |-> <<Element(t, b).node>>, diags |-> Element(t, b).diags]

\* Element::children
Children(n) == IF n.tag \in ChildTags THEN n.kids ELSE << >>
=============================================================================
