------------------------------- MODULE Markup -------------------------------
(***************************************************************************)
(* parse (parser/mod.rs): a token stream becomes a document.  Components   *)
(* are expanded, the recursive-descent parser reads the expanded stream    *)
(* one token at a time, and the page is validated.                         *)
(*                                                                         *)
(* The parser's call stack is the variable `stack': one frame for each     *)
(* parse_children ("children"), collect_styled_runs ("runs"),              *)
(* collect_text_content ("content"), keyframe loop ("tween") and           *)
(* skip_until_close ("skip") in progress.  `deep' marks the frames inside  *)
(* a parse_element, which counts them in `depth'.  A frame that ends       *)
(* delivers its element to the frame below in the same step.  Diagnostics  *)
(* are a set of <<level, code>>.  The parser can run out of memory at any  *)
(* token.                                                                  *)
(***************************************************************************)
EXTENDS Validate

CONSTANTS Streams,         \* token streams, without the final Eof
    MaxDepth, MaxElements, \* MAX_DEPTH, MAX_ELEMENTS
    None

VARIABLES stream, tokens, pos, stack, depth, count, diags, doc, stage
vars == <<stream, tokens, pos, stack, depth, count, diags, doc, stage>>

Stages == {"expand", "root", "parse", "trailing", "validate", "done"}
Frame(kind, tok, deep) ==
    [kind |-> kind, tok |-> tok, kids |-> << >>, text |-> << >>, styles |-> << >>,
     n |-> 1, deep |-> deep]

Init ==
    /\ stream \in Streams
    /\ tokens = << >> /\ pos = 1 /\ stack = << >> /\ depth = 0 /\ count = 0
    /\ diags = {} /\ doc = None /\ stage = "expand"

Current == IF pos <= Len(tokens) THEN tokens[pos] ELSE Eof
Top == Last(stack)
Below == Front(stack)

ExpandComponents ==
    /\ stage = "expand"
    /\ LET r == expand_components(Append(stream, Eof))
       IN tokens' = r.out /\ diags' = r.diags
    /\ stage' = "root"
    /\ UNCHANGED <<stream, pos, stack, depth, count, doc>>

(***************************************************************************)
(* parse_document                                                          *)
(***************************************************************************)
skip_text ==
    /\ stage \in {"root", "trailing"}
    /\ Current.t = "text" /\ Blank(Current.s)
    /\ pos' = pos + 1
    /\ UNCHANGED <<stream, tokens, stack, depth, count, diags, doc, stage>>

parse_page(t, kids) ==
    Built(t, kids, << >>,
          Unknown(t, {"mode", "title", "cols", "rows", "transition", "duration", "scroll",
                      "paginated"})
          \cup transition_attr(t)
          \cup When(t.bad \cap {"mode", "cols", "rows"} # {}, Warning("W002")))

Root ==
    /\ stage = "root" /\ ~(Current.t = "text" /\ Blank(Current.s))
    /\ IF IsOpen(Current, "page") /\ ~Current.sc
       THEN /\ stack' = <<Frame("children", Current, FALSE)>>
            /\ stage' = "parse"
            /\ UNCHANGED diags
       ELSE /\ diags' = diags \cup {Error("E001")}
            /\ stage' = "done"
            /\ UNCHANGED stack
    /\ pos' = pos + 1
    /\ UNCHANGED <<stream, tokens, depth, count, doc>>

Trailing ==
    /\ stage = "trailing" /\ ~(Current.t = "text" /\ Blank(Current.s))
    /\ diags' = diags \cup When(Current.t # "eof", Error("E001"))
    /\ stage' = "validate"
    /\ UNCHANGED <<stream, tokens, pos, stack, depth, count, doc>>

ValidateTriggers ==
    /\ stage = "validate"
    /\ diags' = diags \cup validate_triggers(doc)
    /\ stage' = "done"
    /\ UNCHANGED <<stream, tokens, pos, stack, depth, count, doc>>

\* An allocation that fails leaves no document.
Exhausted ==
    /\ stage \notin {"done"}
    /\ doc' = None /\ stage' = "done"
    /\ diags' = diags \cup {Error("exhausted")}
    /\ UNCHANGED <<stream, tokens, pos, stack, depth, count>>

(***************************************************************************)
(* How frames end                                                          *)
(***************************************************************************)
Nothing == [nodes |-> << >>, diags |-> {}]
\* What frame f contributes to the frame below it.
Result(f) ==
    CASE f.kind = "skip" /\ ~f.deep -> Nothing
      [] f.kind = "content" /\ f.tok.name = "at" ->
           [nodes |-> <<parse_keyframe(f.tok, f.text)>>, diags |-> {}]
      [] f.kind = "content" /\ f.tok.name # "at" -> Yield(f.tok, f.text)
      [] OTHER -> Yield(f.tok, f.kids)

\* The top frame ends, reporting `said'.
Return(said) ==
    IF Len(stack) = 1
    THEN /\ doc' = parse_page(Top.tok, Top.kids).node
         /\ diags' = diags \cup said \cup parse_page(Top.tok, Top.kids).diags
         /\ stack' = << >> /\ stage' = "trailing"
         /\ UNCHANGED depth
    ELSE LET r == Result(Top)
         IN /\ stack' = [Below EXCEPT ![Len(Below)].kids = @ \o r.nodes]
            /\ depth' = IF Top.deep THEN depth - 1 ELSE depth
            /\ diags' = diags \cup said \cup r.diags
            /\ UNCHANGED <<doc, stage>>
Push(f) == stack' = Append(stack, f)
Alter(f) == stack' = [stack EXCEPT ![Len(stack)] = f]
Read == pos' = pos + 1
Parsing(kind) == stage = "parse" /\ Top.kind = kind
Same == UNCHANGED <<stream, tokens>>

\* The end of the stream ends every frame: only a child list reports it.
AtEof ==
    /\ stage = "parse" /\ Current.t = "eof"
    /\ Return(When(Top.kind = "children" /\ Top.tok.name # "page", Warning("W003")))
    /\ UNCHANGED <<pos, count>> /\ Same

(***************************************************************************)
(* parse_children and parse_element                                        *)
(***************************************************************************)
ChildrenText ==
    /\ Parsing("children") /\ Current.t = "text"
    /\ LET keep == IF Top.tok.name \in {"text", "heading", "link", "item"}
                   THEN Current.s # << >> ELSE ~Blank(Current.s)
       IN Alter(IF keep THEN [Top EXCEPT !.kids = Append(@, Plain(Current.s))] ELSE Top)
    /\ Read /\ UNCHANGED <<depth, count, diags, doc, stage>> /\ Same

ChildrenClose ==
    /\ Parsing("children") /\ Current.t = "close"
    /\ IF Current.name = Top.tok.name THEN Return({})
       ELSE diags' = diags \cup {Warning("W004")} /\ UNCHANGED <<stack, depth, doc, stage>>
    /\ Read /\ UNCHANGED count /\ Same

TooMany ==
    /\ Parsing("children") /\ Current.t = "open" /\ count + 1 > MaxElements
    /\ count' = count + 1
    /\ Return({Error("E010")})
    /\ Read /\ Same

\* MUTANT: the depth counted for the refused element is not given back.
TooDeepLeaks ==
    /\ Parsing("children") /\ Current.t = "open" /\ count + 1 <= MaxElements
    /\ depth + 1 > MaxDepth
    /\ count' = count + 1 /\ depth' = depth + 1
    /\ diags' = diags \cup {Error("E009")}
    /\ IF Current.sc THEN UNCHANGED stack ELSE Push(Frame("skip", Current, FALSE))
    /\ Read /\ UNCHANGED <<doc, stage>> /\ Same
TooDeep ==
    /\ Parsing("children") /\ Current.t = "open" /\ count + 1 <= MaxElements
    /\ depth + 1 > MaxDepth
    /\ count' = count + 1
    /\ diags' = diags \cup {Error("E009")}
    /\ IF Current.sc THEN UNCHANGED stack ELSE Push(Frame("skip", Current, FALSE))
    /\ Read /\ UNCHANGED <<depth, doc, stage>> /\ Same

\* The loop that reads the body of tag t.
BodyKind(t) ==
    CASE t.name \in RawTags -> "content" [] t.name = "pre" -> "runs"
      [] t.name = "tween" -> "tween"     [] t.name \in {"at", "on"} -> "skip"
      [] OTHER -> "children"

parse_element ==
    /\ Parsing("children") /\ Current.t = "open" /\ count + 1 <= MaxElements
    /\ depth + 1 <= MaxDepth
    /\ count' = count + 1
    /\ LET t == Current
           said == diags \cup Misplaced(t, Top.tok.name)
       IN IF t.sc \/ t.name \in VoidTags
          THEN /\ Alter([Top EXCEPT !.kids = @ \o Yield(t, << >>).nodes])
               /\ diags' = said \cup Yield(t, << >>).diags
               /\ UNCHANGED depth
          ELSE /\ Push(Frame(BodyKind(t), t, TRUE))
               /\ diags' = said \cup When(t.name = "on", Warning("W005"))
               /\ depth' = depth + 1
    /\ Read /\ UNCHANGED <<doc, stage>> /\ Same

(***************************************************************************)
(* skip_until_close, collect_text_content, the keyframes of a tween        *)
(***************************************************************************)
\* MUTANT: the first close tag of the name ends the skipping.
SkipFirst ==
    /\ Parsing("skip") /\ Current.t # "eof"
    /\ IF IsClose(Current, Top.tok.name) THEN Return({})
       ELSE UNCHANGED <<stack, depth, diags, doc, stage>>
    /\ Read /\ UNCHANGED count /\ Same
Skip ==
    /\ Parsing("skip") /\ Current.t # "eof"
    /\ IF IsClose(Current, Top.tok.name) /\ Top.n = 1 THEN Return({})
       ELSE /\ Alter([Top EXCEPT !.n =
                        IF IsClose(Current, Top.tok.name) THEN @ - 1
                        ELSE IF IsOpen(Current, Top.tok.name) /\ ~Current.sc THEN @ + 1 ELSE @])
            /\ UNCHANGED <<depth, diags, doc, stage>>
    /\ Read /\ UNCHANGED count /\ Same

Content ==
    /\ Parsing("content") /\ Current.t # "eof"
    /\ CASE IsClose(Current, Top.tok.name) -> Return({})
         [] Current.t = "text" -> /\ Alter([Top EXCEPT !.text = @ \o Current.s])
                                  /\ UNCHANGED <<depth, diags, doc, stage>>
         [] Current.t = "open" /\ ~Current.sc -> /\ Push(Frame("skip", Current, FALSE))
                                                 /\ UNCHANGED <<depth, diags, doc, stage>>
         [] OTHER -> UNCHANGED <<stack, depth, diags, doc, stage>>
    /\ Read /\ UNCHANGED count /\ Same

Tween ==
    /\ Parsing("tween") /\ Current.t # "eof"
    /\ CASE IsClose(Current, "tween") -> Return({})
         [] IsOpen(Current, "at") /\ Current.sc ->
              /\ Alter([Top EXCEPT !.kids = Append(@, parse_keyframe(Current, << >>))])
              /\ UNCHANGED <<depth, diags, doc, stage>>
         [] Current.t = "open" /\ ~Current.sc ->
              /\ Push(Frame(IF Current.name = "at" THEN "content" ELSE "skip", Current, FALSE))
              /\ UNCHANGED <<depth, diags, doc, stage>>
         [] OTHER -> UNCHANGED <<stack, depth, diags, doc, stage>>
    /\ Read /\ UNCHANGED count /\ Same

(***************************************************************************)
(* collect_styled_runs                                                     *)
(***************************************************************************)
NoStyle == << >>
Style(styles) == IF styles = << >> THEN NoStyle ELSE Last(styles)
Run(style, s) == Node("run", style, << >>, s, << >>)
\* same_style: words in the style of the run before them join it.
AddRun(runs, style, s) ==
    IF runs # << >> /\ Last(runs).at = style
    THEN [runs EXCEPT ![Len(runs)].text = @ \o s]
    ELSE Append(runs, Run(style, s))
\* A nested [text] adds its attributes to the style around it.
Inherit(t, style) ==
    [a \in DOMAIN style \cup (DOMAIN Kept(t) \cap StyleAttrs) |->
        IF a \in DOMAIN Kept(t) THEN t.at[a] ELSE style[a]]

Runs ==
    /\ Parsing("runs") /\ Current.t # "eof"
    /\ CASE IsClose(Current, Top.tok.name) /\ Top.styles = << >> -> Return({})
         [] Current.t = "close" /\ ~(IsClose(Current, Top.tok.name) /\ Top.styles = << >>) ->
              /\ Alter([Top EXCEPT !.styles = IF @ = << >> THEN @ ELSE Front(@)])
              /\ UNCHANGED <<depth, diags, doc, stage>>
         [] Current.t = "text" ->
              /\ Alter([Top EXCEPT !.kids = AddRun(@, Style(Top.styles), Current.s)])
              /\ UNCHANGED <<depth, diags, doc, stage>>
         [] IsOpen(Current, "text") ->
              /\ Alter([Top EXCEPT !.styles = IF Current.sc THEN @
                                              ELSE Append(@, Inherit(Current, Style(@)))])
              /\ diags' = diags \cup Unknown(Current, StyleAttrs) \cup parse_color_attr(Current)
              /\ UNCHANGED <<depth, doc, stage>>
         [] Current.t = "open" /\ Current.name # "text" ->
              /\ diags' = diags \cup {Error("E020")}
              /\ IF Current.sc THEN UNCHANGED stack ELSE Push(Frame("skip", Current, FALSE))
              /\ UNCHANGED <<depth, doc, stage>>
    /\ Read /\ UNCHANGED count /\ Same

Next ==
    \/ ExpandComponents \/ skip_text \/ Root \/ Trailing \/ ValidateTriggers \/ Exhausted
    \/ AtEof \/ ChildrenText \/ ChildrenClose \/ TooMany \/ TooDeep \/ parse_element
    \/ Skip \/ Content \/ Tween \/ Runs

Spec == Init /\ [][Next]_vars

(***************************************************************************)
(* The grammar: what a stream of properly nested tags denotes              *)
(***************************************************************************)
EndOf(ts) == Matching(ts, ts[1].name, 2, 1)
After(ts, i) == SubSeq(ts, i + 1, Len(ts))

\* Tags nest, and a void tag is written self-closing.
RECURSIVE Nested(_)
Nested(ts) ==
    \/ ts = << >>
    \/ ts[1].t = "text" /\ Nested(Tail(ts))
    \/ ts[1].t = "open" /\ ts[1].sc /\ Nested(Tail(ts))
    \/ /\ ts[1].t = "open" /\ ~ts[1].sc /\ ts[1].name \notin VoidTags
       /\ EndOf(ts) <= Len(ts)
       /\ Nested(SubSeq(ts, 2, EndOf(ts) - 1)) /\ Nested(After(ts, EndOf(ts)))

RECURSIVE Words(_), RunsOf(_, _, _), KeyframesOf(_), Tree(_, _)
Words(ts) ==
    IF ts = << >> THEN << >>
    ELSE IF ts[1].t = "text" THEN ts[1].s \o Words(Tail(ts))
    ELSE Words(After(ts, IF ts[1].sc THEN 1 ELSE EndOf(ts)))
RunsOf(ts, style, runs) ==
    IF ts = << >> THEN runs
    ELSE IF ts[1].t = "text" THEN RunsOf(Tail(ts), style, AddRun(runs, style, ts[1].s))
    ELSE IF ts[1].sc THEN RunsOf(Tail(ts), style, runs)
    ELSE LET inner == SubSeq(ts, 2, EndOf(ts) - 1)
         IN RunsOf(After(ts, EndOf(ts)), style,
                   IF ts[1].name = "text" THEN RunsOf(inner, Inherit(ts[1], style), runs) ELSE runs)
KeyframesOf(ts) ==
    IF ts = << >> THEN << >>
    ELSE IF ts[1].t = "text" THEN KeyframesOf(Tail(ts))
    ELSE LET e == IF ts[1].sc THEN 1 ELSE EndOf(ts)
         IN (IF ts[1].name # "at" THEN << >>
             ELSE <<parse_keyframe(ts[1], IF ts[1].sc THEN << >> ELSE Words(SubSeq(ts, 2, e - 1)))>>)
            \o KeyframesOf(After(ts, e))
Tree(ts, parent) ==
    IF ts = << >> THEN << >>
    ELSE IF ts[1].t = "text"
    THEN (IF \/ ts[1].s = << >>
             \/ Blank(ts[1].s) /\ parent \notin {"text", "heading", "link", "item"}
          THEN << >> ELSE <<Plain(ts[1].s)>>) \o Tree(Tail(ts), parent)
    ELSE IF ts[1].sc THEN Yield(ts[1], << >>).nodes \o Tree(Tail(ts), parent)
    ELSE LET t == ts[1]
             inner == SubSeq(ts, 2, EndOf(ts) - 1)
             body == CASE BodyKind(t) = "children" -> Tree(inner, t.name)
                       [] BodyKind(t) = "content" -> Words(inner)
                       [] BodyKind(t) = "runs" -> RunsOf(inner, NoStyle, << >>)
                       [] BodyKind(t) = "tween" -> KeyframesOf(inner)
                       [] OTHER -> << >>
         IN Yield(t, body).nodes \o Tree(After(ts, EndOf(ts)), parent)

(***************************************************************************)
(* Properties                                                              *)
(***************************************************************************)
Codes == {d[2] : d \in diags}
\* The expanded stream is one properly nested page.
IsPage(ts) ==
    /\ ts # << >> /\ Last(ts).t = "eof"
    /\ Len(ts) > 1 /\ IsOpen(ts[1], "page") /\ ~ts[1].sc
    /\ EndOf(ts) = Len(ts) - 1 /\ Nested(SubSeq(ts, 2, Len(ts) - 2))

(* What parse_document makes of a properly nested page within the limits   *)
(* is the tree its tags spell, and no tag is reported missing or stray:    *)
(* the element frames, the skipping and the collecting loops each stop at  *)
(* their own close tag, however same-named tags nest.                      *)
GrammarParsed ==
    stage = "done" /\ IsPage(tokens) /\ Codes \cap {"E009", "E010", "exhausted"} = {} =>
        /\ doc = parse_page(tokens[1], Tree(SubSeq(tokens, 2, Len(tokens) - 2), "page")).node
        /\ Codes \cap {"W003", "W004"} = {}

RECURSIVE Height(_), Size(_)
Height(kids) == IF kids = << >> THEN 0 ELSE Max({1 + Height(Children(k)) : k \in Members(kids)})
Size(kids) == FoldLeft(LAMBDA n, k : n + (IF k.at = << >> /\ k.tag = "text" /\ k.kids = << >>
                                          THEN 0 ELSE 1) + Size(Children(k)), 0, kids)

(* MAX_DEPTH, MAX_ELEMENTS and the expansion limit bound what any stream   *)
(* can make of the parser, also after an element is refused: `depth' is    *)
(* the number of element frames on the stack, a document's elements nest   *)
(* at most MaxDepth deep (a text leaf below the deepest), and expansion    *)
(* adds at most MaxExpanded tokens to a stream it still works on.          *)
Bounded ==
    /\ depth = Len(SelectSeq(stack, LAMBDA f : f.deep)) /\ depth <= MaxDepth
    /\ Len(tokens) <= MaxExpanded + Max({MaxExpanded, Len(stream) + 1})
    /\ doc # None => Height(doc.kids) <= MaxDepth + 1 /\ Size(doc.kids) <= MaxElements

\* The elements of a page in document order: all of them, and those that do not
\* stand in the inline summary of a [details].
RECURSIVE Everything(_), Outside(_)
Everything(kids) ==
    FoldLeft(LAMBDA all, k : Append(all, k) \o Everything(k.lead \o k.kids), << >>, kids)
Outside(kids) == FoldLeft(LAMBDA all, k : Append(all, k) \o Outside(k.kids), << >>, kids)

\* What element n refers to is there: of panels with one id the last (the one
\* Scene::find_by_aml_id gives the runtime) has the state, what a link waits for
\* is an animation, the source and the target of a binding can be addressed.
Addressable == {"animate", "panel", "live", "element", "link", "input"}
Named(all, id, tags) == SelectSeq(all, LAMBDA m : m.tag \in tags /\ Of(m, "id", "") = id)
IsThere(all, id, tags) == Named(all, id, tags) # << >>
HasState(all, id, s) ==
    /\ IsThere(all, id, {"panel"})
    /\ \E k \in Members(Last(Named(all, id, {"panel"})).kids) : k.tag = "state" /\ Of(k, "name", "") = s
Resolves(n, all) ==
    LET States == Members(Of(n, "states", << >>)) \cup (IF "to" \in DOMAIN n.at THEN {n.at.to} ELSE {})
    IN /\ n.tag = "button" /\ Of(n, "action", "submit") \in {"toggle", "set"} /\ "target" \in DOMAIN n.at =>
             IsThere(all, n.at.target, {"panel"}) /\ \A s \in States : HasState(all, n.at.target, s)
       /\ n.tag \in {"button", "input", "link"} /\ "trigger" \in DOMAIN n.at =>
             HasState(all, n.at.trigger.panel, n.at.trigger.state)
       /\ n.tag = "link" /\ "defer" \in DOMAIN n.at => IsThere(all, n.at.defer, {"animate"})
       /\ n.tag = "on" =>
             /\ "source" \in DOMAIN n.at => IsThere(all, n.at.source, Addressable)
             /\ "target" \in DOMAIN n.at => IsThere(all, n.at.target, Addressable)
             /\ Of(n, "do", "") = "set" /\ IsThere(all, Of(n, "target", ""), {"panel"}) =>
                   \A s \in States : HasState(all, n.at.target, s)
Accepted == stage = "done" /\ doc # None /\ {d \in diags : d[1] = "error"} = {}

(* On a page that parse reports no error about, no element outside of the  *)
(* inline summary of a [details] has a dangling reference: the target and  *)
(* the states of a button, the triggers of buttons, inputs and links, the  *)
(* animation a link waits for, the source, target and state of an [on].    *)
(* The walk is the tree's own, not the one of the validator.               *)
ReferencesResolve ==
    Accepted => \A n \in Members(Outside(doc.kids)) : Resolves(n, Outside(doc.kids))
(* Does not hold (README, known divergences): the same of every element.   *)
(* No walk of the validator enters an inline summary.                      *)
SummariesResolve ==
    Accepted => \A n \in Members(Everything(doc.kids)) : Resolves(n, Everything(doc.kids))
=============================================================================
