----------------------------- MODULE Components -----------------------------
(***************************************************************************)
(* Component expansion (parser/components.rs): [def] blocks are taken out  *)
(* of the token stream and their usages replaced by the bodies, before the *)
(* stream is parsed.                                                       *)
(*                                                                         *)
(* A token is [t, name, at, bad, sc] for an open tag (`at' its attributes, *)
(* `bad' the ones whose value does not parse, `sc' self-closing),          *)
(* [t, name] for a close tag, [t, s] for text and [t] for the end.  A text *)
(* is a sequence of words; Ref maps a word that is a $reference to the     *)
(* attribute it names, "$$" is the escape.  A [def] carries the lists its  *)
(* attrs= and slots= strings spell: attrs a sequence of [n, d] with d the  *)
(* default or NoDefault.                                                   *)
(***************************************************************************)
EXTENDS Naturals, SequencesExt

CONSTANTS Ref, NoDefault,
    MaxDefs, MaxUsagesPer, MaxTotalUsages, MaxExpanded,   \* limits of the code
    MaxPasses,       \* rounds of expand_usages (four in the code)
    BUILTIN_ELEMENTS

Open(n, at, sc) == [t |-> "open", name |-> n, at |-> at, bad |-> {}, sc |-> sc]
Close(n) == [t |-> "close", name |-> n]
Text(s) == [t |-> "text", s |-> s]
Eof == [t |-> "eof"]

IsOpen(k, n)  == k.t = "open" /\ k.name = n
IsClose(k, n) == k.t = "close" /\ k.name = n
Blank(s) == \A i \in DOMAIN s : s[i] = "blank"
Attr(k, a, default) == IF a \in DOMAIN k.at THEN k.at[a] ELSE default

Error(c) == <<"error", c>>
Warning(c) == <<"warning", c>>

\* The index of the close tag of `n' that ends a body opened before index i
\* at depth d, or Len(ts) + 1: nested tags of the same name are counted.
RECURSIVE Matching(_, _, _, _)
Matching(ts, n, i, d) ==
    IF i > Len(ts) THEN i
    ELSE IF IsClose(ts[i], n)
         THEN IF d = 1 THEN i ELSE Matching(ts, n, i + 1, d - 1)
    ELSE Matching(ts, n, i + 1, IF IsOpen(ts[i], n) THEN d + 1 ELSE d)

\* The first close tag of n from index i on, nesting not counted.
RECURSIVE FirstClose(_, _, _)
FirstClose(ts, n, i) ==
    IF i > Len(ts) \/ IsClose(ts[i], n) THEN i ELSE FirstClose(ts, n, i + 1)

(***************************************************************************)
(* extract_definitions                                                     *)
(***************************************************************************)
\* The diagnostics of a definition `name' with this body after `defs'.
DefDiagnostics(name, body, defs) ==
    LET opens == {body[i].name : i \in {j \in DOMAIN body : body[j].t = "open"}}
        known == {defs[i].name : i \in DOMAIN defs}
    IN (IF name \in BUILTIN_ELEMENTS THEN {Error("E037")} ELSE {})
       \cup (IF name \in known THEN {Error("E036")} ELSE {})
       \cup (IF Len(defs) >= MaxDefs THEN {Error("E038")} ELSE {})
       \cup (IF name \in opens THEN {Error("E031")} ELSE {})
       \cup (IF "include" \in opens THEN {Error("E052")} ELSE {})
       \cup (IF opens \cap known # {} THEN {Error("E030")} ELSE {})

RECURSIVE ExtractFrom(_, _, _, _, _)
ExtractFrom(ts, i, defs, rest, diags) ==
    IF i > Len(ts) THEN [defs |-> defs, rest |-> rest, diags |-> diags]
    ELSE IF ~IsOpen(ts[i], "def") THEN ExtractFrom(ts, i + 1, defs, Append(rest, ts[i]), diags)
    ELSE IF ts[i].sc THEN ExtractFrom(ts, i + 1, defs, rest, diags \cup {Warning("W001")})
    ELSE IF "name" \notin DOMAIN ts[i].at
         THEN ExtractFrom(ts, FirstClose(ts, "def", i + 1) + 1, defs, rest,
                          diags \cup {Error("E011")})
    ELSE LET e == Matching(ts, "def", i + 1, 1)
             body == SubSeq(ts, i + 1, e - 1)
             d == [name |-> ts[i].at.name, attrs |-> Attr(ts[i], "attrs", << >>),
                   slots |-> Attr(ts[i], "slots", << >>), body |-> body]
         IN ExtractFrom(ts, e + 1, Append(defs, d), rest,
                        diags \cup DefDiagnostics(d.name, body, defs))
extract_definitions(ts) == ExtractFrom(ts, 1, << >>, << >>, {})

(***************************************************************************)
(* One usage                                                               *)
(***************************************************************************)
\* What the usage gives an attribute, or else the definition's default.
build_attr_map(d, k) ==
    LET declared == {d.attrs[i].n : i \in DOMAIN d.attrs}
        given == declared \cap DOMAIN k.at
        default(n) == d.attrs[CHOOSE i \in DOMAIN d.attrs : d.attrs[i].n = n].d
    IN [n \in {m \in declared : m \in given \/ default(m) # NoDefault} |->
            IF n \in given THEN k.at[n] ELSE default(n)]
UsageDiagnostics(d, k) ==
    LET declared == {d.attrs[i].n : i \in DOMAIN d.attrs}
    IN (IF DOMAIN k.at \subseteq declared THEN {} ELSE {Error("E034")})
       \cup (IF declared \subseteq DOMAIN build_attr_map(d, k) THEN {} ELSE {Error("E033")})

\* The tokens of the usage's children that no [slot-content] wraps, and the
\* content of each named slot: a later [slot-content] replaces an earlier.
RECURSIVE SlotsFrom(_, _, _, _, _)
SlotsFrom(ts, i, tag, named, plain) ==
    IF i > Len(ts) THEN [pos |-> i, named |-> named, plain |-> plain]
    ELSE IF IsClose(ts[i], tag) THEN [pos |-> i + 1, named |-> named, plain |-> plain]
    ELSE IF ~IsOpen(ts[i], "slot-content") THEN SlotsFrom(ts, i + 1, tag, named, Append(plain, ts[i]))
    ELSE IF ts[i].sc THEN SlotsFrom(ts, i + 1, tag, named, plain)
    ELSE LET e == Matching(ts, "slot-content", i + 1, 1)
             s == Attr(ts[i], "name", "")
         IN SlotsFrom(ts, e + 1, tag,
                      [x \in DOMAIN named \cup {s} |->
                          IF x = s THEN SubSeq(ts, i + 1, e - 1) ELSE named[x]], plain)

\* Loose content goes to the first slot unless it is blank or that slot was
\* named.
collect_slot_content(ts, i, d) ==
    LET r == SlotsFrom(ts, i, d.name, << >>, << >>)
        loose == /\ \E j \in DOMAIN r.plain : r.plain[j].t # "text" \/ ~Blank(r.plain[j].s)
                 /\ d.slots # << >> /\ Head(d.slots) \notin DOMAIN r.named
    IN [pos |-> r.pos,
        slots |-> IF ~loose THEN r.named
                  ELSE [x \in DOMAIN r.named \cup {Head(d.slots)} |->
                          IF x = Head(d.slots) THEN r.plain ELSE r.named[x]]]

substitute_attrs(s, attrs) ==
    [i \in DOMAIN s |-> IF s[i] = "$$" THEN "$"
                        ELSE IF s[i] \in DOMAIN Ref /\ Ref[s[i]] \in DOMAIN attrs
                        THEN attrs[Ref[s[i]]] ELSE s[i]]
\* An attribute value of a body is one word.
substitute_attr_value(at, attrs) ==
    [a \in DOMAIN at |-> IF at[a] \in DOMAIN Ref /\ Ref[at[a]] \in DOMAIN attrs
                         THEN attrs[Ref[at[a]]] ELSE at[a]]

RECURSIVE BodyFrom(_, _, _, _)
BodyFrom(b, i, attrs, slots) ==
    IF i > Len(b) THEN << >>
    ELSE LET k == b[i]
             s == Attr(k, "name", "")
             e == Matching(b, "slot", i + 1, 1)
         IN CASE IsOpen(k, "slot") /\ s \in DOMAIN slots ->
                   slots[s] \o BodyFrom(b, i + 1, attrs, slots)
              [] IsOpen(k, "slot") /\ s \notin DOMAIN slots /\ ~k.sc ->
                   SubSeq(b, i + 1, e - 1) \o BodyFrom(b, e + 1, attrs, slots)
              [] IsOpen(k, "slot") /\ s \notin DOMAIN slots /\ k.sc ->
                   BodyFrom(b, i + 1, attrs, slots)
              [] IsClose(k, "slot") -> BodyFrom(b, i + 1, attrs, slots)
              [] k.t = "text" -> <<Text(substitute_attrs(k.s, attrs))>>
                                 \o BodyFrom(b, i + 1, attrs, slots)
              [] k.t = "open" /\ k.name # "slot" ->
                   <<[k EXCEPT !.at = substitute_attr_value(@, attrs)]>>
                   \o BodyFrom(b, i + 1, attrs, slots)
              [] OTHER -> <<k>> \o BodyFrom(b, i + 1, attrs, slots)
expand_body(b, attrs, slots) == BodyFrom(b, 1, attrs, slots)

(***************************************************************************)
(* expand_usages                                                           *)
(***************************************************************************)
IndexOf(defs, n) == SelectInSeq(defs, LAMBDA d : d.name = n)
Names(defs) == {defs[i].name : i \in DOMAIN defs}

\* MUTANT: the limit looks at one expansion alone.
FitsAlone(out, expanded) == Len(expanded) <= MaxExpanded
Fits(out, expanded) == Len(out) + Len(expanded) <= MaxExpanded

\* A pass stops where a limit is exceeded, what follows being dropped.
RECURSIVE PassFrom(_, _, _, _, _, _)
PassFrom(ts, i, defs, used, out, diags) ==
    IF i > Len(ts) THEN [out |-> out, diags |-> diags]
    ELSE IF ts[i].t = "close" /\ ts[i].name \in Names(defs)
         THEN PassFrom(ts, i + 1, defs, used, out, diags)
    ELSE IF ~(ts[i].t = "open" /\ ts[i].name \in Names(defs))
         THEN PassFrom(ts, i + 1, defs, used, Append(out, ts[i]), diags)
    ELSE LET x == IndexOf(defs, ts[i].name)
             d == defs[x]
             now == [used EXCEPT ![x] = @ + 1]
             r == IF ts[i].sc THEN [pos |-> i + 1, slots |-> << >>]
                  ELSE collect_slot_content(ts, i + 1, d)
             body == expand_body(d.body, build_attr_map(d, ts[i]), r.slots)
             said == diags \cup UsageDiagnostics(d, ts[i])
         IN CASE now[x] > MaxUsagesPer -> [out |-> out, diags |-> diags \cup {Error("E039")}]
              [] now[x] <= MaxUsagesPer /\ FoldFunction(+, 0, now) > MaxTotalUsages ->
                   [out |-> out, diags |-> diags \cup {Error("E040")}]
              [] OTHER -> IF ~Fits(out, body) THEN [out |-> out, diags |-> said \cup {Error("E041")}]
                          ELSE PassFrom(ts, r.pos, defs, now, out \o body, said)
expand_usages_once(ts, defs) == PassFrom(ts, 1, defs, [x \in DOMAIN defs |-> 0], << >>, {})

RECURSIVE Passes(_, _, _, _)
Passes(ts, defs, n, diags) ==
    IF \/ n = 0 \/ Len(ts) > MaxExpanded
       \/ ~\E i \in DOMAIN ts : ts[i].t = "open" /\ ts[i].name \in Names(defs)
    THEN [out |-> ts, diags |-> diags]
    ELSE LET r == expand_usages_once(ts, defs)
         IN Passes(r.out, defs, n - 1, diags \cup r.diags)
expand_usages(ts, defs) == Passes(ts, defs, MaxPasses, {})

\* The expanded stream and the diagnostics.
expand_components(ts) ==
    LET x == extract_definitions(ts)
        r == expand_usages(x.rest, x.defs)
    IN IF x.defs = << >> THEN [out |-> x.rest, diags |-> x.diags]
       ELSE [out |-> r.out, diags |-> x.diags \cup r.diags]
=============================================================================
