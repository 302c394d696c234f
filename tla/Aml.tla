-------------------------------- MODULE Aml --------------------------------
(***************************************************************************)
(* The road of AML text from a page on the server to tokens on the client: *)
(* the sanitizer (scanner/escape.rs), the scanner (scanner/mod.rs), the    *)
(* include pass (dustnet-server/src/include.rs) and the serializer         *)
(* (serialize.rs).                                                         *)
(*                                                                         *)
(* A document is a sequence of character classes: "[" "]" "/" "=" "q" (a   *)
(* double quote) "bs" (a backslash), the blanks "sp" "nl" "tab", "A" and   *)
(* "a" for a letter and its lower case, "n" and "t" for the two letters    *)
(* that are escapes, "$" for any other printable character, the terminal   *)
(* controls "esc" "bel" "cr", the C1 controls "csi", "osc" (any string     *)
(* introducer) and "st", "ctl" for every other control and "bidi" for the  *)
(* deceptive format characters.  "bad" is a byte that is not UTF-8.  The   *)
(* tag name `include' is the one-letter name <<"n">>, its attribute        *)
(* `name' <<"a">>.                                                         *)
(***************************************************************************)
EXTENDS Naturals, SequencesExt

CONSTANTS
    Pages,          \* the documents a site may hold
    Generated,      \* what the include handler may return: token sequences
    Claimed,        \* the include names a handler claims
    MaxInput, MaxTokens, MaxValue, MaxText   \* the scanner's limits

VARIABLES
    page,       \* the stored document
    reply,      \* the tokens the handler returns for a claimed name
    stage,      \* where the document is
    chars, pos, count,   \* the Scanner
    tokens,     \* what scan_all has collected
    authored,   \* the tokens of the stored page, when the server scanned it
    wire,       \* the document sent
    error       \* a ScanError, a refusal of the include pass, or "none"

vars == <<page, reply, stage, chars, pos, count, tokens, authored, wire, error>>

INCLUDE_TAG == <<"n">>
NAME_ATTR   == <<"a">>

At(s, i) == IF i \in DOMAIN s THEN s[i] ELSE "end"
Blank(c) == c \in {"sp", "nl", "tab"}
NameChar(c) == c \in {"A", "a", "n", "t"}
Lower(c) == IF c = "A" THEN "a" ELSE c

(***************************************************************************)
(* The sanitizer                                                           *)
(***************************************************************************)
\* 0x40-0x7E ends a CSI sequence.
FinalByte(c) == NameChar(c) \/ c \in {"[", "]", "bs"}

RECURSIVE SkipCsi(_, _)
SkipCsi(s, i) ==
    IF i > Len(s) THEN i
    ELSE IF FinalByte(s[i]) THEN i + 1 ELSE SkipCsi(s, i + 1)

RECURSIVE skip_until_st_or_bel(_, _)
skip_until_st_or_bel(s, i) ==
    IF i > Len(s) THEN i
    ELSE IF s[i] \in {"bel", "st"} THEN i + 1
    ELSE IF s[i] = "esc" /\ At(s, i + 1) = "bs" THEN i + 2
    ELSE skip_until_st_or_bel(s, i + 1)

\* "]" stands for the string introducers ] P ^ _ after ESC.
skip_escape_sequence(s, i) ==
    CASE At(s, i) = "end" -> Len(s) + 1
      [] At(s, i) = "["   -> SkipCsi(s, i + 1)
      [] At(s, i) = "]"   -> skip_until_st_or_bel(s, i + 1)
      [] OTHER            -> i + 1

RECURSIVE SanitizeFrom(_, _)
SanitizeFrom(s, i) ==
    IF i > Len(s) THEN << >>
    ELSE CASE s[i] = "cr"  -> (IF At(s, i + 1) = "nl" THEN << >> ELSE <<"nl">>)
                                \o SanitizeFrom(s, i + 1)
           [] s[i] = "esc" -> SanitizeFrom(s, skip_escape_sequence(s, i + 1))
           [] s[i] = "csi" -> SanitizeFrom(s, SkipCsi(s, i + 1))
           [] s[i] = "osc" -> SanitizeFrom(s, skip_until_st_or_bel(s, i + 1))
           [] s[i] \in {"bel", "st", "ctl", "bidi"} -> SanitizeFrom(s, i + 1)
           [] OTHER -> <<s[i]>> \o SanitizeFrom(s, i + 1)

sanitize_into(s) == SanitizeFrom(s, 1)

(***************************************************************************)
(* The scanner: each operator takes the sanitized text and a position and  *)
(* returns [pos, ...] with what it read, or [err].                         *)
(***************************************************************************)
Text(s) == [t |-> "text", s |-> s]
OpenTag(n, as, sc) == [t |-> "open", name |-> n, attributes |-> as, self_closing |-> sc]
CloseTag(n) == [t |-> "close", name |-> n]
Eof == [t |-> "eof"]

Attribute(n, kind, v) == [name |-> n, kind |-> kind, value |-> v]

Fail(e) == [err |-> e]
Failed(r) == "err" \in DOMAIN r

RECURSIVE skip_whitespace(_, _)
skip_whitespace(s, i) == IF Blank(At(s, i)) THEN skip_whitespace(s, i + 1) ELSE i

RECURSIVE NameEnd(_, _)
NameEnd(s, i) == IF NameChar(At(s, i)) THEN NameEnd(s, i + 1) ELSE i
\* scan_tag_name and scan_attribute_name: the characters read, lowercased.
scan_name(s, i) == [k \in 1..(NameEnd(s, i) - i) |-> Lower(s[i + k - 1])]

RECURSIVE TextFrom(_, _, _)
TextFrom(s, i, got) ==
    IF i > Len(s) \/ (s[i] = "[" /\ At(s, i + 1) # "[")
    THEN [pos |-> i, tok |-> Text(got)]
    ELSE IF Len(got) = MaxText THEN Fail("TextTooLong")
    ELSE TextFrom(s, i + (IF s[i] \in {"[", "]"} /\ At(s, i + 1) = s[i] THEN 2 ELSE 1),
                  Append(got, s[i]))
scan_text(s, i) == TextFrom(s, i, << >>)

Unescape(c) ==
    CASE c = "q" -> <<"q">> [] c = "bs" -> <<"bs">> [] c = "n" -> <<"nl">>
      [] c = "t" -> <<"tab">> [] OTHER -> <<"bs", c>>

RECURSIVE QuotedFrom(_, _, _)
QuotedFrom(s, i, got) ==
    IF Len(got) > MaxValue THEN Fail("AttributeValueTooLong")
    ELSE CASE At(s, i) = "end" -> Fail("UnterminatedString")
           [] At(s, i) = "q"   -> [pos |-> i + 1, value |-> got]
           [] At(s, i) = "bs"  ->
                IF At(s, i + 1) = "end" THEN Fail("UnterminatedString")
                ELSE QuotedFrom(s, i + 2, got \o Unescape(s[i + 1]))
           [] OTHER -> QuotedFrom(s, i + 1, Append(got, s[i]))
\* Called on the opening quote.
scan_quoted_string(s, i) == QuotedFrom(s, i + 1, << >>)

RECURSIVE UnquotedFrom(_, _, _)
UnquotedFrom(s, i, got) ==
    IF Len(got) > MaxValue THEN Fail("AttributeValueTooLong")
    ELSE IF At(s, i) \in {"end", "]", "/"} \/ Blank(At(s, i))
    THEN [pos |-> i, value |-> got]
    ELSE UnquotedFrom(s, i + 1, Append(got, s[i]))
scan_unquoted_value(s, i) == UnquotedFrom(s, i, << >>)

\* The attribute read as a sequence of at most one, a character being
\* skipped when no name starts here.
scan_attribute(s, i) ==
    LET e == NameEnd(s, i)
        name == scan_name(s, i)
        quoted == At(s, e + 1) = "q"
        v == IF quoted THEN scan_quoted_string(s, e + 1) ELSE scan_unquoted_value(s, e + 1)
    IN IF e = i THEN [pos |-> i + 1, attr |-> << >>]
       ELSE IF At(s, e) # "=" THEN [pos |-> e, attr |-> <<Attribute(name, "flag", << >>)>>]
       ELSE IF Failed(v) THEN v
       ELSE [pos |-> v.pos,
             attr |-> <<Attribute(name, IF quoted THEN "string" ELSE "ident", v.value)>>]

RECURSIVE AttributesFrom(_, _, _, _)
AttributesFrom(s, at, name, got) ==
    LET i == skip_whitespace(s, at)
        a == scan_attribute(s, i)
    IN CASE At(s, i) = "end" -> Fail("UnterminatedTag")
         [] At(s, i) = "]" -> [pos |-> i + 1, tok |-> OpenTag(name, got, FALSE)]
         [] At(s, i) = "/" /\ At(s, i + 1) = "]" ->
              [pos |-> i + 2, tok |-> OpenTag(name, got, TRUE)]
         [] OTHER -> IF Failed(a) THEN a ELSE AttributesFrom(s, a.pos, name, got \o a.attr)

scan_open_tag(s, at) ==
    LET i == skip_whitespace(s, at)
    IN IF NameEnd(s, i) = i THEN Fail("InvalidTagName")
       ELSE AttributesFrom(s, NameEnd(s, i), scan_name(s, i), << >>)

scan_close_tag(s, at) ==
    LET i == skip_whitespace(s, at)
        e == skip_whitespace(s, NameEnd(s, i))
    IN IF NameEnd(s, i) = i THEN Fail("InvalidTagName")
       ELSE IF At(s, e) # "]" THEN Fail("UnterminatedTag")
       ELSE [pos |-> e + 1, tok |-> CloseTag(scan_name(s, i))]

scan_tag_or_escape(s, i) ==
    IF At(s, i + 1) = "/" THEN scan_close_tag(s, i + 2) ELSE scan_open_tag(s, i + 1)

\* next_token for a scanner that is not at its end.
next_token(s, i) ==
    IF s[i] = "[" /\ At(s, i + 1) # "[" THEN scan_tag_or_escape(s, i) ELSE scan_text(s, i)

(***************************************************************************)
(* The serializer                                                          *)
(***************************************************************************)
is_valid_name(n) == n # << >> /\ \A i \in DOMAIN n : NameChar(n[i]) /\ Lower(n[i]) = n[i]

Escaped(s, esc) == FlattenSeq([i \in DOMAIN s |->
                          IF s[i] \in DOMAIN esc THEN esc[s[i]] ELSE <<s[i]>>])
TextEscapes == [c \in {"[", "]"} |-> <<c, c>>]
ValueEscapes == [c \in {"bs", "q", "nl", "tab"} |->
                    <<"bs", CASE c = "nl" -> "n" [] c = "tab" -> "t" [] OTHER -> c>>]

\* MUTANTS: text written as it is; quotes escaped and backslashes not.
push_text_raw(s) == s
push_attr_value_quotes(s) == Escaped(s, [c \in {"q"} |-> <<"bs", "q">>])

push_text(s) == Escaped(s, TextEscapes)
push_attr_value(s) == Escaped(s, ValueEscapes)

push_attribute(a) ==
    <<"sp">> \o a.name \o
    (IF a.kind = "flag" THEN << >> ELSE <<"=", "q">> \o push_attr_value(a.value) \o <<"q">>)

TokenText(k) ==
    CASE k.t = "text"  -> push_text(k.s)
      [] k.t = "open"  -> <<"[">> \o k.name
                          \o FlattenSeq([i \in DOMAIN k.attributes |-> push_attribute(k.attributes[i])])
                          \o (IF k.self_closing THEN <<"sp", "/", "]">> ELSE <<"]">>)
      [] k.t = "close" -> <<"[", "/">> \o k.name \o <<"]">>
      [] k.t = "eof"   -> << >>
\* Only names can fail.
Writable(k) ==
    /\ k.t \in {"open", "close"} => is_valid_name(k.name)
    /\ k.t = "open" => \A i \in DOMAIN k.attributes : is_valid_name(k.attributes[i].name)
to_aml(ts) == FlattenSeq([i \in DOMAIN ts |-> TokenText(ts[i])])

(***************************************************************************)
(* The include pass                                                        *)
(***************************************************************************)
is_include(k) == k.t \in {"open", "close"} /\ k.name = INCLUDE_TAG

\* The first `name' attribute; a flag or an empty value names nothing.
include_name(k) ==
    LET named == SelectSeq(k.attributes, LAMBDA a : a.name = NAME_ATTR)
    IN IF named = << >> THEN << >> ELSE Head(named).value

\* What one authored token becomes, `gen' being the handler's answer.
Substituted(k, gen) ==
    IF ~is_include(k) THEN <<k>>
    ELSE IF k.t = "open" /\ include_name(k) # << >> /\ include_name(k) \in Claimed
    THEN gen ELSE << >>
Spliced(ts, gen) == FlattenSeq([i \in DOMAIN ts |-> Substituted(ts[i], gen)])

\* content.contains("[include")
NamesInclude(s) == \E i \in DOMAIN s : s[i] = "[" /\ At(s, i + 1) = "n"

(***************************************************************************)
(* Actions                                                                 *)
(***************************************************************************)
Init ==
    /\ page \in Pages /\ reply \in Generated
    /\ stage = "stored" /\ error = "none"
    /\ chars = << >> /\ pos = 1 /\ count = 0 /\ tokens = << >> /\ authored = << >>
    /\ wire = << >>

Stop(e) == stage' = "failed" /\ error' = e

\* Scanner::new on `doc', for the scan that `next' names.
NewScanner(doc, next) ==
    /\ pos' = 1 /\ count' = 0 /\ tokens' = << >>
    /\ IF Len(doc) > MaxInput THEN Stop("InputTooLarge") /\ UNCHANGED chars
       ELSE IF \E i \in DOMAIN doc : doc[i] = "bad" THEN Stop("InvalidUtf8") /\ UNCHANGED chars
       ELSE chars' = sanitize_into(doc) /\ stage' = next /\ UNCHANGED error

\* resolve_page: a page that names no include is sent as it is.
Serve ==
    /\ stage = "stored"
    /\ IF NamesInclude(page)
       THEN NewScanner(page, "serving") /\ UNCHANGED wire
       ELSE stage' = "sent" /\ wire' = page /\ UNCHANGED <<chars, pos, count, tokens, error>>
    /\ UNCHANGED <<page, reply, authored>>

\* The client receives the document and builds its own scanner.
Receive ==
    /\ stage = "sent"
    /\ NewScanner(wire, "reading")
    /\ UNCHANGED <<page, reply, authored, wire>>

\* One round of scan_all, on the server or on the client.
ScanToken ==
    /\ stage \in {"serving", "reading"}
    /\ pos <= Len(chars)
    /\ count' = count + 1
    /\ LET r == next_token(chars, pos)
       IN IF count' > MaxTokens THEN Stop("TooManyTokens") /\ UNCHANGED <<pos, tokens>>
          ELSE IF Failed(r) THEN Stop(r.err) /\ UNCHANGED <<pos, tokens>>
          ELSE /\ pos' = r.pos /\ tokens' = Append(tokens, r.tok)
               /\ UNCHANGED <<stage, error>>
    /\ UNCHANGED <<page, reply, chars, authored, wire>>

\* Any allocation of the scanner may be refused.
ScanExhausted ==
    /\ stage \in {"serving", "reading"}
    /\ Stop("ResourceExhausted")
    /\ UNCHANGED <<page, reply, chars, pos, count, tokens, authored, wire>>

\* The rest of resolve_page, once scan_all has reached the end.
Splice ==
    /\ stage = "serving" /\ pos > Len(chars)
    /\ LET all == Append(tokens, Eof)
           out == Spliced(all, reply)
           used == \E i \in DOMAIN all : /\ is_include(all[i]) /\ all[i].t = "open"
                                         /\ Substituted(all[i], <<Eof>>) # << >>
       IN /\ authored' = all
          /\ IF used /\ \E i \in DOMAIN reply : is_include(reply[i])
             THEN Stop("IncludeReturned") /\ UNCHANGED wire
             ELSE IF \E i \in DOMAIN out : ~Writable(out[i])
             THEN Stop("SerializeError") /\ UNCHANGED wire
             ELSE wire' = to_aml(out) /\ stage' = "sent" /\ UNCHANGED error
    /\ UNCHANGED <<page, reply, chars, pos, count, tokens>>

\* scan_all has collected Token::Eof on the client.
Finish ==
    /\ stage = "reading" /\ pos > Len(chars)
    /\ tokens' = Append(tokens, Eof) /\ stage' = "read"
    /\ UNCHANGED <<page, reply, chars, pos, count, authored, wire, error>>

Next == Serve \/ Receive \/ ScanToken \/ ScanExhausted \/ Splice \/ Finish

Spec == Init /\ [][Next]_vars

(***************************************************************************)
(* Properties                                                              *)
(***************************************************************************)
\* The two normalisations to_aml documents, and its quoting: adjacent text
\* tokens merge, an empty one disappears, a bare value comes back quoted.
Quoted(k) ==
    IF k.t # "open" THEN k
    ELSE [k EXCEPT !.attributes = [i \in DOMAIN @ |->
             IF @[i].kind = "ident" THEN [@[i] EXCEPT !.kind = "string"] ELSE @[i]]]
Merge(ts) ==
    FoldLeft(LAMBDA out, k :
        IF k.t # "text" THEN Append(out, Quoted(k))
        ELSE IF k.s = << >> THEN out
        ELSE IF out # << >> /\ Last(out).t = "text"
        THEN Append(Front(out), Text(Last(out).s \o k.s))
        ELSE Append(out, k), << >>, ts)

\* A generated text or value with a sequence introducer in it.
Introduces(s) == \E i \in DOMAIN s : s[i] \in {"esc", "csi", "osc"}
IntroducerIn(ts) ==
    \E i \in DOMAIN ts : \/ ts[i].t = "text" /\ Introduces(ts[i].s)
                         \/ ts[i].t = "open" /\ \E j \in DOMAIN ts[i].attributes :
                                                   Introduces(ts[i].attributes[j].value)
\* What the client's sanitizer leaves of the rest: of a text, which may become
\* empty, the sanitized text; of a value, each character on its own, a newline
\* after a carriage return having been written as an escape.
Wiped(v) == FlattenSeq([i \in DOMAIN v |-> sanitize_into(<<v[i]>>)])
Arriving(k) ==
    CASE k.t = "text" -> IF sanitize_into(k.s) = << >> THEN << >> ELSE <<Text(sanitize_into(k.s))>>
      [] k.t = "open" -> <<[k EXCEPT !.attributes = [i \in DOMAIN @ |->
                                [@[i] EXCEPT !.value = Wiped(@)]]]>>
      [] OTHER -> <<k>>
Expected == LET ts == Merge(Spliced(authored, reply))
            IN FlattenSeq([i \in DOMAIN ts |-> Arriving(ts[i])])

\* RoundTrip.  A page whose includes the server filled in reaches the client
\* as the author's tokens with the generated ones in place of the includes, the
\* characters the client strips excepted: no generated text or value without a
\* sequence introducer ends a tag, starts one or swallows its neighbours, and
\* none of it is lost (serialize.rs:160-167, include.rs:93).
\* The client may only fail for a limit the serialized page exceeds.
RoundTrip ==
    authored # << >> /\ ~IntroducerIn(reply) =>
        /\ stage = "read" => tokens = Expected
        /\ error \notin {"UnterminatedTag", "UnterminatedString", "InvalidTagName"}
\* Does not hold (README, known divergences): the same of every generated text
\* and value, with nothing lost, as serialize.rs:25-26 and :71 have it.
AnyTextRoundTrips ==
    authored # << >> =>
        /\ stage = "read" => tokens = Merge(Spliced(authored, reply))
        /\ error \notin {"UnterminatedTag", "UnterminatedString", "InvalidTagName"}
============================================================================
