------------------------------ MODULE Messages ------------------------------
(***************************************************************************)
(* The bodies of ATP messages (protocol/message.rs): what a message is     *)
(* written as, the reader that builds a message from a body, and the       *)
(* second reader that only validates it on the framing path.               *)
(*                                                                         *)
(* A body is a sequence of symbols of one byte each: the opening words of  *)
(* a message ("GET "), the field names ("Query: "), "nl", "cr", "sp", ",", *)
(* and the words values are made of.  A control message is                 *)
(* [type, primary, fields]: the value of its first line and a function     *)
(* from field names to values; a capability list is a sequence of words.   *)
(* Reading gives a message or Refused.                                     *)
(***************************************************************************)
EXTENDS Naturals, SequencesExt

CONSTANTS Refused, None,
    MaxControl, MaxInput, MaxPage, MaxUpdate,   \* the semantic body limits
    MaxCaps, MaxToken, MaxPath, MaxScope,
    Controls,        \* the symbols that are control characters, "nl" too
    CapabilityWords, \* the words a capability may be
    Scopes, Paths,   \* valid_session_scope, valid_page_path
    Uris             \* words AtpUri::parse takes

Opening == [Hello |-> "HELLO/", Welcome |-> "WELCOME/", Get |-> "GET ", Input |-> "INPUT ",
            Subscribe |-> "SUBSCRIBE ", Redirect |-> "REDIRECT ", Error |-> "ERROR "]
\* The fields of each control message, in the order they are written.
Fields == [Hello |-> <<"Terminal-Size: ", "Color-Support: ", "Client: ", "Capabilities: ">>,
           Welcome |-> <<"Server: ", "Site-Name: ", "Capabilities: ">>,
           Get |-> <<"Query: ", "Referrer: ", "Session: ">>,
           Input |-> <<"Form: ", "Session: ">>,
           Subscribe |-> <<"Region: ", "Mode: ", "Session: ">>,
           Redirect |-> << >>, Error |-> <<"Message: ">>]
ControlTypes == DOMAIN Opening
Empties == {"Unsubscribe", "Ping", "Pong", "Bye", "ServerBye"}
FieldNames == UNION {ToSet(Fields[m]) : m \in ControlTypes}
              \cup {"Path: ", "Set-Session: ", "Clear-Session: ", "Other: "}
Codes == [Redirect |-> {"301", "302"}, Error |-> {"404", "505"}]

Limit(type) == IF type = "Input" THEN MaxInput ELSE MaxControl
NoControls(s) == ToSet(s) \cap Controls = {}
validate_primary_value(s) == s # << >> /\ NoControls(s)

RECURSIVE SplitOn(_, _)
SplitOn(s, x) ==
    LET i == SelectInSeq(s, LAMBDA y : y = x)
    IN IF i = 0 THEN <<s>> ELSE <<SubSeq(s, 1, i - 1)>> \o SplitOn(SubSeq(s, i + 1, Len(s)), x)
\* str::lines: a final line feed ends no line, a carriage return before one goes.
Lines(s) ==
    LET ls == SplitOn(s, "nl")
        cut == IF Last(ls) = << >> THEN Front(ls) ELSE ls
        Strip(l, fed) == IF fed /\ l # << >> /\ Last(l) = "cr" THEN Front(l) ELSE l
    IN [i \in DOMAIN cut |-> Strip(cut[i], i < Len(ls))]
Joined(parts, x) ==
    FoldLeft(LAMBDA s, w : IF s = << >> THEN <<w>> ELSE s \o <<x, w>>, << >>, parts)

\* A line "Name: value"; anything else is refused.
parse_control_field(l) ==
    IF Len(l) < 2 \/ ~NoControls(l) \/ l[1] \notin FieldNames THEN Refused
    ELSE [key |-> l[1], value |-> Tail(l)]

(***************************************************************************)
(* Capabilities                                                            *)
(***************************************************************************)
validate_capabilities(words) ==
    Len(words) <= MaxCaps /\ ToSet(words) \subseteq CapabilityWords
\* Words of one symbol, separated by single commas.
parse_capabilities(v) ==
    LET parts == SplitOn(v, ",")
    IN IF Len(parts) > MaxCaps \/ \E i \in DOMAIN parts : Len(parts[i]) # 1
                               \/ ~(ToSet(FlattenSeq(parts)) \subseteq CapabilityWords)
       THEN Refused ELSE FlattenSeq(parts)
validate_capability_list(v) ==
    LET parts == SplitOn(v, ",")
    IN Len(parts) <= MaxCaps
       /\ \A i \in DOMAIN parts : Len(parts[i]) = 1 /\ parts[i][1] \in CapabilityWords

(***************************************************************************)
(* Control messages                                                        *)
(***************************************************************************)
Control(type, primary, fields) == [type |-> type, primary |-> primary, fields |-> fields]

\* serialize: an empty Region or Form is not written, nor is an empty list.
FieldText(m, k) ==
    IF \/ k \notin DOMAIN m.fields
       \/ k \in {"Region: ", "Form: ", "Capabilities: "} /\ m.fields[k] = << >>
    THEN << >>
    ELSE <<k>> \o (IF k = "Capabilities: " THEN Joined(m.fields[k], ",") ELSE m.fields[k])
         \o <<"nl">>
ControlText(m) ==
    <<Opening[m.type]>> \o m.primary \o <<"nl">>
    \o FlattenSeq([i \in DOMAIN Fields[m.type] |-> FieldText(m, Fields[m.type][i])])
serialize_control(m) ==
    IF \/ "Capabilities: " \in DOMAIN m.fields /\ ~validate_capabilities(m.fields["Capabilities: "])
       \/ Len(ControlText(m)) > Limit(m.type)
    THEN Refused ELSE ControlText(m)

\* The first line.  A HELLO's and a WELCOME's version is read later.
FirstLineOk(type, v) ==
    CASE type \in {"Hello", "Welcome"} -> TRUE
      [] type = "Error" -> Len(v) = 1 /\ v[1] \in Codes.Error
      [] type = "Redirect" -> /\ Len(v) >= 2 /\ v[1] \in Codes.Redirect /\ v[2] = "sp"
                              /\ validate_primary_value(SubSeq(v, 3, Len(v)))
      [] OTHER -> validate_primary_value(v)

\* One field joins what was read; Mode is kept only as "delta".
FieldValue(f) == IF f.key = "Capabilities: " THEN parse_capabilities(f.value) ELSE f.value
Taken(type, got, key, value) ==
    IF \/ key \notin ToSet(Fields[type]) \/ key \in DOMAIN got \/ value = Refused
       \/ key = "Mode: " /\ value \notin {<<"delta">>, <<"replace">>}
    THEN Refused
    ELSE [k \in DOMAIN got \cup {key} |-> IF k = key THEN value ELSE got[k]]
TakeField(type, got, f) ==
    IF got = Refused THEN Refused
    ELSE IF f = Refused THEN Refused
    ELSE Taken(type, got, f.key, FieldValue(f))
ReadFields(type, ls) ==
    FoldLeft(LAMBDA got, l : TakeField(type, got, parse_control_field(l)), << >>, Tail(ls))
Completed(type, primary, fields) ==
    IF fields = Refused THEN Refused
    ELSE Control(type, primary,
                 [k \in {n \in DOMAIN fields : n # "Mode: " \/ fields[n] = <<"delta">>} |-> fields[k]])
FirstLine(type, ls) ==
    /\ ls # << >>
    /\ ls[1] # << >> /\ ls[1][1] = Opening[type] /\ FirstLineOk(type, Tail(ls[1]))
    /\ type = "Redirect" => Len(ls) = 1
ParsedLines(type, ls) ==
    IF FirstLine(type, ls) THEN Completed(type, Tail(ls[1]), ReadFields(type, ls)) ELSE Refused
parse_control(type, b) ==
    IF Len(b) > Limit(type) THEN Refused ELSE ParsedLines(type, Lines(b))

\* The validating reader: `seen' marks the fields met.
ValidFields(type, fs) ==
    /\ \A i \in DOMAIN fs : fs[i] # Refused
    /\ \A i \in DOMAIN fs :
        /\ fs[i].key \in ToSet(Fields[type])
        /\ \A j \in DOMAIN fs : i # j => fs[j].key # fs[i].key
        /\ fs[i].key = "Mode: " => fs[i].value \in {<<"delta">>, <<"replace">>}
        /\ fs[i].key = "Capabilities: " => validate_capability_list(fs[i].value)
ValidLines(type, ls) ==
    /\ FirstLine(type, ls)
    /\ type = "Redirect" => Len(ls[1]) = 4 /\ ls[1][4] \in Uris
    /\ ValidFields(type, [i \in 1..(Len(ls) - 1) |-> parse_control_field(ls[i + 1])])
ValidControlBody(type, b) == Len(b) <= Limit(type) /\ ValidLines(type, Lines(b))
validate_control_framing(b) ==
    ToSet(b) \cap (Controls \ {"nl"}) = {} /\ (b # << >> => Last(b) = "nl")

(***************************************************************************)
(* PAGE: [type, content, path, dirs, flags].  A directive is               *)
(* [op, token, scope, expires].                                            *)
(***************************************************************************)
valid_page_path(v) == Len(v) = 1 /\ v[1] \in Paths
valid_session_scope(v) == Len(v) = 1 /\ Len(v) <= MaxScope /\ v[1] \in Scopes
Directive(op, token, scope, expires) ==
    [op |-> op, token |-> token, scope |-> scope, expires |-> expires]

DirectiveText(d) ==
    IF d.op = "clear" THEN <<"Clear-Session: ">> \o d.scope \o <<"nl">>
    ELSE <<"Set-Session: ">> \o d.token \o <<"sp">> \o d.scope
         \o (IF d.expires = None THEN << >> ELSE <<"sp", d.expires>>) \o <<"nl">>
\* The body and the flags, which follow from the fields.
encode_body(m) ==
    LET flags == (m.flags \ {"session", "path"})
                 \cup (IF m.dirs = << >> THEN {} ELSE {"session"})
                 \cup (IF m.path = None THEN {} ELSE {"path"})
        meta == (IF m.path = None THEN << >> ELSE <<"Path: ">> \o m.path \o <<"nl">>)
                \o FlattenSeq([i \in DOMAIN m.dirs |-> DirectiveText(m.dirs[i])])
        body == IF meta = << >> THEN m.content ELSE meta \o <<"nl">> \o m.content
    IN IF \/ m.path # None /\ (Len(m.path) > MaxPath \/ ~valid_page_path(m.path))
          \/ Len(body) > MaxPage
       THEN [body |-> Refused, flags |-> flags] ELSE [body |-> body, flags |-> flags]

\* Token, scope ("/" if absent) and what else the value holds, at spaces.
Parts(v) ==
    LET ps == SplitOn(v, "sp")
    IN [token |-> ps[1], scope |-> IF Len(ps) > 1 THEN ps[2] ELSE <<"/">>,
        rest |-> IF Len(ps) > 2 THEN Joined(FlattenSeq(SubSeq(ps, 3, Len(ps))), "sp") ELSE << >>]
TrimSp(v) == SelectSeq(v, LAMBDA x : x # "sp")
SetOf(p) ==
    IF p.token = << >> \/ Len(p.token) > MaxToken \/ ~valid_session_scope(p.scope) THEN Refused
    ELSE Directive("set", p.token, p.scope,
                   IF Len(p.rest) = 1 /\ p.rest[1] = "9" THEN "9" ELSE None)
try_parse_session_directive(key, v) ==
    IF key = "Clear-Session: "
    THEN IF valid_session_scope(TrimSp(v)) THEN Directive("clear", << >>, TrimSp(v), None)
         ELSE Refused
    ELSE SetOf(Parts(v))

\* The metadata block: what stands before the first empty line.
Breaks(b) == {i \in 1..(Len(b) - 1) : b[i] = "nl" /\ b[i + 1] = "nl"}
HasSeparator(b) == Breaks(b) # {}
Separator(b) == IF HasSeparator(b) THEN Min(Breaks(b)) ELSE 1

TakeMeta(m, f, flags) ==
    IF m = Refused THEN Refused
    ELSE IF f = Refused THEN Refused
    ELSE IF f.key = "Path: "
    THEN IF \/ m.path # None \/ "path" \notin flags
            \/ Len(f.value) > MaxPath \/ ~valid_page_path(f.value)
         THEN Refused ELSE [m EXCEPT !.path = f.value]
    ELSE IF f.key \notin {"Set-Session: ", "Clear-Session: "} THEN Refused
    ELSE IF try_parse_session_directive(f.key, f.value) = Refused THEN Refused
    ELSE [m EXCEPT !.dirs = Append(@, try_parse_session_directive(f.key, f.value))]
\* The flag promises a field.
Promised(m) ==
    IF m = Refused THEN Refused
    ELSE IF ("path" \in m.flags /\ m.path = None) \/ ("session" \in m.flags /\ m.dirs = << >>)
    THEN Refused ELSE m
PageAt(b, flags, at) ==
    [type |-> "Page", content |-> SubSeq(b, at, Len(b)), path |-> None, dirs |-> << >>,
     flags |-> flags]
MetaLines(b) == Lines(SubSeq(b, 1, Separator(b) - 1))
decode_body(b, flags) ==
    IF Len(b) > MaxPage THEN Refused
    ELSE IF flags \cap {"path", "session"} = {} THEN PageAt(b, flags, 1)
    ELSE IF ~HasSeparator(b) THEN Refused
    ELSE Promised(FoldLeft(LAMBDA m, l : TakeMeta(m, parse_control_field(l), flags),
                           PageAt(b, flags, Separator(b) + 2), MetaLines(b)))

\* MUTANT: a second Path is not looked for.
ValidMeta_again(fs, flags) ==
    /\ \A i \in DOMAIN fs : fs[i] # Refused
    /\ \A i \in DOMAIN fs : fs[i].key \in {"Path: ", "Set-Session: ", "Clear-Session: "}
    /\ \A i \in DOMAIN fs : fs[i].key = "Path: " => "path" \in flags /\ valid_page_path(fs[i].value)
    /\ "path" \in flags => \E i \in DOMAIN fs : fs[i].key = "Path: "
    /\ "session" \in flags => \E i \in DOMAIN fs : fs[i].key # "Path: "
ValidSet(p) == p.token # << >> /\ Len(p.token) <= MaxToken /\ valid_session_scope(p.scope)
ValidMeta(fs, flags) ==
    /\ \A i \in DOMAIN fs : fs[i] # Refused
    /\ \A i \in DOMAIN fs :
        CASE fs[i].key = "Path: " ->
               /\ "path" \in flags /\ Len(fs[i].value) <= MaxPath /\ valid_page_path(fs[i].value)
               /\ \A j \in DOMAIN fs : i # j => fs[j].key # "Path: "
          [] fs[i].key = "Set-Session: " -> ValidSet(Parts(fs[i].value))
          [] fs[i].key = "Clear-Session: " -> valid_session_scope(TrimSp(fs[i].value))
          [] OTHER -> FALSE
    /\ "path" \in flags => \E i \in DOMAIN fs : fs[i].key = "Path: "
    /\ "session" \in flags => \E i \in DOMAIN fs : fs[i].key # "Path: "
FieldsOf(ls) == [i \in DOMAIN ls |-> parse_control_field(ls[i])]
validate_page_body(b, flags) ==
    /\ Len(b) <= MaxPage
    /\ flags \cap {"path", "session"} # {} =>
        HasSeparator(b) /\ ValidMeta(FieldsOf(MetaLines(b)), flags)

(***************************************************************************)
(* UPDATE                                                                  *)
(***************************************************************************)
UpdateText(region, content) == <<"UPDATE ">> \o region \o <<"nl", "nl">> \o content
validate_update_parts(region, content) ==
    validate_primary_value(region) /\ Len(UpdateText(region, content)) <= MaxUpdate
try_serialize_parts(region, content) ==
    IF validate_primary_value(region) /\ Len(UpdateText(region, content)) <= MaxUpdate
    THEN UpdateText(region, content) ELSE Refused
validate_serialized(b) ==
    LET i == SelectInSeq(b, LAMBDA x : x = "nl")
    IN /\ i > 1 /\ b[1] = "UPDATE " /\ validate_primary_value(SubSeq(b, 2, i - 1))
       /\ i < Len(b) /\ b[i + 1] = "nl"
parse_update(b, flags) ==
    IF Len(b) > MaxUpdate \/ ~validate_serialized(b) THEN Refused
    ELSE [type |-> "Update", flags |-> flags, region |-> SubSeq(b, 2, Separator(b) - 1),
          content |-> SubSeq(b, Separator(b) + 2, Len(b))]

(***************************************************************************)
(* Every message, under the name its module gives the operation            *)
(***************************************************************************)
Hello_serialize(m) == serialize_control(m)
Welcome_serialize(m) == serialize_control(m)
Get_serialize(m) == serialize_control(m)
Input_serialize(m) == serialize_control(m)
Subscribe_serialize(m) == serialize_control(m)
Redirect_serialize(m) == serialize_control(m)
Error_serialize(m) == serialize_control(m)
Serialized(m) ==
    CASE m.type = "Hello" -> Hello_serialize(m)
      [] m.type = "Welcome" -> Welcome_serialize(m)
      [] m.type = "Get" -> Get_serialize(m)
      [] m.type = "Input" -> Input_serialize(m)
      [] m.type = "Subscribe" -> Subscribe_serialize(m)
      [] m.type = "Redirect" -> Redirect_serialize(m)
      [] m.type = "Error" -> Error_serialize(m)
      [] m.type = "Page" -> encode_body(m).body
      [] m.type = "Update" -> try_serialize_parts(m.region, m.content)
      [] m.type = "Resource" -> m.content
      [] m.type \in Empties -> << >>

Hello_parse(b) == parse_control("Hello", b)
Welcome_parse(b) == parse_control("Welcome", b)
Get_parse(b) == parse_control("Get", b)
Input_parse(b) == parse_control("Input", b)
Subscribe_parse(b) == parse_control("Subscribe", b)
Redirect_parse(b) == parse_control("Redirect", b)
Error_parse(b) == parse_control("Error", b)
\* What the consumer of a delivered frame builds from it.
Parse(type, b, flags) ==
    CASE type = "Hello" -> Hello_parse(b)
      [] type = "Welcome" -> Welcome_parse(b)
      [] type = "Get" -> Get_parse(b)
      [] type = "Input" -> Input_parse(b)
      [] type = "Subscribe" -> Subscribe_parse(b)
      [] type = "Redirect" -> Redirect_parse(b)
      [] type = "Error" -> Error_parse(b)
      [] type = "Page" -> decode_body(b, flags)
      [] type = "Update" -> parse_update(b, flags)
      [] type = "Resource" -> [type |-> type, content |-> b]
      [] type \in Empties -> [type |-> type]

validate_hello_body(b) == ValidControlBody("Hello", b)
validate_welcome_body(b) == ValidControlBody("Welcome", b)
validate_get_body(b) == ValidControlBody("Get", b)
validate_input_body(b) == ValidControlBody("Input", b)
validate_subscribe_body(b) == ValidControlBody("Subscribe", b)
validate_redirect_body(b) == ValidControlBody("Redirect", b)
validate_error_body(b) == ValidControlBody("Error", b)
\* validate_frame_body, before any message is built.
validate_frame_body(type, b, flags) ==
    /\ type \in ControlTypes => validate_control_framing(b)
    /\ CASE type = "Hello" -> validate_hello_body(b)
         [] type = "Welcome" -> validate_welcome_body(b)
         [] type = "Get" -> validate_get_body(b)
         [] type = "Input" -> validate_input_body(b)
         [] type = "Subscribe" -> validate_subscribe_body(b)
         [] type = "Redirect" -> validate_redirect_body(b)
         [] type = "Error" -> validate_error_body(b)
         [] type = "Page" -> validate_page_body(b, flags)
         [] type = "Update" -> Len(b) <= MaxUpdate /\ validate_serialized(b)
         [] type = "Resource" -> TRUE
         [] type \in Empties -> b = << >>
carries_session(type, b, flags) ==
    \/ /\ type \in {"Get", "Input", "Subscribe"}
       /\ \E i \in 2..Len(Lines(b)) : Lines(b)[i][1] = "Session: "
    \/ type = "Page" /\ "session" \in flags
=============================================================================
