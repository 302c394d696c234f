------------------------------- MODULE MCWire -------------------------------
EXTENDS Wire

F(k, v) == [n \in {k} |-> v]
G(k, v, l, w) == [n \in {k, l} |-> IF n = k THEN v ELSE w]
PageOf(content, path, dirs, flags) ==
    [type |-> "Page", content |-> content, path |-> path, dirs |-> dirs, flags |-> flags]
Set1 == Directive("set", <<"t">>, <<"/">>, None)
SetLong == Directive("set", <<"t">>, <<"/s">>, "9")
Clear1 == Directive("clear", << >>, <<"/s">>, None)

PeersDef ==
    {[cert |-> "a", vouched |-> TRUE, holdsKey |-> TRUE],    \* issued by an authority
     [cert |-> "a", vouched |-> FALSE, holdsKey |-> TRUE],   \* self-signed
     [cert |-> "b", vouched |-> TRUE, holdsKey |-> TRUE],    \* re-keyed, or another host
     [cert |-> "a", vouched |-> TRUE, holdsKey |-> FALSE]}   \* the certificate without its key
SupportedDef == <<"live-updates", "sessions", "wasm-effects", "page-path">>
ClientMessagesDef ==
    {Control("Hello", <<"0.2">>, G("Client: ", <<"x">>, "Capabilities: ", SupportedDef)),
     Control("Get", <<"/a">>, << >>), Control("Get", <<"/a">>, G("Query: ", <<"x">>, "Session: ", <<"t">>)),
     Control("Input", <<"/a">>, G("Form: ", <<"x", "sp", "x">>, "Session: ", <<"t">>)),
     Control("Subscribe", <<"/a">>, G("Region: ", <<"x">>, "Mode: ", <<"delta">>)),
     [type |-> "Unsubscribe"], [type |-> "Ping"], [type |-> "Bye"]}
ServerMessagesDef ==
    {PageOf(<<"x", "nl", "nl">>, None, << >>, {"cacheable"}),
     PageOf(<<"nl", "x">>, <<"/a">>, <<Set1, Clear1>>, {"live"}),
     PageOf(<< >>, None, <<SetLong>>, {"live", "path"}),
     PageOf(<<"x", "cr">>, <<"/a">>, << >>, {}),
     Control("Redirect", <<"301", "sp", "atp:x">>, << >>), Control("Error", <<"404">>, F("Message: ", <<"x">>)),
     [type |-> "Resource", content |-> <<"wasm">>], [type |-> "Pong"], [type |-> "ServerBye"]}
UpdatePartsDef ==
    {[region |-> <<"x">>, content |-> <<"nl", "nl", "x">>, flags |-> {"delta"}],
     [region |-> <<"x">>, content |-> << >>, flags |-> {}],
     [region |-> <<"x", "cr">>, content |-> << >>, flags |-> {}]}

\* Bodies of another implementation: a first line and up to two more lines.
Fr(type, flags, body) == [type |-> type, flags |-> flags, len |-> Len(body), body |-> body, meant |-> None]
UpTo2(S) == {<< >>} \cup {<<a>> : a \in S} \cup {<<a, b>> : a, b \in S}
Text(ls) == FlattenSeq([i \in DOMAIN ls |-> ls[i] \o <<"nl">>])
Wrong == {<< >>, <<"Other: ", "x">>, <<"x">>}
ControlBodies(opening, firsts, ls) ==
    {<<opening>> \o a \o <<"nl">> \o Text(b) : a \in firsts, b \in UpTo2(ls) \cup {<<w>> : w \in Wrong}}
    \cup {<<opening>> \o a : a \in firsts} \cup {<<opening>> \o a \o <<"cr", "nl">> : a \in firsts}
    \cup {<< >>, <<"x">>}
PageLines == {<<"Path: ", "/a">>, <<"Path: ", "x">>, <<"Path: ">>, <<"Path: ", "/a", "cr">>,
              <<"Set-Session: ", "t">>, <<"Set-Session: ", "t", "sp", "/s", "sp", "9">>,
              <<"Set-Session: ", "t", "t">>, <<"Set-Session: ", "sp", "/s">>,
              <<"Clear-Session: ", "/s", "sp">>}
PageFlagSets == {{"path"}, {"session"}, {"path", "session"}, {"live", "path", "session"}}
ToClient ==
    {Fr("Welcome", {}, b) : b \in ControlBodies("WELCOME/", {<<"0.2">>, <<"0.3">>},
        {<<"Server: ", "x">>, <<"Capabilities: ", "live-updates">>,
         <<"Capabilities: ", "sessions", ",", "page-path", ",", "live-updates">>, <<"Capabilities: ", "new">>})}
    \cup {Fr("Page", fl, b) : fl \in PageFlagSets,
          b \in {Text(ls) \o end : ls \in UpTo2(PageLines \cup Wrong), end \in {<<"nl", "x">>, <<"x">>}}}
    \cup {Fr("Redirect", {}, b) : b \in ControlBodies("REDIRECT ",
        {<<"301", "sp", "atp:x">>, <<"301", "sp", "x">>, <<"404", "sp", "atp:x">>, <<"301">>}, {})}
    \cup {Fr("Error", {}, b) : b \in ControlBodies("ERROR ", {<<"404">>, <<"7">>}, {<<"Message: ", "x">>})}
    \cup {Fr("Update", fl, b) : fl \in {{}, {"delta"}, {"live"}},
          b \in {<<"UPDATE ">> \o r \o end : r \in {<<"x">>, << >>, <<"x", "cr">>},
                 end \in {<<"nl", "nl">>, <<"nl", "nl", "nl", "x">>, <<"nl", "x">>, << >>}}}
    \cup {Fr("Pong", {}, << >>), Fr("Pong", {}, <<"x">>), Fr("ServerBye", {}, << >>),
          Fr("Get", {}, <<"GET ", "/a", "nl">>), Fr("Unknown", {}, << >>), Fr("Resource", {}, <<"wasm">>),
          [Fr("Resource", {}, <<"wasm">>) EXCEPT !.len = 2], [Fr("Resource", {}, <<"wasm">>) EXCEPT !.len = 99]}
Sessions == {<<"Session: ", "t">>, <<"Session: ">>}
ToServer ==
    {Fr("Hello", {}, b) : b \in ControlBodies("HELLO/", {<<"0.2">>, <<"0.3">>, <<"00.2">>},
        {<<"Client: ", "x">>, <<"Capabilities: ", "live-updates">>, <<"Capabilities: ", "new", ",", "page-path">>,
         <<"Capabilities: ", ",">>, <<"Capabilities: ", "sessions", ",", "live-updates", ",", "new", ",", "new", ",", "new">>})}
    \cup {Fr("Get", {}, b) : b \in ControlBodies("GET ", {<<"/a">>, << >>}, {<<"Query: ", "x">>} \cup Sessions)}
    \cup {Fr("Input", {}, b) : b \in ControlBodies("INPUT ", {<<"/a">>}, {<<"Form: ", "x">>} \cup Sessions)}
    \cup {Fr("Subscribe", {}, b) : b \in ControlBodies("SUBSCRIBE ", {<<"/a">>},
        {<<"Region: ", "x">>, <<"Mode: ", "delta">>, <<"Mode: ", "replace">>, <<"Mode: ", "x">>} \cup Sessions)}
    \cup {Fr("Unsubscribe", {}, << >>), Fr("Ping", {}, << >>), Fr("Bye", {}, << >>), Fr("Unknown", {}, << >>),
          Fr("Page", {}, << >>), Fr("Get", {"live"}, <<"GET ", "/a", "nl">>)}
ForeignDef == [e \in Ends |-> IF e = "client" THEN ToClient ELSE ToServer]
=============================================================================
