-------------------------------- MODULE Wire --------------------------------
(***************************************************************************)
(* One ATP connection, from the TLS handshake to its end: the client's     *)
(* AtpConnection and the server's AtpServerStream (transport.rs of both    *)
(* crates), the state machine both run (protocol/state.rs), and the two    *)
(* byte streams between them.  Either end may be another implementation    *)
(* that writes frames this one never would, and the network may cut a      *)
(* stream in the middle of a frame.                                        *)
(*                                                                         *)
(* A frame on the wire is [type, flags, len, body, meant]: len is what the *)
(* header announces, body the bytes that arrived, and meant, which the     *)
(* program never sees, the message its sender had in hand.                 *)
(***************************************************************************)
EXTENDS Messages

CONSTANTS
    Modes,           \* "plain", or a TlsVerification: "ca", "pinned", "tofu", "insecure"
    Peers,           \* who may answer: [cert, vouched, holdsKey]
    Pin,             \* the fingerprint a pinned connection expects
    Version, Versions, \* PROTOCOL_VERSION, and the canonical versions
    Supported,       \* SUPPORTED_CAPABILITIES, in order
    ClientMessages, ServerMessages, UpdateParts, \* what the programs send
    Foreign,         \* foreign frames, by the end that receives them
    MaxSends, MaxForeign   \* frames an end of ours writes, and a foreign one

VARIABLES
    tls,      \* [mode, peer, outcome, fingerprint]
    conn,     \* each end's [phase, version, offered, negotiated, poisoned]
    pipe,     \* the frames under way to each end
    cut,      \* the ends whose incoming stream has ended
    last,     \* the frame each end's recv_frame last returned
    foreign,  \* the end that another implementation runs, or None
    sends     \* frames each end has written
vars == <<tls, conn, pipe, cut, last, foreign, sends>>

Ends == {"client", "server"}
Other(e) == IF e = "client" THEN "server" ELSE "client"

(***************************************************************************)
(* How the peer is authenticated (connect_tls and its three verifiers)     *)
(***************************************************************************)
\* MUTANT: a pinned certificate is believed without proof of its key.
PinningAccepts_unsigned(mode, p) == mode = "pinned" => p.cert = Pin
PinningAccepts(mode, p) == (mode = "pinned" => p.cert = Pin) /\ p.holdsKey
CaAccepts(p) == p.vouched /\ p.holdsKey
\* What connect_tls returns.  A refused pin and an unknown authority are
\* reported as themselves, every other failure as a failed handshake.
connect_tls(mode, p) ==
    CASE mode \in {"plain", "insecure"} -> [outcome |-> "connected", fingerprint |-> None]
      [] mode = "ca" /\ CaAccepts(p) -> [outcome |-> "connected", fingerprint |-> None]
      [] mode = "ca" /\ ~CaAccepts(p) ->
           IF p.vouched THEN [outcome |-> "failed", fingerprint |-> None]
           ELSE [outcome |-> "Unverified", fingerprint |-> p.cert]
      [] mode \in {"pinned", "tofu"} /\ PinningAccepts(mode, p) ->
           [outcome |-> "connected", fingerprint |-> p.cert]
      [] mode \in {"pinned", "tofu"} /\ ~PinningAccepts(mode, p) ->
           [outcome |-> IF mode = "pinned" /\ p.cert # Pin THEN "PinMismatch" ELSE "failed",
            fingerprint |-> None]

NewStream == [phase |-> "Handshake", version |-> None, offered |-> << >>,
              negotiated |-> None, poisoned |-> FALSE]

(***************************************************************************)
(* ConnectionStateMachine                                                  *)
(***************************************************************************)
\* The phase after e sends or receives a message of this type, or None.
apply(e, phase, sending, type) ==
    LET ask == sending <=> e = "client"   \* the message goes to the server
    IN CASE phase = "Handshake" /\ ask /\ type = "Hello" -> "HandshakeReply"
         [] phase = "HandshakeReply" /\ ~ask /\ type = "Welcome" -> "Ready"
         [] phase = "HandshakeReply" /\ ~ask /\ type \in {"Error", "ServerBye"} -> "Closed"
         [] phase = "Ready" /\ ask /\ type \in {"Get", "Input"} -> "ResponsePending"
         [] phase = "Ready" /\ ask /\ type \in {"Subscribe", "Unsubscribe"} -> "Ready"
         [] phase \in {"Ready", "ResponsePending"} /\ ask /\ type = "Ping" -> phase
         [] phase \in {"Ready", "ResponsePending"} /\ ~ask /\ type \in {"Pong", "Update"} -> phase
         [] phase = "Ready" /\ ask /\ type = "Bye" -> "Closing"
         [] /\ phase = "ResponsePending" /\ ~ask
            /\ type \in {"Page", "Redirect", "Error", "Resource"} -> "Ready"
         [] phase \in {"Ready", "ResponsePending", "Closing"} /\ ~ask /\ type = "ServerBye" ->
              "Closed"
         [] OTHER -> None

(***************************************************************************)
(* The checks every frame passes, in order, on its way out and in          *)
(***************************************************************************)
\* The body limit of what goes to `to', or None where it goes the wrong way.
inbound_body_limit(to, type) ==
    CASE to = "server" /\ type = "Input" -> MaxInput
      [] to = "server" /\ type \in {"Hello", "Get", "Subscribe", "Unsubscribe", "Ping", "Bye"} ->
           MaxControl
      [] to = "client" /\ type = "Page" -> MaxPage
      [] to = "client" /\ type = "Update" -> MaxUpdate
      [] to = "client" /\ type = "Resource" -> MaxPage
      [] to = "client" /\ type \in {"Welcome", "Redirect", "Error", "Pong", "ServerBye"} ->
           MaxControl
      [] OTHER -> None
validate_inbound_body_len(to, type, n) ==
    /\ inbound_body_limit(to, type) # None
    /\ type \in Empties => n = 0
    /\ n <= inbound_body_limit(to, type)
validate_inbound_flags(type, flags) ==
    flags \subseteq (CASE type = "Page" -> {"live", "cacheable", "session", "path"}
                       [] type = "Update" -> {"delta"}
                       [] OTHER -> {})

\* NegotiatedCapabilities: unknown words are never enabled.
negotiate(offered, accepted) == ToSet(offered) \cap ToSet(accepted) \cap ToSet(Supported)
ProtocolVersion(v) == IF Len(v) = 1 /\ v[1] \in Versions THEN v[1] ELSE None
Caps(m) == IF "Capabilities: " \in DOMAIN m.fields THEN m.fields["Capabilities: "] ELSE << >>

\* What a HELLO or a WELCOME does to the connection it passes; Refused if it
\* cannot stand.
Offered(c, m) ==
    IF m = Refused THEN Refused
    ELSE IF ProtocolVersion(m.primary) = None THEN Refused
    ELSE [c EXCEPT !.version = ProtocolVersion(m.primary), !.offered = Caps(m)]
Answered(c, m) ==
    IF m = Refused THEN Refused
    ELSE IF \/ ProtocolVersion(m.primary) = None \/ ProtocolVersion(m.primary) # c.version
            \/ ~(ToSet(Caps(m)) \subseteq ToSet(c.offered))
    THEN Refused
    ELSE [c EXCEPT !.negotiated = negotiate(c.offered, Caps(m))]
Handshaken(c, f) ==
    CASE f.type = "Hello" -> Offered(c, Hello_parse(f.body))
      [] f.type = "Welcome" -> Answered(c, Welcome_parse(f.body))
      [] OTHER -> c

\* MUTANT: only the first flag that is set is asked for.
validate_capability_first(c, type, flags, session) ==
    \/ type \in {"Hello", "Welcome"}
    \/ /\ c.negotiated # None
       /\ type \in {"Subscribe", "Unsubscribe", "Update"} => "live-updates" \in c.negotiated
       /\ type = "Resource" => "wasm-effects" \in c.negotiated
       /\ type = "Page" => IF "live" \in flags THEN "live-updates" \in c.negotiated
                           ELSE "session" \in flags => "sessions" \in c.negotiated
validate_capability(c, type, flags, session) ==
    \/ type \in {"Hello", "Welcome"}
    \/ /\ c.negotiated # None
       /\ type \in {"Subscribe", "Unsubscribe", "Update"} => "live-updates" \in c.negotiated
       /\ type = "Resource" => "wasm-effects" \in c.negotiated
       /\ type = "Page" =>
            /\ "live" \in flags => "live-updates" \in c.negotiated
            /\ "session" \in flags => "sessions" \in c.negotiated
            /\ "path" \in flags => "page-path" \in c.negotiated
       /\ session => "sessions" \in c.negotiated

Poisoned(c) == [c EXCEPT !.poisoned = TRUE]
\* The connection after frame f passed, or was refused by, the checks that
\* sending and receiving share.  A refusal leaves what was already noted.
Admitted(e, c, h, sending, f) ==
    IF h = Refused THEN Poisoned(c)
    ELSE IF \/ ~validate_capability(h, f.type, f.flags, carries_session(f.type, f.body, f.flags))
            \/ apply(e, h.phase, sending, f.type) = None
    THEN Poisoned(h)
    ELSE [h EXCEPT !.phase = apply(e, h.phase, sending, f.type)]
Passed(e, c, sending, f) ==
    IF /\ validate_inbound_body_len(IF sending THEN Other(e) ELSE e, f.type, f.len)
       /\ validate_inbound_flags(f.type, f.flags)
       /\ validate_frame_body(f.type, f.body, f.flags)
    THEN Admitted(e, c, Handshaken(c, f), sending, f) ELSE Poisoned(c)

(***************************************************************************)
(* Behaviour                                                               *)
(***************************************************************************)
Init ==
    /\ tls \in [mode : Modes, peer : Peers, outcome : {None}, fingerprint : {None}]
    /\ foreign \in {None, "client", "server"}
    /\ tls.mode = "plain" => tls.peer = CHOOSE p \in Peers : TRUE
    /\ foreign # None => tls.mode = "plain"   \* bound: the frames do not depend on it
    /\ conn = [e \in Ends |-> NewStream]
    /\ pipe = [e \in Ends |-> << >>]
    /\ cut = {}
    /\ last = [e \in Ends |-> None]
    /\ sends = [e \in Ends |-> 0]

Connect ==
    LET r == connect_tls(tls.mode, tls.peer)
    IN /\ tls.outcome = None
       /\ tls' = [tls EXCEPT !.outcome = r.outcome, !.fingerprint = r.fingerprint]
       /\ UNCHANGED <<conn, pipe, cut, last, foreign, sends>>

Alive(e) == tls.outcome = "connected" /\ foreign # e /\ ~conn[e].poisoned

\* Bound: how many frames an end writes.  Over TLS only the handshake is
\* exchanged: nothing after it depends on how the peer was authenticated.
Quota == IF foreign # None THEN MaxForeign ELSE IF tls.mode = "plain" THEN MaxSends ELSE 1

\* What a message is framed as.
FrameOf(m) ==
    LET b == Serialized(m)
    IN [type |-> m.type,
        flags |-> CASE m.type = "Page" -> encode_body(m).flags
                    [] m.type = "Update" -> m.flags
                    [] OTHER -> {},
        len |-> Len(b), body |-> b, meant |-> m]

\* A foreign end reads at once: only its newest frame is kept.
Arrives(e, f) == IF foreign = e THEN <<f>> ELSE Append(pipe[e], f)

\* send_frame: the frame is written only if every check passed.
Write(e, m) ==
    \E f \in {FrameOf(m)} : \E c \in {Passed(e, conn[e], TRUE, f)} :
       /\ conn' = [conn EXCEPT ![e] = c]
       /\ pipe' = IF c.poisoned \/ Other(e) \in cut THEN pipe
                  ELSE [pipe EXCEPT ![Other(e)] = Arrives(Other(e), f)]
       /\ sends' = [sends EXCEPT ![e] = @ + 1]
       /\ UNCHANGED <<tls, cut, last, foreign>>
Send(e) ==
    /\ Alive(e) /\ sends[e] < Quota
    /\ \E m \in IF e = "client" THEN ClientMessages ELSE ServerMessages :
        /\ Serialized(m) # Refused
        /\ apply(e, conn[e].phase, TRUE, m.type) # None \* the programs keep the order (AtpLink)
        /\ Write(e, m)

\* The server answers a HELLO with the capabilities both know.
Welcome ==
    LET c == conn["server"]
        caps == SelectSeq(c.offered, LAMBDA w : w \in ToSet(Supported))
        m == Control("Welcome", <<c.version>>,
                     IF caps = << >> THEN << >> ELSE [k \in {"Capabilities: "} |-> caps])
    IN /\ Alive("server") /\ c.phase = "HandshakeReply" /\ c.version = Version
       /\ Serialized(m) # Refused
       /\ Write("server", m)

\* It answers another version with an ERROR and ends; the gate of its own
\* transport stops that frame, which comes before any negotiation.
RefuseVersion ==
    /\ Alive("server") /\ conn["server"].phase = "HandshakeReply"
    /\ conn["server"].version # Version
    /\ Write("server", Control("Error", <<"505">>, [k \in {"Message: "} |-> <<"x">>]))

\* send_update_parts: the same checks, the body written from its parts.
SendUpdateParts ==
    /\ Alive("server") /\ sends["server"] < Quota
    /\ \E u \in UpdateParts :
        LET c == conn["server"]
            body == UpdateText(u.region, u.content)
            f == [type |-> "Update", flags |-> u.flags, len |-> Len(body), body |-> body,
                  meant |-> [type |-> "Update", region |-> u.region, content |-> u.content,
                             flags |-> u.flags]]
            ok == /\ validate_inbound_body_len("client", "Update", f.len)
                  /\ validate_update_parts(u.region, u.content)
                  /\ validate_capability(c, "Update", u.flags, FALSE)
                  /\ apply("server", c.phase, TRUE, "Update") # None
        IN /\ conn' = [conn EXCEPT !["server"] =
                 IF ok THEN [c EXCEPT !.phase = apply("server", c.phase, TRUE, "Update")]
                 ELSE Poisoned(c)]
           /\ pipe' = IF ok /\ "client" \notin cut
                      THEN [pipe EXCEPT !["client"] = Arrives("client", f)] ELSE pipe
           /\ sends' = [sends EXCEPT !["server"] = @ + 1]
           /\ UNCHANGED <<tls, cut, last, foreign>>

\* recv_frame: the header, then the body, then every check.
Receive(e) ==
    /\ Alive(e) /\ pipe[e] # << >>
    /\ \E f \in {Head(pipe[e])} :
       LET whole == Len(f.body) = f.len
           refused == \/ f.type = "Unknown"
                      \/ ~validate_inbound_body_len(e, f.type, f.len)
                      \/ ~validate_inbound_flags(f.type, f.flags)
       IN /\ refused \/ whole \/ e \in cut
          /\ \E c \in {IF refused \/ ~whole THEN Poisoned(conn[e])
                       ELSE Passed(e, conn[e], FALSE, f)} :
             /\ conn' = [conn EXCEPT ![e] = c]
             /\ last' = IF c.poisoned THEN last ELSE [last EXCEPT ![e] = f]
          /\ pipe' = [pipe EXCEPT ![e] = Tail(@)]
          /\ UNCHANGED <<tls, cut, foreign, sends>>
\* The stream ended between two frames.
ReceiveEnd(e) ==
    /\ Alive(e) /\ pipe[e] = << >> /\ e \in cut
    /\ conn' = [conn EXCEPT ![e] = Poisoned(@)]
    /\ UNCHANGED <<tls, pipe, cut, last, foreign, sends>>

\* A frame another implementation writes.
ForeignFrame(e) ==
    /\ tls.outcome = "connected" /\ foreign = Other(e) /\ e \notin cut
    /\ pipe[e] = << >>   \* bound: the reader takes one frame at a time anyway
    /\ sends[Other(e)] < Quota
    /\ \E f \in Foreign[e] : pipe' = [pipe EXCEPT ![e] = Append(@, f)]
    /\ sends' = [sends EXCEPT ![Other(e)] = @ + 1]
    /\ UNCHANGED <<tls, conn, cut, last, foreign>>

\* The stream towards e ends: shutdown, a dropped connection or a reset, which
\* may lose the end of the frame under way.
Cut(e) ==
    /\ tls.outcome = "connected" /\ cut = {}   \* bound: one stream is cut, a foreign one
    /\ foreign # None => \E i \in DOMAIN pipe[e] : pipe[e][i].len > Len(pipe[e][i].body) \* where it matters
    /\ cut' = cut \cup {e}
    /\ \/ UNCHANGED pipe
       \/ /\ foreign = None   \* bound: a foreign frame may itself announce more than it holds
          /\ pipe[e] # << >> /\ Last(pipe[e]).body # << >>
          /\ pipe' = [pipe EXCEPT ![e] = Append(Front(@), [Last(@) EXCEPT !.body = Front(@)])]
    /\ UNCHANGED <<tls, conn, last, foreign, sends>>

Next ==
    \/ Connect \/ Welcome \/ RefuseVersion \/ SendUpdateParts
    \/ \E e \in Ends : Send(e) \/ Receive(e) \/ ReceiveEnd(e) \/ ForeignFrame(e) \/ Cut(e)
Spec == Init /\ [][Next]_vars

(***************************************************************************)
(* Properties                                                              *)
(***************************************************************************)
\* What a reader of the delivered frame sees, and what its sender meant.
Read(f) == Parse(f.type, f.body, f.flags)
Normal(m) ==
    CASE m.type = "Page" -> [m EXCEPT !.flags = encode_body(m).flags]
      [] m.type \in ControlTypes ->
           [m EXCEPT !.fields = [k \in {n \in DOMAIN @ : @[n] # << >>} |-> @[k]]]
      [] OTHER -> m
\* The capabilities a message relies on, read from the message itself.
Needs(m) ==
    CASE m.type \in {"Subscribe", "Unsubscribe", "Update"} ->
           {"live-updates"} \cup (IF m.type = "Subscribe" /\ "Session: " \in DOMAIN m.fields
                                  THEN {"sessions"} ELSE {})
      [] m.type \in {"Get", "Input"} ->
           IF "Session: " \in DOMAIN m.fields THEN {"sessions"} ELSE {}
      [] m.type = "Resource" -> {"wasm-effects"}
      [] m.type = "Page" -> (IF m.path = None THEN {} ELSE {"page-path"})
                            \cup (IF m.dirs = << >> THEN {} ELSE {"sessions"})
                            \cup (IF "live" \in m.flags THEN {"live-updates"} ELSE {})
      [] OTHER -> {}

\* A frame recv_frame returned is one its consumer can read; when our own peer
\* wrote it, it reads as what the peer meant, wherever the stream was cut.
DeliveredAsMeant ==
    \A e \in Ends : last[e] # None =>
        /\ Read(last[e]) # Refused
        /\ last[e].meant # None => Read(last[e]) = Normal(last[e].meant)

\* The two readers of a PAGE agree on every body that arrives, whole or not
\* (page_validation_matches_decoding), and no other body passes the framing
\* check that its reader then refuses.
ReadersAgree ==
    \A e \in Ends : \A i \in DOMAIN pipe[e] :
        LET f == pipe[e][i]
        IN f.type # "Unknown" =>
            /\ validate_frame_body(f.type, f.body, f.flags) => Read(f) # Refused
            /\ f.type = "Page" /\ Read(f) # Refused => validate_frame_body("Page", f.body, f.flags)

\* Nothing an end accepts relies on a capability that end has not negotiated,
\* nothing it puts on the wire does, and two of our own ends negotiate alike.
NegotiationAgrees ==
    /\ \A e \in Ends :
        /\ last[e] # None /\ ~conn[e].poisoned =>
            Needs(Read(last[e])) \subseteq ToSet(conn[e].offered)
        /\ \A i \in DOMAIN pipe[e] : pipe[e][i].meant # None /\ ~conn[Other(e)].poisoned =>
            Needs(Normal(pipe[e][i].meant)) \subseteq ToSet(conn[Other(e)].offered)
    /\ (\A e \in Ends : conn[e].negotiated # None) => conn["client"].negotiated = conn["server"].negotiated

\* No frame crosses a connection whose peer did not prove the identity the
\* verification mode asks for, and a pin is only ever taken from the
\* certificate that was proved.
PeerAuthenticated ==
    tls.outcome = "connected" =>
        /\ tls.mode \in {"ca", "pinned", "tofu"} => tls.peer.holdsKey
        /\ tls.mode = "ca" => tls.peer.vouched
        /\ tls.mode = "pinned" => tls.peer.cert = Pin
        /\ tls.fingerprint # None => tls.fingerprint = tls.peer.cert /\ tls.peer.holdsKey

\* A connection carries only what both ends understand, from the peer it was
\* opened to: the four parts above.
WireFaithful == DeliveredAsMeant /\ ReadersAgree /\ NegotiationAgrees /\ PeerAuthenticated
=============================================================================
