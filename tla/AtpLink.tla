------------------------------ MODULE AtpLink ------------------------------
(***************************************************************************)
(* One viewer's connection: AtpClient (client.rs) driven by the terminal   *)
(* runner, its AtpConnection, the two ConnectionStateMachines of           *)
(* dustnet-core, and the server task at the other end (serve_connection).  *)
(*                                                                         *)
(* The client is one task: it blocks only where it dials or reads, so its  *)
(* operations are split exactly there (op.step).  The server task handles  *)
(* a frame, and sends what it answers, before it reads another.  Dropping  *)
(* the client's connection drops the server task and everything in flight: *)
(* a new dial starts from empty queues.  TLS, session tokens, capabilities *)
(* other than live-updates and the bytes of a body are left out.           *)
(***************************************************************************)
EXTENDS Integers, Sequences, FiniteSets

CONSTANTS
    Origins,     \* origins the user visits
    Regions,     \* live region names
    MaxPending,  \* MAX_PENDING_UPDATES
    MaxRequests, \* bound: requests and page activations in a behaviour
    MaxInFlight, \* bound: frames in flight when a PING, a resubscription or a push adds one
    Segmented    \* TRUE: a frame can arrive in pieces

ASSUME AtpLinkAssumption ==
    /\ {MaxPending, MaxRequests, MaxInFlight} \subseteq Nat
    /\ Segmented \in BOOLEAN
    /\ "none" \notin Origins

VARIABLES
    cli,  \* AtpClient and its AtpConnection
    wire, \* both directions of the connection, and the server task
    view, \* what the reducer holds: page scope, whether it is loaded, connection
    op,   \* the operation the client is blocked in
    reqs, \* requests and activations so far; also the next page generation
    out   \* what the last client step reported to the runner

vars == <<cli, wire, view, op, reqs, out>>

NoScope == [origin |-> "none", gen |-> 0]
Scopes  == [origin : Origins, gen : 1..MaxRequests] \cup {NoScope}

\* A frame.  id: which request a GET, INPUT or reply belongs to, and for SUBSCRIBE
\* and UPDATE the page generation the subscription was made for; neither is on the
\* wire, and no step of the code reads them.
Msg(type, id)         == [type |-> type, id |-> id, region |-> "none"]
RegionMsg(type, r, g) == [type |-> type, id |-> g, region |-> r]

Replies   == {"Page", "Redirect", "Error", "Resource"}
ClientOut == {"Hello", "Get", "Input", "Subscribe", "Unsubscribe", "Ping"}
ServerOut == {"Welcome", "Update", "Pong", "ServerBye"} \cup Replies
Phases    == {"Handshake", "HandshakeReply", "Ready", "ResponsePending", "Closed"}

-----------------------------------------------------------------------------
(* ConnectionStateMachine::apply, the rows of each endpoint.  BYE is sent  *)
(* only by a client that drops the connection with it (see Closed below).  *)

\* Mutant of ClientNext: a request may be sent while another is outstanding.
ClientNextPipelined(p, d, m) ==
    CASE p = "Handshake"      /\ d = "send"    /\ m = "Hello"   -> "HandshakeReply"
      [] p = "HandshakeReply" /\ d = "receive" /\ m = "Welcome" -> "Ready"
      [] p = "HandshakeReply" /\ d = "receive" /\ m \in {"Error", "ServerBye"} -> "Closed"
      [] p \in {"Ready", "ResponsePending"} /\ d = "send" /\ m \in {"Get", "Input"} -> "ResponsePending"
      [] p = "Ready" /\ d = "send" /\ m \in {"Subscribe", "Unsubscribe"} -> "Ready"
      [] p \in {"Ready", "ResponsePending"} /\ d = "send" /\ m = "Ping" -> p
      [] p \in {"Ready", "ResponsePending"} /\ d = "receive" /\ m \in {"Pong", "Update"} -> p
      [] p = "ResponsePending" /\ d = "receive" /\ m \in Replies -> "Ready"
      [] p \in {"Ready", "ResponsePending"} /\ d = "receive" /\ m = "ServerBye" -> "Closed"
      [] OTHER -> "illegal"

ClientNext(p, d, m) ==
    CASE p = "Handshake"      /\ d = "send"    /\ m = "Hello"   -> "HandshakeReply"
      [] p = "HandshakeReply" /\ d = "receive" /\ m = "Welcome" -> "Ready"
      [] p = "HandshakeReply" /\ d = "receive" /\ m \in {"Error", "ServerBye"} -> "Closed"
      [] p = "Ready" /\ d = "send" /\ m \in {"Get", "Input"} -> "ResponsePending"
      [] p = "Ready" /\ d = "send" /\ m \in {"Subscribe", "Unsubscribe"} -> "Ready"
      [] p \in {"Ready", "ResponsePending"} /\ d = "send" /\ m = "Ping" -> p
      [] p \in {"Ready", "ResponsePending"} /\ d = "receive" /\ m \in {"Pong", "Update"} -> p
      [] p = "ResponsePending" /\ d = "receive" /\ m \in Replies -> "Ready"
      [] p \in {"Ready", "ResponsePending"} /\ d = "receive" /\ m = "ServerBye" -> "Closed"
      [] OTHER -> "illegal"

ServerNext(p, d, m) ==
    CASE p = "Handshake"      /\ d = "receive" /\ m = "Hello"   -> "HandshakeReply"
      [] p = "HandshakeReply" /\ d = "send"    /\ m = "Welcome" -> "Ready"
      [] p = "HandshakeReply" /\ d = "send"    /\ m \in {"Error", "ServerBye"} -> "Closed"
      [] p = "Ready" /\ d = "receive" /\ m \in {"Get", "Input"} -> "ResponsePending"
      [] p = "Ready" /\ d = "receive" /\ m \in {"Subscribe", "Unsubscribe"} -> "Ready"
      [] p \in {"Ready", "ResponsePending"} /\ d = "receive" /\ m = "Ping" -> p
      [] p \in {"Ready", "ResponsePending"} /\ d = "send" /\ m \in {"Pong", "Update"} -> p
      [] p = "ResponsePending" /\ d = "send" /\ m \in Replies -> "Ready"
      [] p \in {"Ready", "ResponsePending"} /\ d = "send" /\ m = "ServerBye" -> "Closed"
      [] OTHER -> "illegal"

\* validate_capability: only HELLO and WELCOME pass before negotiation.
Negotiated(p, m) == m \in {"Hello", "Welcome"} \/ p \notin {"Handshake", "HandshakeReply"}

ClientTakes(p, d, m) == Negotiated(p, m) /\ ClientNext(p, d, m) # "illegal"
ServerTakes(p, d, m) == Negotiated(p, m) /\ ServerNext(p, d, m) # "illegal"

-----------------------------------------------------------------------------
(* AtpConnection: send_frame and recv_frame.  k is [c, w], the client and  *)
(* the wire; an operator returns k as the call leaves it.                  *)

Now == [c |-> cli, w |-> wire]
Becomes(k) == cli' = k.c /\ wire' = k.w

Fresh == [up |-> TRUE, phase |-> "Handshake", subs |-> <<>>, c2s |-> <<>>, s2c |-> <<>>,
          req |-> Msg("none", 0), reset |-> FALSE, torn |-> {}]

Poison(k) == [k EXCEPT !.c.poisoned = TRUE]

\* What sending m reports.
SendResult(k, m) ==
    IF ~k.c.conn \/ k.c.poisoned                 THEN "closed"
    ELSE IF ~ClientTakes(k.c.phase, "send", m.type) THEN "protocol"
    ELSE IF k.w.reset                            THEN "io"
    ELSE "ok"

\* The phase moves before the write; any error poisons.  A server that has gone
\* without a reset absorbs the frame.
Send(k, m) ==
    LET moved == [k EXCEPT !.c.phase = ClientNext(k.c.phase, "send", m.type)]
    IN  CASE SendResult(k, m) = "closed"   -> k
          [] SendResult(k, m) = "protocol" -> Poison(k)
          [] SendResult(k, m) = "io"       -> Poison(moved)
          [] OTHER -> IF k.w.up THEN [moved EXCEPT !.w.c2s = Append(@, m)] ELSE moved

\* recv_frame returns: there is a frame, or an error to report.
CanRead(k) == k.c.poisoned \/ "s2c" \in k.w.torn \/ k.w.s2c # <<>> \/ ~k.w.up

ReadResult(k) ==
    IF k.c.poisoned                 THEN "closed"
    ELSE IF "s2c" \in k.w.torn      THEN "protocol"
    ELSE IF k.w.s2c = <<>>          THEN IF k.w.reset THEN "io" ELSE "closed"
    ELSE IF ClientTakes(k.c.phase, "receive", Head(k.w.s2c).type) THEN "frame"
    ELSE "protocol"

Read(k) ==
    IF ReadResult(k) = "frame"
      THEN [k EXCEPT !.c.phase = ClientNext(@, "receive", Head(k.w.s2c).type),
                     !.w.s2c   = Tail(@)]
      ELSE Poison(k)

-----------------------------------------------------------------------------
(* AtpClient: the calls the operations are made of.                        *)

Gone == [Fresh EXCEPT !.up = FALSE]

\* close_connection: BYE and one read are best effort and bounded by 500 ms; the
\* connection is dropped whatever they return.
Closed(k) == [k EXCEPT !.c = [@ EXCEPT !.conn = FALSE, !.caps = FALSE, !.pending = <<>>,
                                       !.phase = "Handshake", !.poisoned = FALSE],
                       !.w = Gone]

RetireOrigin(k) == [Closed(k) EXCEPT !.c = [@ EXCEPT !.origin = "none", !.scope = NoScope,
                                                    !.active = {}]]

Unsubscribe(k) == [Send(k, Msg("Unsubscribe", 0)) EXCEPT !.c = [@ EXCEPT !.active = {}, !.pending = <<>>]]

Owned(k, s) == {a \in k.c.active : a.scope = s}
QueuedOthers(k, s) == SelectSeq(k.c.pending, LAMBDA u : u.scope # s)

\* Mutant of RetirePageWork: the server is not told.
RetirePageWorkSilently(k, s) ==
    [k EXCEPT !.c = [k.c EXCEPT !.active  = @ \ Owned(k, s),
                                !.pending = QueuedOthers(k, s),
                                !.scope   = IF @ = s THEN NoScope ELSE @]]

\* retire_page_work(s).
RetirePageWork(k, s) ==
    LET retired == IF k.c.scope = s /\ Owned(k, s) # {}
                     THEN Unsubscribe(k)
                     ELSE [k EXCEPT !.c = [k.c EXCEPT !.active  = @ \ Owned(k, s),
                                                      !.pending = QueuedOthers(k, s)]]
    IN  [retired EXCEPT !.c.scope = IF @ = s THEN NoScope ELSE @]

\* activate_page_scope(s).
ActivatePageScope(k, s) ==
    IF k.c.scope = s THEN k
    ELSE LET retired ==
               IF k.c.scope # NoScope /\ k.c.scope.origin # s.origin THEN RetireOrigin(k)
               ELSE LET told == IF k.c.active # {} /\ k.c.caps THEN Unsubscribe(k) ELSE k
                    IN  [told EXCEPT !.c = [@ EXCEPT !.active = {}, !.pending = <<>>]]
         IN [retired EXCEPT !.c.scope = s]

\* The effects of begin_navigation and activate_history_entry up to the one that
\* fetches or activates: RetirePageWork, and Close if the origin changes.
LeavePage(o) ==
    LET left == IF view.scope = NoScope THEN Now ELSE RetirePageWork(Now, view.scope)
    IN  IF view.scope # NoScope /\ view.scope.origin # o THEN RetireOrigin(left) ELSE left

\* owner_for_update: the active subscription of that region.
OwnersOf(k, r) == {a \in k.c.active : a.region = r}

Silent == [what |-> "none", want |-> 0, got |-> 0, why |-> "none"]
Delivered(owner, m) == [what |-> "update", want |-> owner.scope.gen, got |-> m.id, why |-> "none"]
Replied(m) == [what |-> "reply", want |-> op.id, got |-> m.id, why |-> m.type]
Failed(why) == [what |-> "failed", want |-> op.id, got |-> 0, why |-> why]

NoOp == [kind |-> "none", step |-> "none", tries |-> 0, scope |-> NoScope, id |-> 0, todo |-> {}]

\* An operation ends.  FetchFailed retires the page work of its scope.
Finish(k, ok, report) ==
    /\ op' = NoOp
    /\ out' = report
    /\ reqs' = reqs
    /\ CASE op.kind \in {"fetch", "submit"} /\ ok ->
              /\ view' = [view EXCEPT !.loaded = report.why = "Page"]
              /\ Becomes(k)
         [] op.kind \in {"fetch", "submit"} /\ ~ok ->
              /\ view' = [view EXCEPT !.online = FALSE]
              /\ Becomes(RetirePageWork(k, op.scope))
         [] op.kind = "reconnect" -> view' = [view EXCEPT !.online = ok] /\ Becomes(k)
         [] OTHER -> view' = view /\ Becomes(k)

\* Mutant of Fail: a fetch is retried as often as it fails.
FailRetries(k, why) ==
    IF op.kind = "fetch" /\ why \in {"closed", "io"}
      THEN /\ Becomes(Closed(k))
           /\ op' = [op EXCEPT !.step = "connect"]
           /\ out' = Silent
           /\ UNCHANGED <<view, reqs>>
      ELSE Finish(k, FALSE, Failed(why))

\* fetch retries once on ConnectionClosed and Io; the other operations never do.
Fail(k, why) ==
    IF op.kind = "fetch" /\ op.tries = 1 /\ why \in {"closed", "io"}
      THEN /\ Becomes(Closed(k))
           /\ op' = [op EXCEPT !.step = "connect", !.tries = 2]
           /\ out' = Silent
           /\ UNCHANGED <<view, reqs>>
      ELSE Finish(k, FALSE, Failed(why))

Goto(k, o) == Becomes(k) /\ op' = o /\ out' = Silent /\ UNCHANGED <<view, reqs>>

-----------------------------------------------------------------------------
Init ==
    /\ cli = [conn |-> FALSE, phase |-> "Handshake", poisoned |-> FALSE, caps |-> FALSE,
              origin |-> "none", scope |-> NoScope, active |-> {}, pending |-> <<>>]
    /\ wire = Gone
    /\ view = [scope |-> NoScope, loaded |-> FALSE, online |-> FALSE]
    /\ op = NoOp
    /\ reqs = 0
    /\ out = Silent

Idle == op.kind = "none"
Room == Len(wire.c2s) + Len(wire.s2c) < MaxInFlight

(* What the runner starts when the client is not blocked.                  *)

\* Navigate, Reload, a redirect followed, or a submitted form: new page scope.
Navigate(kind, o) ==
    LET s == [origin |-> o, gen |-> reqs + 1]
    IN  /\ Idle /\ reqs < MaxRequests
        /\ Becomes(ActivatePageScope(LeavePage(o), s))
        /\ view' = [scope |-> s, loaded |-> FALSE, online |-> TRUE]
        /\ op' = [NoOp EXCEPT !.kind = kind, !.step = "connect", !.tries = 1,
                              !.scope = s, !.id = reqs + 1]
        /\ reqs' = reqs + 1
        /\ out' = Silent

\* Back or Forward to a page kept in history: activated without a request.
ActivateCachedHistory(o) ==
    LET s == [origin |-> o, gen |-> reqs + 1]
    IN  /\ Idle /\ reqs < MaxRequests
        /\ view.scope # NoScope
        /\ Becomes(ActivatePageScope(LeavePage(o), s))
        /\ view' = [scope |-> s, loaded |-> TRUE,
                    online |-> view.online /\ view.scope.origin = o]
        /\ reqs' = reqs + 1
        /\ out' = Silent
        /\ UNCHANGED op

\* fetch_resource for the current page; a cached resource needs no request.
FetchResource ==
    /\ Idle /\ reqs < MaxRequests
    /\ view.loaded /\ cli.scope = view.scope
    /\ op' = [NoOp EXCEPT !.kind = "resource", !.step = "connect", !.tries = 1,
                          !.scope = view.scope, !.id = reqs + 1]
    /\ reqs' = reqs + 1
    /\ out' = Silent
    /\ UNCHANGED <<cli, wire, view>>

\* resubscribe_live: the page's live regions R differ from the active ones.
ResubscribeLive(R) ==
    LET k == IF cli.active # {} THEN Unsubscribe(Now) ELSE Now
    IN  /\ Idle /\ view.loaded
        /\ R # {a.region : a \in cli.active}
        /\ Room
        /\ IF view.online /\ R # {}
             THEN Goto(k, [NoOp EXCEPT !.kind = "resubscribe", !.step = "subscribe",
                                       !.scope = view.scope, !.todo = R])
             ELSE Goto(k, NoOp)

\* send_ping; its result is ignored.
SendPing ==
    /\ Idle /\ cli.conn
    /\ Room
    /\ Goto(Send(Now, Msg("Ping", 0)), NoOp)

\* An error of poll_update: TransportLost, and at once Connect, which closes the
\* connection and dials again for the same page.
TransportLost(k) ==
    IF k.c.scope # NoScope /\ k.c.scope.origin = view.scope.origin
      THEN Goto(Closed(k), [NoOp EXCEPT !.kind = "reconnect", !.step = "connect",
                                        !.tries = 1, !.scope = view.scope])
      ELSE Goto(k, NoOp)

\* poll_update with a queued update: deliver it, or drop one of another scope.
PollQueued ==
    LET u == Head(cli.pending)
    IN  /\ Idle /\ cli.active # {} /\ cli.pending # <<>>
        /\ cli' = [cli EXCEPT !.pending = Tail(@)]
        /\ out' = IF u.scope = cli.scope THEN Delivered(u, u.msg) ELSE Silent
        /\ UNCHANGED <<wire, view, op, reqs>>

\* poll_update reading the connection.
PollReads ==
    LET k == Read(Now)
        m == Head(wire.s2c)
        lost == [k EXCEPT !.c = [@ EXCEPT !.conn = FALSE, !.pending = <<>>,
                                          !.phase = "Handshake", !.poisoned = FALSE],
                          !.w = Gone]
    IN  /\ Idle /\ cli.active # {} /\ cli.pending = <<>>
        /\ cli.conn /\ CanRead(Now)
        /\ CASE ReadResult(Now) = "closed"             -> Goto(lost, NoOp)
             [] ReadResult(Now) \in {"io", "protocol"} -> TransportLost(k)
             [] OTHER ->
                  CASE m.type = "Update" /\ OwnersOf(k, m.region) = {} -> TransportLost(k)
                    [] m.type = "Update" /\ OwnersOf(k, m.region) # {} ->
                         /\ Becomes(k)
                         /\ \E a \in OwnersOf(k, m.region) : out' = Delivered(a, m)
                         /\ UNCHANGED <<view, op, reqs>>
                    [] m.type = "ServerBye" -> Goto(lost, NoOp)
                    [] m.type = "Error"     -> TransportLost(k)
                    [] OTHER                -> Goto(k, NoOp)

\* The poll's timeout drops a read that had consumed part of a frame.
PollTimesOut ==
    /\ Segmented
    /\ Idle /\ cli.active # {} /\ cli.pending = <<>>
    /\ cli.conn /\ ~cli.poisoned /\ wire.s2c # <<>>
    /\ Goto([Now EXCEPT !.w.torn = @ \cup {"s2c"}], NoOp)

\* Shutdown of the viewer: the Close effect.
Disconnect == Idle /\ Goto(RetireOrigin(Now), [NoOp EXCEPT !.kind = "quit"])

-----------------------------------------------------------------------------
(* The blocking operations.                                                *)

\* ensure_connected_to: reuse the connection, or close it and dial.
Reuse ==
    /\ op.step = "connect"
    /\ cli.origin = op.scope.origin /\ cli.conn
    /\ Goto(Now, [op EXCEPT !.step = "request"])

Undialled == IF cli.origin \notin {"none", op.scope.origin} THEN RetireOrigin(Now) ELSE Closed(Now)

MustDial == op.step = "connect" /\ ~(cli.origin = op.scope.origin /\ cli.conn)

\* Refused (Io) or not answered within NETWORK_TIMEOUT.
DialFails == MustDial /\ \E why \in {"io", "timeout"} : Fail(Undialled, why)

\* Connected: HELLO is sent.
DialSucceeds ==
    LET k == [Undialled EXCEPT !.c = [@ EXCEPT !.conn = TRUE, !.origin = op.scope.origin],
                               !.w = Fresh]
    IN  MustDial /\ Goto(Send(k, Msg("Hello", 0)), [op EXCEPT !.step = "hello"])

\* The replay of subscriptions, when the handshake is done.
Replay(k) ==
    Goto(k, [op EXCEPT !.step = "replay",
                       !.todo = {a.region : a \in Owned(k, k.c.scope)}])

\* recv_response of do_handshake.
HelloReads ==
    LET k == Read(Now)
    IN  /\ op.step = "hello" /\ CanRead(Now)
        /\ IF ReadResult(Now) # "frame" THEN Fail(k, ReadResult(Now))
           ELSE CASE Head(wire.s2c).type = "Welcome"   -> Replay([k EXCEPT !.c.caps = TRUE])
                  [] Head(wire.s2c).type = "ServerBye" -> Fail(k, "closed")
                  [] OTHER                             -> Fail(k, "unexpected")

\* One SUBSCRIBE of the replay, or the end of it.
ReplayOne ==
    /\ op.step = "replay"
    /\ \/ \E r \in op.todo :
            LET m == RegionMsg("Subscribe", r, cli.scope.gen)
            IN  IF SendResult(Now, m) = "ok"
                  THEN Goto(Send(Now, m), [op EXCEPT !.todo = @ \ {r}])
                  ELSE Fail(Send(Now, m), SendResult(Now, m))
       \/ /\ op.todo = {}
          /\ IF op.kind = "reconnect" THEN Finish(Now, TRUE, Silent)
             ELSE Goto(Now, [op EXCEPT !.step = "request"])

\* GET or INPUT.
SendRequest ==
    LET m == Msg(IF op.kind = "submit" THEN "Input" ELSE "Get", op.id)
    IN  /\ op.step = "request"
        /\ IF op.kind = "resource" /\ ~cli.caps THEN Fail(Now, "capability")
           ELSE \/ op.kind = "resource" /\ Finish(Now, TRUE, Silent) \* resource_cache hit
                \/ IF SendResult(Now, m) = "ok"
                     THEN Goto(Send(Now, m), [op EXCEPT !.step = "wait"])
                     ELSE Fail(Send(Now, m), SendResult(Now, m))

\* The replies that are not an error for the caller.
Expected(kind) == IF kind = "resource" THEN {"Resource"} ELSE {"Page", "Redirect"}

\* recv_response: queue UPDATEs, pass over PONGs, return the reply.
ReplyReads ==
    LET k == Read(Now)
        m == Head(wire.s2c)
    IN  /\ op.step = "wait" /\ CanRead(Now)
        /\ CASE ReadResult(Now) # "frame" -> Fail(k, ReadResult(Now))
             [] OTHER ->
                  CASE m.type = "Update" ->
                         IF Len(cli.pending) >= MaxPending        THEN Fail(k, "too many")
                         ELSE IF OwnersOf(k, m.region) = {}       THEN Fail(k, "unsubscribed")
                         ELSE \E a \in OwnersOf(k, m.region) :
                                Goto([k EXCEPT !.c.pending = Append(@, [scope |-> a.scope, msg |-> m])], op)
                    [] m.type = "Pong"      -> Goto(k, op)
                    [] m.type = "ServerBye" -> Fail(k, "closed")
                    [] OTHER -> Finish(k, m.type \in Expected(op.kind), Replied(m))

\* NETWORK_TIMEOUT around recv_response; the connection is left as it is.
TimesOut ==
    /\ op.step \in {"hello", "wait"}
    /\ Fail(Now, "timeout")

\* subscribe_with_projection for each live region of the page.  An error of one
\* region is reported and the next one tried.
SubscribeOne ==
    /\ op.step = "subscribe"
    /\ \/ \E r \in op.todo :
            LET m == RegionMsg("Subscribe", r, view.scope.gen)
                owns == cli.caps /\ cli.scope = view.scope
                sent == owns /\ SendResult(Now, m) = "ok"
                k == IF owns THEN Send(Now, m) ELSE Now
            IN  Goto(IF sent THEN [k EXCEPT !.c.active = @ \cup {[region |-> r, scope |-> view.scope]}]
                             ELSE k,
                     [op EXCEPT !.todo = @ \ {r}])
       \/ op.todo = {} /\ Goto(Now, NoOp)

-----------------------------------------------------------------------------
(* The server task.                                                        *)

ServerDown(w) == [w EXCEPT !.up = FALSE, !.subs = <<>>, !.c2s = <<>>]
ServerSend(w, m) == [w EXCEPT !.phase = ServerNext(@, "send", m.type), !.s2c = Append(@, m)]

ServerBecomes(w) == wire' = w /\ out' = Silent /\ UNCHANGED <<cli, view, op, reqs>>

\* Mutant of RefuseSubscribe: an ERROR that nobody waits for.
RefuseSubscribeWithError(w) == [w EXCEPT !.s2c = Append(@, Msg("Error", 0))]

\* serve_subscription fails, or the subscription limit is reached.
RefuseSubscribe(w) == ServerDown(w)

\* A frame is read and handled; a SUBSCRIBE that cannot be served, like any frame
\* that is refused, ends the connection.  GET and INPUT are answered in Answer.
ServerReads ==
    LET m == Head(wire.c2s)
        w == [wire EXCEPT !.phase = ServerNext(@, "receive", m.type), !.c2s = Tail(@)]
    IN  /\ wire.up /\ wire.phase # "ResponsePending"
        /\ wire.c2s # <<>>
        /\ IF "c2s" \in wire.torn \/ ~ServerTakes(wire.phase, "receive", m.type)
             THEN ServerBecomes(ServerDown(wire))
             ELSE CASE m.type = "Hello" -> ServerBecomes(ServerSend(w, Msg("Welcome", 0)))
                    [] m.type \in {"Get", "Input"} -> ServerBecomes([w EXCEPT !.req = m])
                    [] m.type = "Subscribe" ->
                         \/ ServerBecomes([ServerSend(w, RegionMsg("Update", m.region, m.id))
                                             EXCEPT !.subs = Append(@, m)])
                         \/ ServerBecomes(RefuseSubscribe(w))
                    [] m.type = "Unsubscribe" -> ServerBecomes([w EXCEPT !.subs = <<>>])
                    [] m.type = "Ping" -> ServerBecomes(ServerSend(w, Msg("Pong", 0)))

\* serve_get or serve_input answers.
Answer ==
    /\ wire.up /\ wire.phase = "ResponsePending"
    /\ \E t \in IF wire.req.type = "Input" THEN Replies \ {"Resource"} ELSE Replies :
         ServerBecomes([ServerSend(wire, Msg(t, wire.req.id)) EXCEPT !.req = Msg("none", 0)])

\* A wake: flush_subscriptions pushes an UPDATE.  If a client frame has arrived in
\* part, select! drops the read that had consumed it.
Push ==
    /\ wire.up /\ wire.phase = "Ready"
    /\ Room
    /\ \E i \in DOMAIN wire.subs :
         LET w == ServerSend(wire, RegionMsg("Update", wire.subs[i].region, wire.subs[i].id))
         IN  \/ ServerBecomes(w)
             \/ Segmented /\ wire.c2s # <<>> /\ ServerBecomes([w EXCEPT !.torn = @ \cup {"c2s"}])

\* serve_connection returns an error: the HELLO or idle deadline, a failed flush, a
\* request it cannot parse.  The stream is dropped without SERVER_BYE.
ServerLeaves == wire.up /\ ServerBecomes(ServerDown(wire))

\* The shutdown arm of the select!.
ServerShutsDown ==
    /\ wire.up /\ wire.phase = "Ready"
    /\ ServerBecomes(ServerDown(ServerSend(wire, Msg("ServerBye", 0))))

\* The connection is reset: what is in flight is lost with the server task.
Reset ==
    /\ cli.conn /\ ~wire.reset
    /\ ServerBecomes([ServerDown(wire) EXCEPT !.s2c = <<>>, !.reset = TRUE])

-----------------------------------------------------------------------------
Starts ==
    \/ \E o \in Origins : \/ Navigate("fetch", o) \/ Navigate("submit", o)
                         \/ ActivateCachedHistory(o)
    \/ FetchResource \/ SendPing \/ Disconnect
    \/ \E R \in SUBSET Regions : ResubscribeLive(R)

Polls == PollQueued \/ PollReads \/ PollTimesOut

Blocked ==
    \/ Reuse \/ DialFails \/ DialSucceeds \/ HelloReads \/ ReplayOne
    \/ SendRequest \/ ReplyReads \/ TimesOut \/ SubscribeOne

Server == ServerReads \/ Answer \/ Push \/ ServerLeaves \/ ServerShutsDown \/ Reset

Next == Starts \/ Polls \/ Blocked \/ Server

Spec == Init /\ [][Next]_vars

\* The client task runs whenever it can: a dial, a read and a write end, at the
\* latest with NETWORK_TIMEOUT, and the runner's loop polls at least every 250 ms.
\* Nothing is assumed of the server, the network or the user.
Fairness == WF_vars(Blocked) /\ WF_vars(TimesOut) /\ WF_vars(PollQueued \/ PollReads)

FairSpec == Spec /\ Fairness

-----------------------------------------------------------------------------
(* Properties.                                                             *)

Frames == [type : ClientOut \cup ServerOut \cup {"none"}, id : 0..MaxRequests,
           region : Regions \cup {"none"}]

TypeOK ==
    /\ cli \in [conn : BOOLEAN, phase : Phases, poisoned : BOOLEAN, caps : BOOLEAN,
               origin : Origins \cup {"none"}, scope : Scopes,
               active : SUBSET [region : Regions, scope : Scopes],
               pending : Seq([scope : Scopes, msg : Frames])]
    /\ wire \in [up : BOOLEAN, phase : Phases, subs : Seq(Frames), c2s : Seq(Frames),
                s2c : Seq(Frames), req : Frames, reset : BOOLEAN, torn : SUBSET {"c2s", "s2c"}]
    /\ view \in [scope : Scopes, loaded : BOOLEAN, online : BOOLEAN]
    /\ op \in [kind : {"none", "fetch", "submit", "resource", "reconnect", "resubscribe", "quit"},
              step : {"none", "connect", "hello", "replay", "request", "wait", "subscribe"},
              tries : 0..2, scope : Scopes, id : 0..MaxRequests, todo : SUBSET Regions]
    /\ reqs \in 0..MaxRequests

\* Frames of a type in a queue.
CountOf(q, T) == Cardinality({i \in DOMAIN q : q[i].type \in T})

\* "one GET/INPUT is outstanding at a time": as long as both ends are there, the
\* client waits for a reply exactly when one request is on its way, being answered
\* or answered on its way back.
OneOutstanding ==
    cli.conn /\ ~cli.poisoned /\ wire.up =>
      CountOf(wire.c2s, {"Get", "Input"}) + CountOf(wire.s2c, Replies)
        + (IF wire.phase = "ResponsePending" THEN 1 ELSE 0)
      = (IF cli.phase = "ResponsePending" THEN 1 ELSE 0)

\* Whatever the user, the server and the network do, neither end ever reads a frame
\* that its state table refuses, unless a read was torn.
NoProtocolViolation ==
    /\ cli.conn /\ ~cli.poisoned /\ "s2c" \notin wire.torn /\ wire.s2c # <<>> =>
         ClientTakes(cli.phase, "receive", Head(wire.s2c).type)
    /\ wire.up /\ wire.phase # "ResponsePending" /\ "c2s" \notin wire.torn /\ wire.c2s # <<>> =>
         ServerTakes(wire.phase, "receive", Head(wire.c2s).type)

\* A reply given to a caller answers that caller's request, also when an earlier
\* request of the same connection timed out and its reply comes late.
ReplyMatchesRequest == out.what = "reply" => out.got = out.want

\* What the server will be subscribed to when it has read everything in flight.
Unread == LET cut == {i \in DOMAIN wire.c2s : wire.c2s[i].type = "Unsubscribe"}
          IN  {i \in DOMAIN wire.c2s : wire.c2s[i].type = "Subscribe" /\ \A j \in cut : j < i}
Subscribed ==
    {<<wire.c2s[i].region, wire.c2s[i].id>> : i \in Unread} \cup
    (IF CountOf(wire.c2s, {"Unsubscribe"}) > 0 THEN {}
     ELSE {<<wire.subs[i].region, wire.subs[i].id>> : i \in DOMAIN wire.subs})

Wanted == {<<a.region, a.scope.gen>> : a \in cli.active}

\* A subscription of a page that was left never stays behind at the server: once it
\* has read what is in flight, it pushes only regions the client holds as active.
NoLeakedSubscription ==
    cli.conn /\ ~cli.poisoned /\ wire.up => Subscribed \subseteq Wanted

\* Every operation ends, whatever the server and the network do.
OperationEnds == op.kind \notin {"none", "quit"} ~> op.kind \in {"none", "quit"}

\* "UPDATEs may arrive while a request is outstanding; clients must retain them and
\* continue waiting": no request fails because of an UPDATE.
UpdatesDoNotFailRequests == out.why # "unsubscribed"

\* "Replayed by ensure_connected whenever it opens a fresh connection so that a
\* server-side idle disconnect (or any other transparent reconnect) doesn't silently
\* drop live updates": while the server can be reached and nothing fails, a page with
\* active regions is connected again.
LiveUpdatesRecover ==
    [](out.what # "failed") => ((cli.active # {} /\ ~cli.conn) ~> (cli.active = {} \/ cli.conn))

\* "The client sends UNSUBSCRIBE before navigating away from a page or re-subscribing,
\* ensuring the server stops pushing stale updates": an update shown for a page was
\* pushed for a subscription of that page.
\* It does not hold for the code: see the README, known divergences.
UpdateIsOfThisPage == out.what = "update" => out.got = out.want

\* "timeout - no update available": a poll that reports nothing has consumed nothing.
PollsReadWholeFrames == "s2c" \notin wire.torn
=============================================================================
