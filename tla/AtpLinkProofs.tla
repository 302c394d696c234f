--------------------------- MODULE AtpLinkProofs ---------------------------
(***************************************************************************)
(* TLAPS proofs about AtpLink, for any origins, regions and bounds.        *)
(***************************************************************************)
EXTENDS AtpLink, FiniteSetTheorems, SequenceTheorems, TLAPS

Req == {"Get", "Input"}
Ask == {"Subscribe", "Unsubscribe", "Ping"}
Unasked == {"Update", "Pong", "ServerBye"}
Lasting == ServerOut \ {"ServerBye"}
Cut     == {"Unsubscribe"}

Only(q, T)      == \A i \in DOMAIN q : q[i].type \in T
Has(q, T)       == \E i \in DOMAIN q : q[i].type \in T
AtMostOne(q, T) == \A i, j \in DOMAIN q : q[i].type \in T /\ q[j].type \in T => i = j
Carry(q, T, n)  == \A i \in DOMAIN q : q[i].type \in T => q[i].id = n

-----------------------------------------------------------------------------
(* The inductive invariant.                                                *)

Message == [type : ClientOut \cup ServerOut \cup {"none"}, id : Nat, region : Regions \cup {"none"}]
Scope   == [origin : Origins \cup {"none"}, gen : Nat]

\* The records; what pending holds is left open.
CliType(c) ==
    /\ c \in [conn : BOOLEAN, phase : Phases, poisoned : BOOLEAN, caps : BOOLEAN,
              origin : Origins \cup {"none"}, scope : Scope,
              active : SUBSET [region : Regions, scope : Scope], pending : {c.pending}]
    /\ \A a \in c.active : a.scope = c.scope

WireType(w) ==
    w \in [up : BOOLEAN, phase : Phases, subs : Seq(Message), c2s : Seq(Message),
           s2c : Seq(Message), req : Message, reset : BOOLEAN, torn : SUBSET {"c2s", "s2c"}]

Op == [kind : {"none", "fetch", "submit", "resource", "reconnect", "resubscribe", "quit"},
       step : {"none", "connect", "hello", "replay", "request", "wait", "subscribe"},
       tries : 0..2, scope : Scope, id : Nat, todo : SUBSET Regions]

View == [scope : Scope, loaded : BOOLEAN, online : BOOLEAN]

\* The server task and the two queues, whatever the client thinks of them.
Pipe(w) ==
    /\ w.reset => ~w.up
    /\ ~w.up => w.c2s = <<>> /\ w.subs = <<>>
    /\ Only(w.s2c, ServerOut)
    /\ \A i \in DOMAIN w.s2c : w.s2c[i].type = "ServerBye" => ~w.up /\ i = Len(w.s2c)
    /\ w.up => \/ /\ w.phase = "Handshake"
                  /\ Len(w.c2s) = 1 /\ w.c2s[1].type = "Hello"
                  /\ w.s2c = <<>> /\ w.subs = <<>>
               \/ w.phase \in {"Ready", "ResponsePending"} /\ Only(w.c2s, Req \cup Ask)

\* The handshake: HELLO is on its way, or only its answer is.
Greeting(w) ==
    /\ w.up => /\ w.subs = <<>>
               /\ \/ w.phase = "Handshake"
                  \/ w.phase = "Ready" /\ w.c2s = <<>> /\ Len(w.s2c) = 1
    /\ \A i \in DOMAIN w.s2c : w.s2c[i].type = IF i = 1 THEN "Welcome" ELSE "ServerBye"

\* No request is outstanding.
Quiet(w) ==
    /\ Only(w.s2c, Unasked)
    /\ w.up => w.phase = "Ready" /\ Only(w.c2s, Ask)

\* One request is: unread, in service, or answered.
Outstanding(w) ==
    /\ Only(w.s2c, Unasked \cup Replies)
    /\ AtMostOne(w.s2c, Replies)
    /\ w.up => /\ w.phase \in {"Ready", "ResponsePending"}
               /\ Only(w.c2s, Req \cup Ask)
               /\ AtMostOne(w.c2s, Req)
               /\ IF w.phase = "ResponsePending" THEN ~Has(w.c2s, Req) /\ ~Has(w.s2c, Replies)
                  ELSE Has(w.c2s, Req) <=> ~Has(w.s2c, Replies)

\* The client's phase fits what is on the wire.
Tied(p, w) ==
    /\ p # "Handshake"
    /\ p = "HandshakeReply"  => Greeting(w)
    /\ p = "Ready"           => Quiet(w)
    /\ p = "ResponsePending" => Outstanding(w)
    /\ p = "Closed"          => ~w.up /\ w.s2c = <<>>

\* The SUBSCRIBEs of q behind its last UNSUBSCRIBE are in W.
Latest(q, W) ==
    \A i \in DOMAIN q :
        q[i].type = "Subscribe" /\ (\A j \in DOMAIN q : q[j].type = "Unsubscribe" => j < i)
        => <<q[i].region, q[i].id>> \in W

\* What the server is, or will be, subscribed to is in W.
SubsIn(w, W) ==
    /\ Latest(w.c2s, W)
    /\ ~Has(w.c2s, Cut) =>
         \A i \in DOMAIN w.subs : <<w.subs[i].region, w.subs[i].id>> \in W

\* Nothing has been asked for before capabilities were granted.
NoSubs(w) == w.subs = <<>> /\ ~Has(w.c2s, {"Subscribe"})

WantedBy(c) == {<<a.region, a.scope.gen>> : a \in c.active}

Alive(c) == c.conn /\ ~c.poisoned

\* A client and its wire, with no subscription at the server but those of W.
LinkTo(k, W) ==
    /\ k = [c |-> k.c, w |-> k.w]
    /\ CliType(k.c) /\ WireType(k.w) /\ Pipe(k.w)
    /\ ~k.c.conn => k.w = Gone
    /\ Alive(k.c) => Tied(k.c.phase, k.w) /\ SubsIn(k.w, W)
    /\ k.c.conn /\ ~k.c.caps => NoSubs(k.w)

Link(k) == LinkTo(k, WantedBy(k.c))

\* Every request on the wire, and every reply, is the one that waits.
Awaits(w, n) ==
    /\ Carry(w.c2s, Req, n) /\ Carry(w.s2c, Replies, n)
    /\ w.up /\ w.phase = "ResponsePending" => w.req.id = n

\* The operation fits the connection: a waiting one has its request or its reply on the
\* wire, a replaying one names active regions.
Fits(o, k) ==
    /\ o \in Op
    /\ o.kind = "none" => o.step = "none"
    /\ o.step = "wait" => Alive(k.c) /\ k.c.phase = "ResponsePending" /\ Awaits(k.w, o.id)
    /\ o.step = "replay" => k.c.caps /\ \A r \in o.todo : \E a \in k.c.active : a.region = r

Operation == Fits(op, Now) /\ reqs \in Nat /\ view \in View

Inv == Link(Now) /\ Operation /\ ReplyMatchesRequest

-----------------------------------------------------------------------------
(* Sequences of frames.                                                    *)

LEMMA AppendAt ==
  ASSUME NEW S, NEW q \in Seq(S), NEW m \in S
  PROVE  /\ Append(q, m) \in Seq(S)
         /\ Len(Append(q, m)) = Len(q) + 1
         /\ DOMAIN Append(q, m) = DOMAIN q \cup {Len(q) + 1}
         /\ DOMAIN q = 1..Len(q) /\ Len(q) \in Nat
         /\ \A i \in DOMAIN q : Append(q, m)[i] = q[i]
         /\ Append(q, m)[Len(q) + 1] = m
  BY AppendProperties, LenProperties

LEMMA TailAt ==
  ASSUME NEW S, NEW q \in Seq(S), q # <<>>
  PROVE  /\ Tail(q) \in Seq(S)
         /\ Head(q) \in S /\ Head(q) = q[1] /\ 1 \in DOMAIN q
         /\ Len(q) \in Nat \ {0} /\ Len(Tail(q)) = Len(q) - 1
         /\ DOMAIN q = 1..Len(q)
         /\ DOMAIN Tail(q) = 1..(Len(q) - 1)
         /\ \A i \in DOMAIN Tail(q) : i + 1 \in DOMAIN q /\ Tail(q)[i] = q[i + 1]
  BY HeadTailProperties, LenProperties, ElementOfSeq

\* Reading the head of a queue.
LEMMA TailKeeps ==
  ASSUME NEW q \in Seq(Message), q # <<>>
  PROVE  /\ \A T : Only(q, T) => Only(Tail(q), T)
         /\ \A T : AtMostOne(q, T) => AtMostOne(Tail(q), T)
         /\ \A T : AtMostOne(q, T) /\ Head(q).type \in T => ~Has(Tail(q), T)
         /\ \A T : Head(q).type \notin T => (Has(Tail(q), T) <=> Has(q, T))
         /\ \A T : Has(Tail(q), T) => Has(q, T)
         /\ \A T : Head(q).type \in T => Has(q, T)
         /\ \A T, n : Carry(q, T, n) => Carry(Tail(q), T, n)
         /\ \A W : Latest(q, W) => Latest(Tail(q), W)
<1> DEFINE t == Tail(q)
<1>0. /\ Head(q) = q[1] /\ 1 \in DOMAIN q /\ Len(q) \in Nat \ {0}
      /\ DOMAIN q = 1..Len(q) /\ DOMAIN t = 1..(Len(q) - 1)
      /\ \A i \in DOMAIN t : i + 1 \in DOMAIN q /\ t[i] = q[i + 1]
  BY TailAt
<1> HIDE DEF t
<1>1. ASSUME NEW i \in DOMAIN q, i # 1 PROVE i - 1 \in DOMAIN t /\ t[i - 1] = q[i]
  <2>1. i \in Int /\ i - 1 \in 1..(Len(q) - 1) /\ (i - 1) + 1 = i
    BY <1>0, <1>1
  <2> QED
    BY <1>0, <2>1
<1>2. ASSUME NEW T, Only(q, T) PROVE Only(t, T)
  BY <1>0, <1>2 DEF Only
<1>3. ASSUME NEW T, AtMostOne(q, T) PROVE AtMostOne(t, T)
  BY <1>0, <1>3 DEF AtMostOne
<1>4. ASSUME NEW T, AtMostOne(q, T), Head(q).type \in T PROVE ~Has(t, T)
  BY <1>0, <1>4 DEF AtMostOne, Has
<1>5. ASSUME NEW T PROVE Has(t, T) => Has(q, T)
  BY <1>0 DEF Has
<1>8. ASSUME NEW T, Head(q).type \notin T, Has(q, T) PROVE Has(t, T)
  BY <1>0, <1>1, <1>8 DEF Has
<1>9. ASSUME NEW T, Head(q).type \in T PROVE Has(q, T)
  BY <1>0, <1>9 DEF Has
<1>6. ASSUME NEW T, NEW n, Carry(q, T, n) PROVE Carry(t, T, n)
  BY <1>0, <1>6 DEF Carry
<1>7. ASSUME NEW W, Latest(q, W) PROVE Latest(t, W)
  <2> SUFFICES ASSUME NEW i \in DOMAIN t, t[i].type = "Subscribe",
                      \A j \in DOMAIN t : t[j].type = "Unsubscribe" => j < i
               PROVE  <<t[i].region, t[i].id>> \in W
    BY DEF Latest
  <2>1. i + 1 \in DOMAIN q /\ t[i] = q[i + 1]
    BY <1>0
  <2>2. \A j \in DOMAIN q : q[j].type = "Unsubscribe" => j < i + 1
    BY <1>0, <1>1
  <2> QED
    BY <1>7, <2>1, <2>2 DEF Latest
<1> QED
  BY <1>2, <1>3, <1>4, <1>5, <1>6, <1>7, <1>8, <1>9 DEF t

\* t is q with m at its end.
Added(t, q, m) == t = Append(q, m)

\* What follows for the frames of t.
Grown(t, q, m) ==
    /\ t \in Seq(Message)
    /\ \A T : Only(t, T) <=> Only(q, T) /\ m.type \in T
    /\ \A T : (m.type \notin T \/ ~Has(q, T)) /\ AtMostOne(q, T) => AtMostOne(t, T)
    /\ \A T : Has(t, T) <=> Has(q, T) \/ m.type \in T
    /\ \A T, n : Carry(t, T, n) <=> Carry(q, T, n) /\ (m.type \in T => m.id = n)
    /\ \A W : Latest(q, W) /\ (m.type = "Subscribe" => <<m.region, m.id>> \in W) => Latest(t, W)
    /\ m.type = "Unsubscribe" => \A W : Latest(t, W)

LEMMA AppendKeeps ==
  ASSUME NEW q \in Seq(Message), NEW m \in Message, NEW t, Added(t, q, m)
  PROVE  Grown(t, q, m)
<1> DEFINE z == Len(q) + 1
<1>0. /\ DOMAIN q = 1..Len(q) /\ Len(q) \in Nat /\ t \in Seq(Message) /\ Len(t) = z
      /\ DOMAIN t = DOMAIN q \cup {z} /\ t[z] = m /\ z \notin DOMAIN q
      /\ \A i \in DOMAIN q : t[i] = q[i] /\ i < z
  BY AppendAt DEF Added
<1>2. ASSUME NEW T PROVE Only(t, T) <=> Only(q, T) /\ m.type \in T
  BY <1>0 DEF Only
<1>3. ASSUME NEW T, m.type \notin T \/ ~Has(q, T), AtMostOne(q, T) PROVE AtMostOne(t, T)
  BY <1>0, <1>3 DEF AtMostOne, Has
<1>4. ASSUME NEW T PROVE Has(t, T) <=> Has(q, T) \/ m.type \in T
  BY <1>0 DEF Has
<1>5. ASSUME NEW T, NEW n PROVE Carry(t, T, n) <=> Carry(q, T, n) /\ (m.type \in T => m.id = n)
  BY <1>0 DEF Carry
<1>6. ASSUME NEW W, Latest(q, W), m.type = "Subscribe" => <<m.region, m.id>> \in W
      PROVE  Latest(t, W)
  BY <1>0, <1>6 DEF Latest
<1>7. ASSUME m.type = "Unsubscribe", NEW W PROVE Latest(t, W)
  BY <1>0, <1>7 DEF Latest
<1> QED
  BY <1>0, <1>2, <1>3, <1>4, <1>5, <1>6, <1>7 DEF Grown

\* The rows of the two tables that the proofs use.
LEMMA ServerRows ==
  /\ ServerNext("Handshake", "receive", "Hello") = "HandshakeReply"
  /\ ServerNext("HandshakeReply", "send", "Welcome") = "Ready"
  /\ \A t \in Req : ServerNext("Ready", "receive", t) = "ResponsePending"
  /\ \A t \in Ask : ServerNext("Ready", "receive", t) = "Ready"
  /\ \A t \in {"Pong", "Update"}, p \in {"Ready", "ResponsePending"} : ServerNext(p, "send", t) = p
  /\ \A t \in Replies : ServerNext("ResponsePending", "send", t) = "Ready"
  /\ \A p \in {"Ready", "ResponsePending"} : ServerNext(p, "send", "ServerBye") = "Closed"
  BY DEF ServerNext, Req, Ask, Replies

-----------------------------------------------------------------------------
(* The steps of the server task, on the wire alone.                        *)

Wire(w) == WireType(w) /\ Pipe(w)

\* What a step of the server keeps, whatever the client's phase, its
\* subscriptions and the request it awaits.
Keeps(w, v) ==
    /\ Wire(v)
    /\ \A p \in Phases : Tied(p, w) => Tied(p, v)
    /\ \A W : SubsIn(w, W) => SubsIn(v, W)
    /\ NoSubs(w) => NoSubs(v)
    /\ \A n \in Nat : Awaits(w, n) => Awaits(v, n)

\* The server task ends.
LEMMA DownKeeps ==
  ASSUME NEW w, Wire(w), NEW t, WireType(t), t.s2c = w.s2c
  PROVE  Keeps(w, ServerDown(t))
<1> DEFINE v == ServerDown(t)
<1>0. v.up = FALSE /\ v.subs = <<>> /\ v.c2s = <<>> /\ v.s2c = w.s2c /\ WireType(v)
  BY EmptySeq DEF ServerDown, WireType, Wire
<1> HIDE DEF v
<1>1. Wire(v)
  BY <1>0 DEF Wire, Pipe
<1>2. ASSUME NEW p \in Phases, Tied(p, w) PROVE Tied(p, v)
  BY <1>0, <1>2 DEF Tied, Greeting, Quiet, Outstanding
<1>3. ASSUME NEW W, SubsIn(w, W) PROVE SubsIn(v, W)
  BY <1>0, <1>3 DEF SubsIn, Latest
<1>4. NoSubs(v)
  BY <1>0 DEF NoSubs, Has
<1>5. ASSUME NEW n \in Nat, Awaits(w, n) PROVE Awaits(v, n)
  BY <1>0, <1>5 DEF Awaits, Carry
<1> QED
  BY <1>1, <1>2, <1>3, <1>4, <1>5 DEF Keeps, v

\* A frame is read: the head of c2s.
Reading(w, m) == /\ Wire(w) /\ w.up /\ w.c2s # <<>> /\ m = Head(w.c2s)
                 /\ w.phase # "ResponsePending" /\ ServerTakes(w.phase, "receive", m.type)
Taken(w, m) == [w EXCEPT !.phase = ServerNext(@, "receive", m.type), !.c2s = Tail(@)]

\* A HELLO is answered with a WELCOME.
LEMMA HelloKeeps ==
  ASSUME NEW w, NEW m, Reading(w, m), m.type = "Hello"
  PROVE  Keeps(w, ServerSend(Taken(w, m), Msg("Welcome", 0)))
<1> DEFINE v == ServerSend(Taken(w, m), Msg("Welcome", 0))
           W == Msg("Welcome", 0)
<1>0. /\ WireType(w) /\ Pipe(w) /\ w.up /\ m = w.c2s[1] /\ 1 \in DOMAIN w.c2s
      /\ DOMAIN w.c2s = 1..Len(w.c2s)
  BY TailAt DEF Reading, Wire, WireType
<1>1. W \in Message /\ W.type = "Welcome"
  BY DEF Msg, Message, ServerOut
<1>2. w.phase = "Handshake" /\ Len(w.c2s) = 1 /\ w.s2c = <<>> /\ w.subs = <<>> /\ ~w.reset
  BY <1>0 DEF Reading, Pipe, Only, Req, Ask
<1>3. Tail(w.c2s) = <<>>
  BY <1>2, <1>0, TailAt, EmptySeq DEF WireType, Reading
<1>4. Append(w.s2c, W) \in Seq(Message) /\ Len(Append(w.s2c, W)) = 1 /\ Append(w.s2c, W)[1] = W
      /\ DOMAIN Append(w.s2c, W) = {1}
  BY <1>0, <1>1, <1>2, AppendAt DEF WireType
<1>5. /\ v.up /\ v.phase = "Ready" /\ v.subs = <<>> /\ v.c2s = <<>>
      /\ v.s2c = Append(w.s2c, W) /\ ~v.reset
  BY <1>0, <1>1, <1>2, <1>3, ServerRows DEF ServerSend, Taken, WireType, Reading
<1>6. WireType(v)
  BY ZenonT(40), <1>0, <1>1, <1>2, <1>3, <1>4, EmptySeq, ServerRows DEF ServerSend, Taken, WireType, Reading, Phases
<1> HIDE DEF v, W
<1>7. Wire(v)
  BY <1>1, <1>4, <1>5, <1>6 DEF Wire, Pipe, Only, ServerOut
<1>8. ASSUME NEW p \in Phases, Tied(p, w) PROVE Tied(p, v)
  <2>1. p = "HandshakeReply"
    BY <1>0, <1>2, <1>8 DEF Tied, Quiet, Outstanding, Phases
  <2> QED
    BY <2>1, <1>1, <1>4, <1>5 DEF Tied, Greeting
<1>9. ASSUME NEW W1, SubsIn(w, W1) PROVE SubsIn(v, W1)
  BY <1>5 DEF SubsIn, Latest
<1>10. NoSubs(v)
  BY <1>5 DEF NoSubs, Has
<1>11. ASSUME NEW n \in Nat, Awaits(w, n) PROVE Awaits(v, n)
  BY <1>1, <1>4, <1>5 DEF Awaits, Carry, Replies
<1> QED
  BY <1>7, <1>8, <1>9, <1>10, <1>11 DEF Keeps, v, W

\* What the server becomes when it reads a frame after the handshake.
LEMMA TakenFields ==
  ASSUME NEW w, NEW m, Reading(w, m), m.type # "Hello"
  PROVE  LET t == Taken(w, m)
         IN  /\ w.phase = "Ready" /\ m \in Message /\ m.type \in Req \cup Ask
             /\ Only(w.c2s, Req \cup Ask) /\ w.c2s \in Seq(Message) /\ w.c2s # <<>>
             /\ WireType(t) /\ ~t.reset /\ t.up
             /\ t.subs = w.subs /\ t.s2c = w.s2c /\ t.req = w.req /\ t.c2s = Tail(w.c2s)
             /\ t.phase = IF m.type \in Req THEN "ResponsePending" ELSE "Ready"
<1>1. /\ WireType(w) /\ Pipe(w) /\ w.up /\ w.phase # "ResponsePending" /\ w.c2s \in Seq(Message)
      /\ w.c2s # <<>> /\ m = Head(w.c2s)
  BY DEF Reading, Wire, WireType
<1>2. m \in Message /\ m = w.c2s[1] /\ 1 \in DOMAIN w.c2s /\ Tail(w.c2s) \in Seq(Message)
  BY <1>1, TailAt
<1>3. w.phase = "Ready" /\ Only(w.c2s, Req \cup Ask) /\ ~w.reset
  BY <1>1, <1>2 DEF Pipe
<1>4. m.type \in Req \cup Ask
  BY <1>2, <1>3 DEF Only
<1>5. ServerNext(w.phase, "receive", m.type) = IF m.type \in Req THEN "ResponsePending" ELSE "Ready"
  BY <1>3, <1>4, ServerRows DEF Req, Ask
<1> QED
  BY <1>1, <1>2, <1>3, <1>4, <1>5 DEF Taken, WireType, Phases

\* A GET or INPUT is taken up.
LEMMA RequestKeeps ==
  ASSUME NEW w, NEW m, Reading(w, m), m.type \in Req
  PROVE  Keeps(w, [Taken(w, m) EXCEPT !.req = m])
<1> DEFINE t == Taken(w, m)
           v == [t EXCEPT !.req = m]
           q == Tail(w.c2s)
<1>0. /\ w.up /\ Pipe(w) /\ m = Head(w.c2s) /\ m.type # "Hello" /\ m.type # "Unsubscribe"
      /\ m.type # "Subscribe" /\ m.type \notin Cut
  BY DEF Reading, Wire, Req, Cut
<1>1. /\ w.phase = "Ready" /\ m \in Message /\ Only(w.c2s, Req \cup Ask)
      /\ w.c2s \in Seq(Message) /\ w.c2s # <<>>
      /\ WireType(t) /\ ~t.reset /\ t.up
      /\ t.subs = w.subs /\ t.s2c = w.s2c /\ t.c2s = q /\ t.phase = "ResponsePending"
  BY <1>0, TakenFields
<1> HIDE DEF t
<1>2. /\ v.up /\ v.phase = "ResponsePending" /\ v.subs = w.subs /\ v.c2s = q
      /\ v.s2c = w.s2c /\ v.req = m /\ ~v.reset /\ WireType(v)
  BY <1>1 DEF WireType
<1> HIDE DEF v, q
<1>3. Wire(v)
  BY <1>0, <1>1, <1>2, TailKeeps DEF Wire, Pipe, q
<1>4. ASSUME NEW p \in Phases, Tied(p, w) PROVE Tied(p, v)
  <2>1. p # "HandshakeReply" /\ p # "Closed" /\ p # "Ready" /\ p # "Handshake"
    BY <1>0, <1>1, <1>4, TailAt DEF Tied, Greeting, Quiet, Only, Req, Ask
  <2>2. Outstanding(w) /\ Has(w.c2s, Req) /\ ~Has(w.s2c, Replies)
    BY <1>0, <1>1, <1>4, <2>1, TailKeeps DEF Tied, Outstanding, Phases
  <2>3. ~Has(q, Req)
    BY <1>0, <1>1, <2>2, TailKeeps DEF Outstanding, q
  <2>4. Outstanding(v)
    BY <1>0, <1>1, <1>2, <2>2, <2>3, TailKeeps DEF Outstanding, q
  <2> QED
    BY <2>1, <2>4 DEF Tied
<1>5. ASSUME NEW W, SubsIn(w, W) PROVE SubsIn(v, W)
  BY <1>0, <1>1, <1>2, <1>5, TailKeeps DEF SubsIn, q
<1>6. NoSubs(w) => NoSubs(v)
  BY <1>1, <1>2, TailKeeps DEF NoSubs, q
<1>7. ASSUME NEW n \in Nat, Awaits(w, n) PROVE Awaits(v, n)
  <2>1. m.id = n
    BY <1>0, <1>1, <1>7, TailAt DEF Awaits, Carry
  <2> QED
    BY <1>1, <1>2, <1>7, <2>1, TailKeeps DEF Awaits, q
<1> QED
  BY <1>3, <1>4, <1>5, <1>6, <1>7 DEF Keeps, v, t

\* The fields of what the server becomes when it sends a frame.
LEMMA ServerSendFields ==
  ASSUME NEW w, WireType(w), NEW m \in Message, ServerNext(w.phase, "send", m.type) \in Phases
  PROVE  LET v == ServerSend(w, m)
         IN  /\ WireType(v)
             /\ v.up = w.up /\ v.phase = ServerNext(w.phase, "send", m.type) /\ v.subs = w.subs
             /\ v.c2s = w.c2s /\ Added(v.s2c, w.s2c, m) /\ v.req = w.req /\ v.reset = w.reset
<1>1. Append(w.s2c, m) \in Seq(Message)
  BY AppendAt DEF WireType
<1> QED
  BY <1>1 DEF ServerSend, WireType, Added

\* A frame that expects no reply is read: the subscriptions change, or an UPDATE or
\* PONG follows.
LEMMA AskKeeps ==
  ASSUME NEW w, NEW m, Reading(w, m), m.type \in Ask, NEW v, WireType(v),
         v.up, ~v.reset, v.phase = "Ready", v.c2s = Tail(w.c2s), v.req = w.req,
         v.s2c = w.s2c \/ \E e \in Message : e.type \in {"Update", "Pong"} /\ Added(v.s2c, w.s2c, e),
         m.type = "Subscribe" => Added(v.subs, w.subs, m),
         m.type = "Unsubscribe" => v.subs = <<>>,
         m.type = "Ping" => v.subs = w.subs
  PROVE  Keeps(w, v)
<1>0. /\ Wire(w) /\ WireType(w) /\ Pipe(w) /\ w.up /\ m = Head(w.c2s) /\ m.type # "Hello" /\ m.type \notin Req
      /\ m.type \in Cut <=> m.type = "Unsubscribe"
      /\ w.c2s # <<>> /\ w.c2s \in Seq(Message) /\ w.s2c \in Seq(Message) /\ w.subs \in Seq(Message)
  BY DEF Reading, Wire, WireType, Req, Ask, Cut
<1>1. /\ w.phase = "Ready" /\ m \in Message /\ Only(w.c2s, Req \cup Ask)
  BY <1>0, TakenFields
<1>2. /\ \A T : Only(w.s2c, T) /\ {"Update", "Pong"} \subseteq T => Only(v.s2c, T)
      /\ AtMostOne(w.s2c, Replies) => AtMostOne(v.s2c, Replies)
      /\ Has(v.s2c, Replies) <=> Has(w.s2c, Replies)
      /\ \A n : Carry(w.s2c, Replies, n) => Carry(v.s2c, Replies, n)
  <2>1. CASE v.s2c = w.s2c
    BY <2>1
  <2>2. CASE \E e \in Message : e.type \in {"Update", "Pong"} /\ Added(v.s2c, w.s2c, e)
    <3> PICK e \in Message : e.type \in {"Update", "Pong"} /\ Added(v.s2c, w.s2c, e)
      BY <2>2
    <3>1. e.type \notin Replies /\ Grown(v.s2c, w.s2c, e)
      BY <1>0, AppendKeeps DEF Replies
    <3>2. ASSUME NEW T, Only(w.s2c, T), {"Update", "Pong"} \subseteq T PROVE Only(v.s2c, T)
      <4>1. e.type \in T
        BY <3>2
      <4> QED
        BY <3>1, <3>2, <4>1 DEF Grown
    <3>3. /\ AtMostOne(w.s2c, Replies) => AtMostOne(v.s2c, Replies)
          /\ Has(v.s2c, Replies) <=> Has(w.s2c, Replies)
          /\ \A n : Carry(w.s2c, Replies, n) => Carry(v.s2c, Replies, n)
      BY <3>1 DEF Grown
    <3> QED
      BY <3>2, <3>3
  <2> QED
    BY <2>1, <2>2
<1>3. Wire(v)
  <2>1. \A i \in DOMAIN w.s2c : w.s2c[i].type # "ServerBye"
    BY <1>0 DEF Pipe
  <2>2. Only(w.s2c, Lasting)
    BY <1>0, <2>1 DEF Pipe, Only, Lasting
  <2>3. Only(v.s2c, Lasting)
    BY <1>2, <2>2 DEF Lasting, ServerOut
  <2>4. Only(v.c2s, Req \cup Ask)
    BY <1>0, <1>1, TailKeeps
  <2> QED
    BY <1>0, <2>3, <2>4 DEF Wire, Pipe, Only, Lasting
<1>4. ASSUME NEW p \in Phases, Tied(p, w) PROVE Tied(p, v)
  <2>1. p # "HandshakeReply" /\ p # "Closed" /\ p # "Handshake"
    BY <1>0, <1>1, <1>4 DEF Tied, Greeting
  <2>2. CASE p = "Ready"
    <3>1. Quiet(w)
      BY <1>4, <2>2 DEF Tied
    <3>2. Quiet(v)
      BY <1>0, <1>2, <3>1, TailKeeps DEF Quiet, Unasked
    <3> QED
      BY <2>2, <3>2 DEF Tied
  <2>3. CASE p = "ResponsePending"
    <3>1. Outstanding(w)
      BY <1>4, <2>3 DEF Tied
    <3>2. Only(v.s2c, Unasked \cup Replies)
      BY <1>2, <3>1 DEF Outstanding, Unasked
    <3>3. /\ Has(v.c2s, Req) <=> Has(w.c2s, Req)
          /\ AtMostOne(w.c2s, Req) => AtMostOne(v.c2s, Req)
          /\ Only(w.c2s, Req \cup Ask) => Only(v.c2s, Req \cup Ask)
      BY <1>0, TailKeeps
    <3>4. Outstanding(v)
      BY <1>0, <1>1, <1>2, <3>1, <3>2, <3>3 DEF Outstanding
    <3> QED
      BY <2>3, <3>4 DEF Tied
  <2> QED
    BY <2>1, <2>2, <2>3 DEF Phases
<1>5. ASSUME NEW W, SubsIn(w, W) PROVE SubsIn(v, W)
  <2>1. Latest(v.c2s, W)
    BY <1>0, <1>5, TailKeeps DEF SubsIn
  <2> SUFFICES ASSUME ~Has(v.c2s, Cut), NEW i \in DOMAIN v.subs
               PROVE  <<v.subs[i].region, v.subs[i].id>> \in W
    BY <2>1 DEF SubsIn
  <2>2. CASE m.type = "Unsubscribe"
    BY <2>2
  <2>3. CASE m.type = "Ping"
    <3>1. ~Has(w.c2s, Cut)
      BY <1>0, <2>3, TailKeeps
    <3> QED
      BY <1>5, <2>3, <3>1 DEF SubsIn
  <2>4. CASE m.type = "Subscribe"
    <3>1. ~Has(w.c2s, Cut)
      BY <1>0, <2>4, TailKeeps
    <3>2. \A j \in DOMAIN w.c2s : w.c2s[j].type # "Unsubscribe"
      BY <3>1 DEF Has, Cut
    <3>3. <<m.region, m.id>> \in W
      <4>1. Latest(w.c2s, W) /\ 1 \in DOMAIN w.c2s /\ m = w.c2s[1]
        BY <1>0, <1>5, TailAt DEF SubsIn
      <4> QED
        BY <2>4, <3>2, <4>1 DEF Latest
    <3>6. /\ DOMAIN v.subs = DOMAIN w.subs \cup {Len(w.subs) + 1} /\ v.subs[Len(w.subs) + 1] = m
          /\ \A j \in DOMAIN w.subs : v.subs[j] = w.subs[j]
      BY <1>0, <1>1, <2>4, AppendAt DEF Added
    <3>4. CASE i \in DOMAIN w.subs
      <4>1. v.subs[i] = w.subs[i]
        BY <3>4, <3>6
      <4> QED
        BY <1>5, <3>1, <3>4, <4>1 DEF SubsIn
    <3>5. CASE i = Len(w.subs) + 1
      BY <3>3, <3>5, <3>6
    <3> QED
      BY <3>4, <3>5, <3>6
  <2> QED
    BY <2>2, <2>3, <2>4 DEF Ask
<1>6. ASSUME NoSubs(w) PROVE NoSubs(v)
  <2>1. m.type # "Subscribe"
    BY <1>0, <1>6, TailKeeps DEF NoSubs
  <2> QED
    BY <1>0, <1>6, <2>1, TailKeeps DEF NoSubs, Ask
<1>7. ASSUME NEW n \in Nat, Awaits(w, n) PROVE Awaits(v, n)
  BY <1>0, <1>2, <1>7, TailKeeps DEF Awaits
<1> QED
  BY <1>3, <1>4, <1>5, <1>6, <1>7 DEF Keeps

\* GET or INPUT is answered.
LEMMA AnswerKeeps ==
  ASSUME NEW w, Wire(w), w.up, w.phase = "ResponsePending", NEW t \in Replies
  PROVE  Keeps(w, [ServerSend(w, Msg(t, w.req.id)) EXCEPT !.req = Msg("none", 0)])
<1> DEFINE m == Msg(t, w.req.id)
           u == ServerSend(w, m)
           v == [u EXCEPT !.req = Msg("none", 0)]
<1>1. /\ m \in Message /\ m.type = t /\ m.id = w.req.id /\ Msg("none", 0) \in Message
      /\ WireType(w) /\ Pipe(w) /\ w.s2c \in Seq(Message)
  BY DEF Msg, Message, ServerOut, Wire, WireType
<1>0. m.type \in Lasting /\ m.type \in Unasked \cup Replies
  BY <1>1 DEF Lasting, ServerOut, Replies
<1> HIDE DEF m
<1>2. ServerNext(w.phase, "send", m.type) = "Ready"
  BY <1>1, ServerRows
<1>3. /\ WireType(u) /\ u.up = w.up /\ u.phase = "Ready" /\ u.subs = w.subs /\ u.c2s = w.c2s
      /\ Added(u.s2c, w.s2c, m) /\ u.reset = w.reset
  BY <1>1, <1>2, ServerSendFields DEF Phases
<1> HIDE DEF u
<1>4. /\ WireType(v) /\ v.up /\ v.phase = "Ready" /\ v.subs = w.subs /\ v.c2s = w.c2s
      /\ Added(v.s2c, w.s2c, m) /\ v.reset = w.reset
  BY <1>1, <1>3 DEF WireType
<1> HIDE DEF v
<1>9. Grown(v.s2c, w.s2c, m)
  BY <1>1, <1>4, AppendKeeps
<1>5. Wire(v)
  <2>1. Only(w.s2c, Lasting) /\ Only(w.c2s, Req \cup Ask) /\ ~w.reset
    BY <1>1 DEF Pipe, Only, Lasting
  <2>2. Only(v.s2c, Lasting)
    BY <1>0, <1>1, <1>4, <2>1, <1>9 DEF Grown
  <2> QED
    BY <1>4, <2>1, <2>2 DEF Wire, Pipe, Only, Lasting
<1>6. ASSUME NEW p \in Phases, Tied(p, w) PROVE Tied(p, v)
  <2>1. p = "ResponsePending" /\ Outstanding(w)
    BY <1>6 DEF Tied, Greeting, Quiet, Phases
  <2>2. Only(v.s2c, Unasked \cup Replies) /\ Has(v.s2c, Replies)
        /\ AtMostOne(v.s2c, Replies)
    BY <1>0, <1>1, <1>4, <2>1, <1>9 DEF Grown, Outstanding
  <2>3. Outstanding(v)
    BY <1>4, <2>1, <2>2 DEF Outstanding
  <2> QED
    BY <2>1, <2>3 DEF Tied
<1>7. ASSUME NEW n \in Nat, Awaits(w, n) PROVE Awaits(v, n)
  BY <1>1, <1>4, <1>7, <1>9 DEF Grown, Awaits
<1>8. /\ \A W : SubsIn(w, W) => SubsIn(v, W)
      /\ NoSubs(w) => NoSubs(v)
  BY <1>4 DEF SubsIn, NoSubs
<1> QED
  BY <1>5, <1>6, <1>7, <1>8 DEF Keeps, v, u, m

\* An UPDATE is pushed: only a server that has subscriptions does.
LEMMA PushKeeps ==
  ASSUME NEW w, Wire(w), w.up, w.phase = "Ready", w.subs # <<>>,
         NEW m \in Message, m.type = "Update", NEW v, WireType(v),
         v.up, v.phase = "Ready", v.subs = w.subs, v.c2s = w.c2s, v.req = w.req, v.reset = w.reset,
         Added(v.s2c, w.s2c, m)
  PROVE  Keeps(w, v)
<1>1. WireType(w) /\ Pipe(w) /\ w.s2c \in Seq(Message)
  BY DEF Wire, WireType
<1>3. m.type \notin Replies /\ m.type \in Lasting /\ m.type \in Unasked /\ m.type \in Unasked \cup Replies
  BY DEF Replies, Lasting, Unasked, ServerOut
<1>4. Grown(v.s2c, w.s2c, m)
  BY <1>1, AppendKeeps
<1>2. Wire(v)
  <2>1. Only(w.s2c, Lasting) /\ Only(w.c2s, Req \cup Ask) /\ ~w.reset
    BY <1>1 DEF Pipe, Only, Lasting
  <2>2. Only(v.s2c, Lasting)
    BY <1>1, <1>3, <2>1, <1>4 DEF Grown
  <2> QED
    BY <2>1, <2>2 DEF Wire, Pipe, Only, Lasting
<1>7. ASSUME NEW p \in Phases, Tied(p, w) PROVE Tied(p, v)
  <2>1. p # "HandshakeReply" /\ p # "Closed" /\ p # "Handshake"
    BY <1>7 DEF Tied, Greeting
  <2>2. Quiet(w) => Quiet(v)
    BY <1>1, <1>3, <1>4 DEF Grown, Quiet
  <2>3. Outstanding(w) => Outstanding(v)
    BY <1>1, <1>3, <1>4 DEF Grown, Outstanding
  <2> QED
    BY <1>7, <2>1, <2>2, <2>3 DEF Tied
<1>5. ASSUME NEW n \in Nat, Awaits(w, n) PROVE Awaits(v, n)
  BY <1>1, <1>3, <1>5, <1>4 DEF Grown, Awaits
<1>6. /\ \A W : SubsIn(w, W) => SubsIn(v, W)
      /\ NoSubs(w) => NoSubs(v)
  BY DEF SubsIn, NoSubs
<1> QED
  BY <1>2, <1>5, <1>6, <1>7 DEF Keeps

\* SERVER_BYE, and the server task ends.
LEMMA ByeKeeps ==
  ASSUME NEW w, Wire(w), w.up, w.phase = "Ready"
  PROVE  Keeps(w, ServerDown(ServerSend(w, Msg("ServerBye", 0))))
<1> DEFINE m == Msg("ServerBye", 0)
           u == ServerSend(w, m)
           v == ServerDown(u)
<1>1. /\ m \in Message /\ m.type = "ServerBye" /\ WireType(w) /\ Pipe(w) /\ w.s2c \in Seq(Message)
  BY DEF Msg, Message, ServerOut, Wire, WireType
<1> HIDE DEF m
<1>2. ServerNext(w.phase, "send", m.type) = "Closed"
  BY <1>1, ServerRows
<1>3. WireType(u) /\ Added(u.s2c, w.s2c, m) /\ u.reset = w.reset
  BY <1>1, <1>2, ServerSendFields DEF Phases
<1> HIDE DEF u
<1>4. /\ WireType(v) /\ ~v.up /\ v.subs = <<>> /\ v.c2s = <<>> /\ Added(v.s2c, w.s2c, m)
  BY <1>3, EmptySeq DEF ServerDown, WireType
<1> HIDE DEF v
<1>5. Grown(v.s2c, w.s2c, m)
  BY <1>1, <1>4, AppendKeeps
<1>6. /\ Len(w.s2c) \in Nat /\ DOMAIN w.s2c = 1..Len(w.s2c)
      /\ Len(v.s2c) = Len(w.s2c) + 1
      /\ DOMAIN v.s2c = DOMAIN w.s2c \cup {Len(w.s2c) + 1} /\ v.s2c[Len(w.s2c) + 1] = m
      /\ \A j \in DOMAIN w.s2c : v.s2c[j] = w.s2c[j]
  BY <1>1, <1>4, AppendAt DEF Added
<1>7. m.type \in ServerOut /\ m.type \notin Replies /\ m.type \in Unasked /\ m.type \in Unasked \cup Replies
  BY <1>1 DEF ServerOut, Replies, Unasked
<1>8. Wire(v)
  <2>1. Only(v.s2c, ServerOut)
    BY <1>1, <1>5, <1>7 DEF Grown, Pipe
  <2>2. \A i \in DOMAIN v.s2c : v.s2c[i].type = "ServerBye" => i = Len(v.s2c)
    BY <1>1, <1>6 DEF Pipe
  <2> QED
    BY <1>4, <2>1, <2>2 DEF Wire, Pipe
<1>9. ASSUME NEW p \in Phases, Tied(p, w) PROVE Tied(p, v)
  <2>1. p # "Closed" /\ p # "Handshake"
    BY <1>9 DEF Tied
  <2>2. Quiet(w) => Quiet(v)
    BY <1>4, <1>5, <1>7 DEF Quiet, Grown
  <2>3. Outstanding(w) => Outstanding(v)
    BY <1>4, <1>5, <1>7 DEF Outstanding, Grown
  <2>4. Greeting(w) => Greeting(v)
    <3> SUFFICES ASSUME Greeting(w), NEW i \in DOMAIN v.s2c
                 PROVE  v.s2c[i].type = IF i = 1 THEN "Welcome" ELSE "ServerBye"
      BY <1>4 DEF Greeting
    <3>1. Len(w.s2c) = 1 /\ w.s2c[1].type = "Welcome" /\ DOMAIN w.s2c = {1}
      BY <1>6 DEF Greeting
    <3>2. i = 1 \/ i = 2
      BY <1>6, <3>1
    <3> QED
      BY <1>1, <1>6, <3>1, <3>2
  <2> QED
    BY <1>9, <2>1, <2>2, <2>3, <2>4 DEF Tied
<1>10. ASSUME NEW n \in Nat, Awaits(w, n) PROVE Awaits(v, n)
  <2>1. Carry(v.c2s, Req, n)
    BY <1>4 DEF Carry
  <2>2. Carry(v.s2c, Replies, n)
    BY <1>5, <1>7, <1>10 DEF Awaits, Grown
  <2> QED
    BY <1>4, <2>1, <2>2 DEF Awaits
<1>11. /\ \A W : SubsIn(v, W)
       /\ NoSubs(v)
  BY <1>4 DEF SubsIn, NoSubs, Has, Latest
<1> QED
  BY <1>8, <1>9, <1>10, <1>11 DEF Keeps, v, u, m

\* The connection is reset.
LEMMA ResetKeeps ==
  ASSUME NEW w, Wire(w)
  PROVE  Keeps(w, [ServerDown(w) EXCEPT !.s2c = <<>>, !.reset = TRUE])
<1> DEFINE v == [ServerDown(w) EXCEPT !.s2c = <<>>, !.reset = TRUE]
<1>1. /\ WireType(v) /\ ~v.up /\ v.subs = <<>> /\ v.c2s = <<>> /\ v.s2c = <<>>
  BY EmptySeq DEF ServerDown, WireType, Wire
<1> HIDE DEF v
<1>2. Wire(v)
  BY <1>1 DEF Wire, Pipe, Only
<1>3. ASSUME NEW p \in Phases, Tied(p, w) PROVE Tied(p, v)
  BY <1>1, <1>3 DEF Tied, Greeting, Quiet, Outstanding, Only, AtMostOne
<1>4. /\ \A W : SubsIn(v, W)
      /\ NoSubs(v)
      /\ \A n : Awaits(v, n)
  BY <1>1 DEF SubsIn, NoSubs, Has, Latest, Awaits, Carry
<1> QED
  BY <1>2, <1>3, <1>4 DEF Keeps, v

\* What the client's record and its operation say of the wire survives a step of the
\* server.
LEMMA ServerInv ==
  ASSUME Inv, cli.conn, NEW v, Keeps(wire, v), ServerBecomes(v)
  PROVE  Inv'
<1>1. /\ wire' = v /\ out' = Silent /\ cli' = cli /\ view' = view /\ op' = op /\ reqs' = reqs
  BY DEF ServerBecomes
<1>2. Now' = [c |-> cli, w |-> v] /\ Now = [c |-> cli, w |-> wire]
  BY <1>1 DEF Now
<1>3. CliType(cli) /\ Link(Now)
  BY <1>2 DEF Inv, Link, LinkTo
<1>4. Link(Now')
  <2>1. cli.phase \in Phases
    BY <1>3 DEF CliType
  <2> QED
    BY <1>2, <1>3, <2>1 DEF Link, LinkTo, Keeps, Wire
<1>5. Operation'
  <2>1. Fits(op, [c |-> cli, w |-> v])
    BY <1>2 DEF Inv, Operation, Fits, Keeps, Op
  <2> QED
    BY <1>1, <1>2, <2>1 DEF Inv, Operation
<1>6. ReplyMatchesRequest'
  BY <1>1 DEF ReplyMatchesRequest, Silent
<1> QED
  BY <1>4, <1>5, <1>6 DEF Inv

\* A live server task has a connected client.
LEMMA UpIsConnected ==
  ASSUME Inv
  PROVE  Wire(wire) /\ (wire.up => cli.conn)
  BY DEF Inv, Link, LinkTo, Wire, Gone, Fresh, Now

LEMMA ServerReadsInv == Inv /\ ServerReads => Inv'
<1> SUFFICES ASSUME Inv, ServerReads PROVE Inv'
  OBVIOUS
<1> DEFINE m == Head(wire.c2s)
           w == [wire EXCEPT !.phase = ServerNext(@, "receive", m.type), !.c2s = Tail(@)]
<1>1. /\ Wire(wire) /\ wire.up /\ cli.conn /\ wire.c2s # <<>> /\ wire.phase # "ResponsePending"
  BY UpIsConnected DEF ServerReads
<1>2. CASE "c2s" \in wire.torn \/ ~ServerTakes(wire.phase, "receive", m.type)
  <2>1. Keeps(wire, ServerDown(wire))
    BY <1>1, DownKeeps DEF Wire
  <2>2. ServerBecomes(ServerDown(wire))
    BY <1>2 DEF ServerReads
  <2> QED
    BY <1>1, <2>1, <2>2, ServerInv
<1>3. CASE ~("c2s" \in wire.torn \/ ~ServerTakes(wire.phase, "receive", m.type))
  <2>1. Reading(wire, m) /\ w = Taken(wire, m)
    BY <1>1, <1>3 DEF Reading, Taken
  <2>2. CASE m.type = "Hello"
    <3>1. ServerBecomes(ServerSend(w, Msg("Welcome", 0)))
      BY <1>3, <2>2 DEF ServerReads
    <3> QED
      BY <1>1, <2>1, <2>2, <3>1, HelloKeeps, ServerInv
  <2>3. CASE m.type \in Req
    <3>1. ServerBecomes([w EXCEPT !.req = m])
      BY <1>3, <2>3 DEF ServerReads, Req
    <3> QED
      BY <1>1, <2>1, <2>3, <3>1, RequestKeeps, ServerInv
  <2>4. CASE m.type \in Ask
    <3> DEFINE t == Taken(wire, m)
    <3>1. /\ m \in Message /\ t.phase = "Ready" /\ WireType(t) /\ ~t.reset /\ t.up
          /\ t.subs = wire.subs /\ t.s2c = wire.s2c /\ t.req = wire.req /\ t.c2s = Tail(wire.c2s)
          /\ wire.subs \in Seq(Message) /\ m.type \notin {"Hello", "Get", "Input"}
      <4>1. m.type # "Hello" /\ m.type \notin Req /\ m.type \notin {"Hello", "Get", "Input"}
        BY <2>4 DEF Ask, Req
      <4>2. wire.subs \in Seq(Message)
        BY <1>1 DEF Wire, WireType
      <4> QED
        BY <2>1, <4>1, <4>2, TakenFields
    <3> HIDE DEF t
    <3>2. ASSUME NEW e \in Message, e.type \in {"Update", "Pong"}
          PROVE  LET u == ServerSend(t, e)
                 IN  /\ WireType(u) /\ ~u.reset /\ u.up /\ u.phase = "Ready" /\ u.req = wire.req
                     /\ u.subs = wire.subs /\ u.c2s = Tail(wire.c2s) /\ Added(u.s2c, wire.s2c, e)
      <4>1. ServerNext(t.phase, "send", e.type) = "Ready"
        BY <3>1, <3>2, ServerRows
      <4> QED
        BY <3>1, <4>1, ServerSendFields DEF Phases
    <3>3. CASE m.type = "Subscribe"
      <4> DEFINE e == RegionMsg("Update", m.region, m.id)
                 u == ServerSend(t, e)
                 v == [u EXCEPT !.subs = Append(@, m)]
      <4>1. ServerBecomes(v) \/ ServerBecomes(ServerDown(t))
        BY <1>3, <2>1, <3>3 DEF ServerReads, RefuseSubscribe, t
      <4>2. Keeps(wire, ServerDown(t))
        BY <1>1, <3>1, DownKeeps
      <4>3. e \in Message /\ e.type = "Update"
        BY <3>1 DEF RegionMsg, Message, ServerOut
      <4> HIDE DEF e
      <4>4. /\ WireType(u) /\ ~u.reset /\ u.up /\ u.phase = "Ready" /\ u.req = wire.req
            /\ u.subs = wire.subs /\ u.c2s = Tail(wire.c2s) /\ Added(u.s2c, wire.s2c, e)
        BY <3>2, <4>3
      <4> HIDE DEF u
      <4>5. /\ WireType(v) /\ ~v.reset /\ v.up /\ v.phase = "Ready" /\ v.req = wire.req
            /\ Added(v.subs, wire.subs, m) /\ v.c2s = Tail(wire.c2s) /\ Added(v.s2c, wire.s2c, e)
        <5>1. Append(u.subs, m) \in Seq(Message)
          BY <3>1, <4>4, AppendAt
        <5> QED
          BY <4>4, <5>1 DEF WireType, Added
      <4> HIDE DEF v
      <4>6. Keeps(wire, v)
        BY <2>1, <2>4, <3>3, <4>3, <4>5, AskKeeps
      <4> QED
        BY <1>1, <4>1, <4>2, <4>6, ServerInv
    <3>4. CASE m.type = "Unsubscribe"
      <4> DEFINE v == [t EXCEPT !.subs = <<>>]
      <4>1. ServerBecomes(v)
        BY <1>3, <2>1, <3>4 DEF ServerReads, t
      <4>2. /\ WireType(v) /\ ~v.reset /\ v.up /\ v.phase = "Ready" /\ v.req = wire.req
            /\ v.subs = <<>> /\ v.c2s = Tail(wire.c2s) /\ v.s2c = wire.s2c
        BY <3>1, EmptySeq DEF WireType
      <4> HIDE DEF v
      <4>3. Keeps(wire, v)
        BY <2>1, <2>4, <3>4, <4>2, AskKeeps
      <4> QED
        BY <1>1, <4>1, <4>3, ServerInv
    <3>5. CASE m.type = "Ping"
      <4> DEFINE e == Msg("Pong", 0)
                 v == ServerSend(t, e)
      <4>1. ServerBecomes(v)
        BY <1>3, <2>1, <3>5 DEF ServerReads, t
      <4>2. e \in Message /\ e.type = "Pong"
        BY DEF Msg, Message, ServerOut
      <4> HIDE DEF e
      <4>3. /\ WireType(v) /\ ~v.reset /\ v.up /\ v.phase = "Ready" /\ v.req = wire.req
            /\ v.subs = wire.subs /\ v.c2s = Tail(wire.c2s) /\ Added(v.s2c, wire.s2c, e)
        BY <3>2, <4>2
      <4> HIDE DEF v
      <4>4. Keeps(wire, v)
        BY <2>1, <2>4, <3>5, <4>2, <4>3, AskKeeps
      <4> QED
        BY <1>1, <4>1, <4>4, ServerInv
    <3> QED
      BY <2>4, <3>3, <3>4, <3>5 DEF Ask
  <2> QED
    BY <2>1, <2>2, <2>3, <2>4, TakenFields
<1> QED
  BY <1>2, <1>3

\* The other steps of the server task.
LEMMA ServerStepInv == Inv /\ Server => Inv'
<1> SUFFICES ASSUME Inv, Server PROVE Inv'
  OBVIOUS
<1>0. Wire(wire) /\ WireType(wire) /\ (wire.up => cli.conn)
  BY UpIsConnected DEF Wire
<1>1. CASE ServerReads
  BY <1>1, ServerReadsInv
<1>2. CASE Answer
  <2> PICK t \in Replies :
        ServerBecomes([ServerSend(wire, Msg(t, wire.req.id)) EXCEPT !.req = Msg("none", 0)])
    BY <1>2 DEF Answer
  <2> QED
    BY <1>0, <1>2, AnswerKeeps, ServerInv DEF Answer
<1>3. CASE Push
  <2> PICK i \in DOMAIN wire.subs :
        LET w == ServerSend(wire, RegionMsg("Update", wire.subs[i].region, wire.subs[i].id))
        IN  ServerBecomes(w) \/ ServerBecomes([w EXCEPT !.torn = @ \cup {"c2s"}])
    BY <1>3 DEF Push
  <2> DEFINE e == RegionMsg("Update", wire.subs[i].region, wire.subs[i].id)
             w == ServerSend(wire, e)
             v == [w EXCEPT !.torn = @ \cup {"c2s"}]
  <2>1. /\ wire.up /\ wire.phase = "Ready" /\ wire.subs # <<>> /\ wire.subs[i] \in Message
    BY <1>0, <1>3, ElementOfSeq, LenProperties DEF Push, WireType
  <2>2. e \in Message /\ e.type = "Update"
    BY <2>1 DEF RegionMsg, Message, ServerOut
  <2> HIDE DEF e
  <2>3. /\ WireType(w) /\ w.up /\ w.phase = "Ready" /\ w.subs = wire.subs /\ w.c2s = wire.c2s
        /\ w.req = wire.req /\ w.reset = wire.reset /\ Added(w.s2c, wire.s2c, e)
    <3>1. ServerNext(wire.phase, "send", e.type) = "Ready"
      BY <2>1, <2>2, ServerRows
    <3> QED
      BY <1>0, <2>1, <2>2, <3>1, ServerSendFields DEF Phases
  <2>4. ServerBecomes(w) \/ ServerBecomes(v)
    BY DEF e
  <2> HIDE DEF w
  <2>5. /\ WireType(v) /\ v.up /\ v.phase = "Ready" /\ v.subs = wire.subs /\ v.c2s = wire.c2s
        /\ v.req = wire.req /\ v.reset = wire.reset /\ Added(v.s2c, wire.s2c, e)
    BY <2>3 DEF WireType
  <2> HIDE DEF v
  <2>6. Keeps(wire, w) /\ Keeps(wire, v)
    BY <1>0, <2>1, <2>2, <2>3, <2>5, PushKeeps
  <2> QED
    BY <1>0, <2>1, <2>4, <2>6, ServerInv
<1>4. CASE ServerLeaves
  BY <1>0, <1>4, DownKeeps, ServerInv DEF ServerLeaves
<1>5. CASE ServerShutsDown
  BY <1>0, <1>5, ByeKeeps, ServerInv DEF ServerShutsDown
<1>6. CASE Reset
  BY <1>0, <1>6, ResetKeeps, ServerInv DEF Reset
<1> QED
  BY <1>1, <1>2, <1>3, <1>4, <1>5, <1>6 DEF Server

-----------------------------------------------------------------------------
(* The calls of the client, on a client and its wire.                      *)

LEMMA ClientRows ==
  /\ \A p, t : ClientNext(p, "send", t) # "illegal" /\ t \in Req =>
       p = "Ready" /\ ClientNext(p, "send", t) = "ResponsePending"
  /\ \A p, t : ClientNext(p, "send", t) # "illegal" /\ t \in {"Subscribe", "Unsubscribe"} =>
       p = "Ready" /\ ClientNext(p, "send", t) = "Ready"
  /\ \A p : ClientNext(p, "send", "Ping") # "illegal" =>
       p \in {"Ready", "ResponsePending"} /\ ClientNext(p, "send", "Ping") = p
  BY DEF ClientNext, Req, Replies

LEMMA ClientReads ==
  ASSUME NEW p \in Phases, NEW t \in ServerOut, ClientNext(p, "receive", t) # "illegal"
  PROVE  \/ p = "HandshakeReply" /\ t = "Welcome" /\ ClientNext(p, "receive", t) = "Ready"
         \/ p = "HandshakeReply" /\ t \in {"Error", "ServerBye"} /\ ClientNext(p, "receive", t) = "Closed"
         \/ p \in {"Ready", "ResponsePending"} /\ t \in {"Pong", "Update"} /\ ClientNext(p, "receive", t) = p
         \/ p = "ResponsePending" /\ t \in Replies /\ ClientNext(p, "receive", t) = "Ready"
         \/ p \in {"Ready", "ResponsePending"} /\ t = "ServerBye" /\ ClientNext(p, "receive", t) = "Closed"
  BY DEF ClientNext, Phases, ServerOut, Replies

\* More may be wanted.
LEMMA WantMore ==
  ASSUME NEW k, NEW W, NEW V, LinkTo(k, W), W \subseteq V
  PROVE  LinkTo(k, V)
  BY DEF LinkTo, SubsIn, Latest

\* The client's record changes where the connection does not look.
LEMMA ClientChange ==
  ASSUME NEW k, NEW W, LinkTo(k, W), NEW d, CliType(d),
         d.conn = k.c.conn, d.poisoned = k.c.poisoned, d.phase = k.c.phase, k.c.caps => d.caps
  PROVE  LinkTo([c |-> d, w |-> k.w], W)
  BY DEF LinkTo, Alive

LEMMA SetClient ==
  ASSUME NEW k, k = [c |-> k.c, w |-> k.w], NEW d
  PROVE  [k EXCEPT !.c = d] = [c |-> d, w |-> k.w]
  OBVIOUS

LEMMA SetBoth ==
  ASSUME NEW k, k = [c |-> k.c, w |-> k.w], NEW d, NEW v
  PROVE  [k EXCEPT !.c = d, !.w = v] = [c |-> d, w |-> v]
<1>1. [k EXCEPT !.c = d, !.w = v] = [[k EXCEPT !.c = d] EXCEPT !.w = v]
  OBVIOUS
<1>2. ASSUME NEW x PROVE [[c |-> d, w |-> x] EXCEPT !.w = v] = [c |-> d, w |-> v]
  OBVIOUS
<1> QED
  BY <1>1, <1>2, SetClient

LEMMA PoisonLink ==
  ASSUME NEW k, NEW W, LinkTo(k, W)
  PROVE  LinkTo(Poison(k), W) /\ Poison(k).c = [k.c EXCEPT !.poisoned = TRUE] /\ Poison(k).w = k.w
<1> DEFINE b == [k.c EXCEPT !.poisoned = TRUE]
<1>1. k = [c |-> k.c, w |-> k.w] /\ CliType(k.c)
  BY DEF LinkTo
<1>2. CliType(b) /\ b.poisoned = TRUE /\ b.conn = k.c.conn /\ b.caps = k.c.caps
  BY <1>1 DEF CliType
<1>3. Poison(k) = [c |-> b, w |-> k.w]
  <2>1. Poison(k) = [k EXCEPT !.c = b]
    BY DEF Poison
  <2> QED
    BY <1>1, <2>1, SetClient
<1> HIDE DEF b
<1>4. LinkTo([c |-> b, w |-> k.w], W)
  BY <1>2 DEF LinkTo, Alive
<1> QED
  BY <1>3, <1>4 DEF b

\* What a call may change of the client's record: the phase and poisoned.
SameBut(d, c) ==
    /\ CliType(d)
    /\ d.conn = c.conn /\ d.caps = c.caps /\ d.origin = c.origin /\ d.scope = c.scope
    /\ d.active = c.active /\ d.pending = c.pending

\* What sending m makes of k: nothing, a poisoned connection, or a frame more.
Sent(k, m, r) ==
    /\ r = [c |-> r.c, w |-> r.w]
    /\ SameBut(r.c, k.c)
    /\ SendResult(k, m) = "ok" <=> Alive(k.c) /\ Alive(r.c)
    /\ \/ ~Alive(k.c) /\ r = k
       \/ r.c.poisoned /\ r.w = k.w
       \/ /\ Alive(k.c) /\ Alive(r.c)
          /\ ClientNext(k.c.phase, "send", m.type) # "illegal"
          /\ r.c.phase = ClientNext(k.c.phase, "send", m.type)
          /\ \/ ~k.w.up /\ r.w = k.w
             \/ /\ k.w.up /\ WireType(r.w) /\ Added(r.w.c2s, k.w.c2s, m)
                /\ r.w.up /\ r.w.phase = k.w.phase /\ r.w.subs = k.w.subs
                /\ r.w.s2c = k.w.s2c /\ r.w.req = k.w.req /\ r.w.reset = k.w.reset

\* The outcomes of send_frame.
LEMMA SendCases ==
  ASSUME NEW k, NEW W, LinkTo(k, W), NEW m \in Message,
         ClientNext(k.c.phase, "send", m.type) \in Phases \cup {"illegal"}
  PROVE  Sent(k, m, Send(k, m))
<1> DEFINE n == ClientNext(k.c.phase, "send", m.type)
           d == [k.c EXCEPT !.phase = n]
           b == [k.c EXCEPT !.poisoned = TRUE]
           x == [d EXCEPT !.poisoned = TRUE]
           v == [k.w EXCEPT !.c2s = Append(@, m)]
           moved == [k EXCEPT !.c.phase = n]
<1>1. k = [c |-> k.c, w |-> k.w] /\ CliType(k.c) /\ WireType(k.w) /\ n \in Phases \cup {"illegal"}
  BY DEF LinkTo
<1>2. CASE SendResult(k, m) = "closed"
  BY <1>1, <1>2 DEF Send, SendResult, Sent, SameBut, Alive, CliType
<1>3. CASE SendResult(k, m) = "protocol"
  <2>1. Send(k, m) = [c |-> b, w |-> k.w]
    BY <1>1, <1>3 DEF Send, Poison
  <2>2. SameBut(b, k.c) /\ b.poisoned
    BY <1>1 DEF SameBut, CliType
  <2>3. Sent(k, m, [c |-> b, w |-> k.w])
    BY <1>3, <2>2 DEF Sent, Alive
  <2> QED
    BY <2>1, <2>3
<1>4. CASE SendResult(k, m) \in {"io", "ok"}
  <2>1. /\ n \in Phases /\ n # "illegal" /\ Alive(k.c)
        /\ SendResult(k, m) = IF k.w.reset THEN "io" ELSE "ok"
    BY <1>1, <1>4 DEF SendResult, ClientTakes, Alive, Phases
  <2>2. moved = [c |-> d, w |-> k.w]
    BY <1>1
  <2>3. SameBut(d, k.c) /\ d.phase = n /\ d.poisoned = k.c.poisoned
    BY <1>1, <2>1 DEF SameBut, CliType
  <2>8. Alive(d)
    BY <2>1, <2>3 DEF SameBut, Alive
  <2>4. SameBut(x, k.c) /\ x.poisoned
    BY <1>1, <2>1 DEF SameBut, CliType
  <2>5. CASE SendResult(k, m) = "io"
    <3>1. Send(k, m) = [c |-> x, w |-> k.w]
      BY <2>2, <2>5 DEF Send, Poison
    <3>4. Sent(k, m, [c |-> x, w |-> k.w])
      BY <2>4, <2>5 DEF Alive, Sent
    <3> QED
      BY <3>1, <3>4
  <2>6. CASE SendResult(k, m) = "ok" /\ ~k.w.up
    <3>1. Send(k, m) = [c |-> d, w |-> k.w]
      BY <2>2, <2>6 DEF Send
    <3>4. Sent(k, m, [c |-> d, w |-> k.w])
      BY <2>1, <2>3, <2>6, <2>8 DEF Sent
    <3> QED
      BY <3>1, <3>4
  <2>7. CASE SendResult(k, m) = "ok" /\ k.w.up
    <3>1. Send(k, m) = [c |-> d, w |-> v]
      BY <2>2, <2>7 DEF Send
    <3>2. Append(k.w.c2s, m) \in Seq(Message)
      BY <1>1, AppendAt DEF WireType
    <3>3. /\ WireType(v) /\ Added(v.c2s, k.w.c2s, m)
          /\ v.up = k.w.up /\ v.phase = k.w.phase /\ v.subs = k.w.subs
          /\ v.s2c = k.w.s2c /\ v.req = k.w.req /\ v.reset = k.w.reset
      BY <1>1, <3>2 DEF WireType, Added
    <3> HIDE DEF v
    <3>4. Sent(k, m, [c |-> d, w |-> v])
      BY <2>1, <2>3, <2>7, <2>8, <3>3 DEF Sent
    <3> QED
      BY <3>1, <3>4
  <2> QED
    BY <1>4, <2>5, <2>6, <2>7
<1> QED
  BY <1>2, <1>3, <1>4 DEF SendResult

LEMMA NextPhase ==
  \A p \in Phases : \A d, t : ClientNext(p, d, t) \in Phases \cup {"illegal"}
  BY DEF ClientNext, Phases

\* What a frame added behind c2s keeps: a request only after none was outstanding.
LEMMA SendTied ==
  ASSUME NEW w, Wire(w), w.up, NEW v, WireType(v), NEW m \in Message, m.type \in Req \cup Ask,
         Added(v.c2s, w.c2s, m), v.up, v.phase = w.phase, v.subs = w.subs, v.s2c = w.s2c,
         v.req = w.req, v.reset = w.reset, NEW p \in Phases, Tied(p, w),
         ClientNext(p, "send", m.type) # "illegal"
  PROVE  Pipe(v) /\ Tied(ClientNext(p, "send", m.type), v)
<1>1. Grown(v.c2s, w.c2s, m)
  BY AppendKeeps DEF Wire, WireType
<1>2. CASE m.type \in Req
  <2>1. p = "Ready" /\ ClientNext(p, "send", m.type) = "ResponsePending" /\ Quiet(w)
    BY <1>2, ClientRows DEF Tied
  <2>2. m.type \notin Ask /\ "Ready" # "Handshake"
    BY <1>2 DEF Req, Ask
  <2>3. /\ Only(w.c2s, Req \cup Ask) /\ ~Has(w.c2s, Req) /\ Only(w.s2c, Unasked \cup Replies)
        /\ ~Has(w.s2c, Replies) /\ AtMostOne(w.c2s, Req) /\ AtMostOne(w.s2c, Replies)
        /\ w.phase = "Ready"
    BY <2>1 DEF Quiet, Only, Has, AtMostOne, Req, Ask, Unasked, Replies
  <2>4. Only(v.c2s, Req \cup Ask) /\ Has(v.c2s, Req) /\ AtMostOne(v.c2s, Req)
    BY <1>1, <1>2, <2>3 DEF Grown
  <2>5. Outstanding(v)
    BY <2>3, <2>4 DEF Outstanding
  <2>6. Pipe(v)
    BY <2>3, <2>4 DEF Wire, Pipe
  <2> QED
    BY <2>1, <2>5, <2>6 DEF Tied
<1>3. CASE m.type \in Ask
  <2>1. /\ p \in {"Ready", "ResponsePending"} /\ ClientNext(p, "send", m.type) = p
        /\ m.type \notin Req
    BY <1>3, ClientRows DEF Ask, Req
  <2>2. w.phase \in {"Ready", "ResponsePending"}
    BY <2>1 DEF Tied, Quiet, Outstanding
  <2>3. Only(v.c2s, Req \cup Ask)
    BY <1>1, <2>2 DEF Grown, Wire, Pipe
  <2>4. Pipe(v)
    BY <2>2, <2>3 DEF Wire, Pipe
  <2>5. Quiet(w) => Quiet(v)
    BY <1>1, <1>3 DEF Quiet, Grown
  <2>6. Outstanding(w) => Outstanding(v)
    BY <1>1, <2>1, <2>3 DEF Outstanding, Grown
  <2> QED
    BY <2>1, <2>4, <2>5, <2>6 DEF Tied
<1> QED
  BY <1>2, <1>3

\* A frame after the handshake; UNSUBSCRIBE empties what the server will hold.
LEMMA SendLink ==
  ASSUME NEW k, NEW W, LinkTo(k, W), NEW m \in Message, m.type \in Req \cup Ask,
         m.type = "Subscribe" => k.c.caps /\ <<m.region, m.id>> \in W
  PROVE  /\ Sent(k, m, Send(k, m))
         /\ LinkTo(Send(k, m), W)
         /\ m.type = "Unsubscribe" => LinkTo(Send(k, m), {})
<1> DEFINE r == Send(k, m)
<1>1. Sent(k, m, r)
  BY NextPhase, SendCases DEF LinkTo, CliType
<1> SUFFICES LinkTo(r, W) /\ (m.type = "Unsubscribe" => LinkTo(r, {}))
  BY <1>1
<1> HIDE DEF r
<1>2. /\ r = [c |-> r.c, w |-> r.w] /\ SameBut(r.c, k.c) /\ CliType(r.c) /\ r.c.conn = k.c.conn
      /\ r.c.caps = k.c.caps
  BY <1>1 DEF Sent, SameBut
<1>3. CASE ~Alive(k.c) /\ r = k
  BY <1>3 DEF LinkTo
<1>4. CASE r.c.poisoned /\ r.w = k.w
  BY <1>2, <1>4 DEF LinkTo, Alive
<1>5. CASE /\ Alive(k.c) /\ Alive(r.c) /\ ClientNext(k.c.phase, "send", m.type) # "illegal"
           /\ r.c.phase = ClientNext(k.c.phase, "send", m.type)
           /\ \/ ~k.w.up /\ r.w = k.w
              \/ /\ k.w.up /\ WireType(r.w) /\ Added(r.w.c2s, k.w.c2s, m)
                 /\ r.w.up /\ r.w.phase = k.w.phase /\ r.w.subs = k.w.subs
                 /\ r.w.s2c = k.w.s2c /\ r.w.req = k.w.req /\ r.w.reset = k.w.reset
  <2>1. /\ k.c.phase \in Phases /\ Wire(k.w) /\ Tied(k.c.phase, k.w) /\ SubsIn(k.w, W) /\ k.c.conn
        /\ k.c.conn /\ ~k.c.caps => NoSubs(k.w)
    BY <1>5 DEF LinkTo, CliType, Wire, Alive
  <2>2. CASE ~k.w.up /\ r.w = k.w
    <3>1. k.w.c2s = <<>> /\ k.w.subs = <<>>
      BY <2>1, <2>2 DEF Wire, Pipe
    <3>2. \A V : SubsIn(k.w, V)
      BY <3>1 DEF SubsIn, Latest
    <3>3. Tied(r.c.phase, k.w)
      <4>1. CASE m.type \in Req
        <5>1. k.c.phase = "Ready" /\ r.c.phase = "ResponsePending" /\ Quiet(k.w)
          BY <1>5, <2>1, <4>1, ClientRows DEF Tied
        <5> QED
          BY <2>2, <5>1 DEF Tied, Quiet, Outstanding, Only, AtMostOne, Unasked, Replies
      <4>2. CASE m.type \in Ask
        <5>1. r.c.phase = k.c.phase
          BY <1>5, <4>2, ClientRows DEF Ask
        <5> QED
          BY <2>1, <5>1
      <4> QED
        BY <4>1, <4>2
    <3>4. WireType(r.w) /\ Pipe(r.w) /\ Tied(r.c.phase, r.w) /\ r.c.conn
          /\ (~r.c.caps => NoSubs(r.w)) /\ \A V : SubsIn(r.w, V)
      BY <1>2, <2>1, <2>2, <3>2, <3>3 DEF Wire
    <3> QED
      BY <1>2, <3>4 DEF LinkTo
  <2>3. CASE /\ k.w.up /\ WireType(r.w) /\ Added(r.w.c2s, k.w.c2s, m)
             /\ r.w.up /\ r.w.phase = k.w.phase /\ r.w.subs = k.w.subs
             /\ r.w.s2c = k.w.s2c /\ r.w.req = k.w.req /\ r.w.reset = k.w.reset
    <3>1. Pipe(r.w) /\ Tied(r.c.phase, r.w)
      BY <1>5, <2>1, <2>3, SendTied
    <3>2. Grown(r.w.c2s, k.w.c2s, m)
      BY <2>1, <2>3, AppendKeeps DEF Wire, WireType
    <3>3. SubsIn(r.w, W)
      <4>1. Latest(r.w.c2s, W)
        BY <2>1, <3>2 DEF SubsIn, Grown
      <4>2. ~Has(r.w.c2s, Cut) => ~Has(k.w.c2s, Cut)
        BY <3>2 DEF Grown
      <4> QED
        BY <2>1, <2>3, <4>1, <4>2 DEF SubsIn
    <3>4. m.type = "Unsubscribe" => SubsIn(r.w, {})
      BY <3>2 DEF SubsIn, Grown, Cut
    <3>5. ~k.c.caps => NoSubs(r.w)
      <4>1. ~k.c.caps => m.type \notin {"Subscribe"} /\ NoSubs(k.w)
        BY <2>1
      <4>2. Has(r.w.c2s, {"Subscribe"}) <=> Has(k.w.c2s, {"Subscribe"}) \/ m.type \in {"Subscribe"}
        BY <3>2 DEF Grown
      <4> QED
        BY <2>3, <4>1, <4>2 DEF NoSubs
    <3>6. WireType(r.w) /\ r.c.conn /\ (~r.c.caps => NoSubs(r.w))
      BY <1>2, <2>1, <2>3, <3>5
    <3> QED
      BY <1>2, <3>1, <3>3, <3>4, <3>6 DEF LinkTo
  <2> QED
    BY <1>5, <2>2, <2>3
<1> QED
  BY <1>1, <1>3, <1>4, <1>5 DEF Sent

\* The head of s2c is read in phase p.
LEMMA ReadTied ==
  ASSUME NEW w, Wire(w), w.s2c # <<>>, NEW v, v = [w EXCEPT !.s2c = Tail(@)],
         NEW p \in Phases, Tied(p, w), NEW t, t = Head(w.s2c).type,
         ClientNext(p, "receive", t) # "illegal"
  PROVE  /\ Wire(v) /\ Tied(ClientNext(p, "receive", t), v)
         /\ v.subs = w.subs /\ v.c2s = w.c2s /\ v.up = w.up /\ v.phase = w.phase /\ v.req = w.req
         /\ v.s2c = Tail(w.s2c)
         /\ Head(w.s2c) \in Message /\ t \in ServerOut /\ w.s2c \in Seq(Message)
<1> DEFINE q == w.s2c
<1>1. /\ q \in Seq(Message) /\ q # <<>> /\ WireType(w) /\ Pipe(w)
  BY DEF Wire, WireType
<1>2. /\ Tail(q) \in Seq(Message) /\ Head(q) \in Message /\ Head(q) = q[1] /\ 1 \in DOMAIN q
      /\ Len(q) \in Nat \ {0} /\ Len(Tail(q)) = Len(q) - 1 /\ DOMAIN q = 1..Len(q)
      /\ DOMAIN Tail(q) = 1..(Len(q) - 1)
      /\ \A i \in DOMAIN Tail(q) : i + 1 \in DOMAIN q /\ Tail(q)[i] = q[i + 1]
  BY <1>1, TailAt
<1>3. /\ WireType(v) /\ v.up = w.up /\ v.phase = w.phase /\ v.subs = w.subs /\ v.c2s = w.c2s
      /\ v.req = w.req /\ v.reset = w.reset /\ v.s2c = Tail(q)
  BY <1>1, <1>2 DEF WireType
<1>4. t \in ServerOut
  BY <1>1, <1>2 DEF Pipe, Only
<1>5. Pipe(v)
  <2>1. Only(v.s2c, ServerOut)
    BY <1>1, <1>3, TailKeeps DEF Pipe
  <2>2. ASSUME NEW i \in DOMAIN v.s2c, v.s2c[i].type = "ServerBye" PROVE ~w.up /\ i = Len(v.s2c)
    <3>1. q[i + 1].type = "ServerBye" /\ i + 1 \in DOMAIN q /\ i \in Int
      BY <1>2, <1>3, <2>2
    <3>2. ~w.up /\ i + 1 = Len(q)
      BY <1>1, <3>1 DEF Pipe
    <3> QED
      BY <1>2, <1>3, <3>1, <3>2
  <2>3. w.up => \/ w.phase \in {"Ready", "ResponsePending"}
                \/ w.s2c = <<>>
    BY <1>1 DEF Pipe
  <2> QED
    BY <1>1, <1>3, <2>1, <2>2, <2>3 DEF Pipe
<1>6. Tied(ClientNext(p, "receive", t), v)
  <2>1. CASE p = "HandshakeReply"
    <3>1. Greeting(w)
      BY <2>1 DEF Tied
    <3>2. ClientNext(p, "receive", t) = "Ready"
      BY <1>2, <1>4, <2>1, <3>1, ClientReads DEF Greeting
    <3>3. \A i \in DOMAIN v.s2c : v.s2c[i].type = "ServerBye"
      <4> TAKE i \in DOMAIN v.s2c
      <4>1. i + 1 \in DOMAIN q /\ v.s2c[i] = q[i + 1] /\ i + 1 # 1
        BY <1>2, <1>3
      <4> QED
        BY <3>1, <4>1 DEF Greeting
    <3>4. w.up => w.phase = "Ready" /\ w.c2s = <<>>
      BY <1>1, <3>1 DEF Greeting, Pipe
    <3>5. Quiet(v)
      BY <1>3, <3>3, <3>4 DEF Quiet, Only, Unasked
    <3> QED
      BY <3>2, <3>5 DEF Tied
  <2>2. CASE p \in {"Ready", "ResponsePending"} /\ t \in {"Pong", "Update"}
    <3>1. ClientNext(p, "receive", t) = p /\ t \notin Replies
      BY <1>4, <2>2, ClientReads DEF Replies
    <3>2. Quiet(w) => Quiet(v)
      BY <1>1, <1>3, TailKeeps DEF Quiet
    <3>3. Outstanding(w) => Outstanding(v)
      BY <1>1, <1>3, <3>1, TailKeeps DEF Outstanding
    <3> QED
      BY <2>2, <3>1, <3>2, <3>3 DEF Tied
  <2>3. CASE p = "ResponsePending" /\ t \in Replies
    <3>1. ClientNext(p, "receive", t) = "Ready" /\ Outstanding(w)
      BY <1>4, <2>3, ClientReads DEF Tied, Replies
    <3>2. ~Has(v.s2c, Replies) /\ Has(w.s2c, Replies) /\ Only(v.s2c, Unasked \cup Replies)
      BY <1>1, <1>3, <2>3, <3>1, TailKeeps DEF Outstanding
    <3>3. Only(v.s2c, Unasked)
      BY <3>2 DEF Only, Has
    <3>4. w.up => w.phase = "Ready" /\ ~Has(w.c2s, Req) /\ Only(w.c2s, Req \cup Ask)
      BY <3>1, <3>2 DEF Outstanding
    <3>5. w.up => Only(w.c2s, Ask)
      BY <3>4 DEF Only, Has
    <3> QED
      BY <1>3, <3>1, <3>3, <3>4, <3>5 DEF Tied, Quiet
  <2>4. CASE p \in {"Ready", "ResponsePending"} /\ t = "ServerBye"
    <3>1. ClientNext(p, "receive", t) = "Closed"
      BY <1>4, <2>4, ClientReads DEF Replies
    <3>2. ~w.up /\ Len(q) = 1
      BY <1>1, <1>2, <2>4 DEF Pipe
    <3>3. Tail(q) = <<>>
      BY <1>2, <3>2, EmptySeq
    <3> QED
      BY <1>3, <3>1, <3>2, <3>3 DEF Tied
  <2> QED
    BY <1>4, <2>1, <2>2, <2>3, <2>4, ClientReads
<1> QED
  BY <1>1, <1>2, <1>3, <1>4, <1>5, <1>6 DEF Wire

\* The outcomes of recv_frame.
LEMMA ReadLink ==
  ASSUME NEW k, NEW W, LinkTo(k, W)
  PROVE  /\ Read(k) = [c |-> Read(k).c, w |-> Read(k).w]
         /\ LinkTo(Read(k), W) /\ SameBut(Read(k).c, k.c)
         /\ ReadResult(k) = "frame" =>
              LET m == Head(k.w.s2c) r == Read(k)
              IN  /\ Alive(k.c) /\ Alive(r.c) /\ m \in Message /\ m.type \in ServerOut
                  /\ k.w.s2c # <<>> /\ k.w.s2c \in Seq(Message)
                  /\ ClientNext(k.c.phase, "receive", m.type) # "illegal"
                  /\ r.c.phase = ClientNext(k.c.phase, "receive", m.type)
                  /\ r.w.c2s = k.w.c2s /\ r.w.up = k.w.up /\ r.w.phase = k.w.phase
                  /\ r.w.req = k.w.req /\ r.w.s2c = Tail(k.w.s2c)
<1> DEFINE m == Head(k.w.s2c)
           n == ClientNext(k.c.phase, "receive", m.type)
           d == [k.c EXCEPT !.phase = n]
           v == [k.w EXCEPT !.s2c = Tail(@)]
<1>1. /\ k = [c |-> k.c, w |-> k.w] /\ CliType(k.c) /\ k.c.phase \in Phases /\ Wire(k.w)
  BY DEF LinkTo, CliType, Wire
<1>2. CASE ReadResult(k) # "frame"
  <2>1. Read(k) = Poison(k)
    BY <1>2 DEF Read
  <2>2. SameBut([k.c EXCEPT !.poisoned = TRUE], k.c)
    BY <1>1 DEF SameBut, CliType
  <2>3. LinkTo(Poison(k), W) /\ SameBut(Poison(k).c, k.c)
    BY <2>2, PoisonLink
  <2> QED
    BY <1>2, <2>1, <2>3 DEF LinkTo
<1>3. CASE ReadResult(k) = "frame"
  <2>1. ~k.c.poisoned /\ k.w.s2c # <<>> /\ ClientTakes(k.c.phase, "receive", m.type)
    BY <1>3 DEF ReadResult
  <2>2. Alive(k.c) /\ Tied(k.c.phase, k.w) /\ SubsIn(k.w, W)
    BY <2>1 DEF LinkTo, Alive, Gone, Fresh
  <2>3. n # "illegal" /\ n \in Phases
    BY <1>1, <2>1, NextPhase DEF ClientTakes
  <2>4. /\ Wire(v) /\ Tied(n, v)
        /\ v.subs = k.w.subs /\ v.c2s = k.w.c2s /\ v.up = k.w.up /\ v.phase = k.w.phase
        /\ v.req = k.w.req /\ v.s2c = Tail(k.w.s2c)
        /\ m \in Message /\ m.type \in ServerOut /\ k.w.s2c \in Seq(Message)
    BY <1>1, <2>1, <2>2, <2>3, ReadTied
  <2>5. SameBut(d, k.c) /\ d.phase = n /\ d.poisoned = k.c.poisoned
    BY <1>1, <2>3 DEF SameBut, CliType
  <2>6. Read(k) = [c |-> d, w |-> v]
    BY <1>1, <1>3 DEF Read
  <2> HIDE DEF d, v
  <2>7. Alive(d)
    BY <2>2, <2>5 DEF Alive, SameBut
  <2>8. LinkTo([c |-> d, w |-> v], W)
    <3>1. CliType(d) /\ d.conn /\ d.caps = k.c.caps
      BY <2>2, <2>5 DEF SameBut, Alive
    <3>2. SubsIn(v, W)
      BY <2>2, <2>4 DEF SubsIn
    <3>3. ~k.c.caps => NoSubs(v)
      BY <2>2, <2>4 DEF LinkTo, NoSubs, Alive
    <3> QED
      BY <2>4, <2>5, <3>1, <3>2, <3>3 DEF LinkTo, Wire
  <2> HIDE DEF n
  <2> QED
    BY <2>1, <2>2, <2>3, <2>4, <2>5, <2>6, <2>7, <2>8 DEF n
<1> QED
  BY <1>2, <1>3

\* No connection: nothing is said of the wire.
LEMMA GoneLink ==
  ASSUME NEW d, CliType(d), ~d.conn, NEW W
  PROVE  LinkTo([c |-> d, w |-> Gone], W)
<1>1. /\ WireType(Gone) /\ ~Gone.up /\ Gone.c2s = <<>> /\ Gone.subs = <<>> /\ Gone.s2c = <<>>
  BY EmptySeq DEF WireType, Gone, Fresh, Msg, Message, Phases
<1>2. Pipe(Gone)
  BY <1>1 DEF Pipe, Only
<1> QED
  BY <1>1, <1>2 DEF LinkTo, Alive

\* The client's record after close_connection.
ClosedClient(c) == [c EXCEPT !.conn = FALSE, !.caps = FALSE, !.pending = <<>>,
                             !.phase = "Handshake", !.poisoned = FALSE]

LEMMA ClosedLink ==
  ASSUME NEW k, k = [c |-> k.c, w |-> k.w], CliType(k.c)
  PROVE  /\ Closed(k) = [c |-> ClosedClient(k.c), w |-> Gone]
         /\ CliType(ClosedClient(k.c)) /\ ~ClosedClient(k.c).conn
         /\ ClosedClient(k.c).active = k.c.active /\ ClosedClient(k.c).scope = k.c.scope
         /\ Link(Closed(k))
<1> DEFINE d == ClosedClient(k.c)
<1>1. /\ CliType(d) /\ ~d.conn /\ d.active = k.c.active /\ d.scope = k.c.scope
  BY DEF CliType, ClosedClient, Phases
<1>2. Closed(k) = [c |-> d, w |-> Gone]
  <2>1. Closed(k) = [k EXCEPT !.c = d, !.w = Gone]
    BY DEF Closed, ClosedClient
  <2> QED
    BY <2>1, SetBoth
<1> HIDE DEF d
<1>3. Link([c |-> d, w |-> Gone])
  BY <1>1, GoneLink DEF Link
<1> QED
  BY <1>1, <1>2, <1>3 DEF d

LEMMA RetireOriginLink ==
  ASSUME NEW k, k = [c |-> k.c, w |-> k.w], CliType(k.c)
  PROVE  /\ Link(RetireOrigin(k)) /\ RetireOrigin(k).c.active = {}
         /\ RetireOrigin(k).c.scope = NoScope
<1> DEFINE b == ClosedClient(k.c)
           d == [b EXCEPT !.origin = "none", !.scope = NoScope, !.active = {}]
<1>1. Closed(k) = [c |-> b, w |-> Gone] /\ CliType(b) /\ ~b.conn
  BY ClosedLink
<1> HIDE DEF b
<1>2. RetireOrigin(k) = [c |-> d, w |-> Gone]
  <2>1. RetireOrigin(k) = [Closed(k) EXCEPT !.c = d]
    BY <1>1 DEF RetireOrigin
  <2> QED
    BY <1>1, <2>1, SetClient
<1>3. CliType(d) /\ ~d.conn /\ d.active = {} /\ d.scope = NoScope
  BY <1>1 DEF CliType, NoScope, Scope
<1> HIDE DEF d
<1>4. Link([c |-> d, w |-> Gone])
  BY <1>3, GoneLink DEF Link
<1> QED
  BY <1>2, <1>3, <1>4

\* The server is told, and the client wants nothing.
LEMMA UnsubscribeLink ==
  ASSUME NEW k, Link(k)
  PROVE  /\ Link(Unsubscribe(k)) /\ Unsubscribe(k).c.active = {}
         /\ Unsubscribe(k).c.scope = k.c.scope
<1> DEFINE m == Msg("Unsubscribe", 0)
           r == Send(k, m)
           d == [r.c EXCEPT !.active = {}, !.pending = <<>>]
<1>1. m \in Message /\ m.type = "Unsubscribe" /\ m.type \in Req \cup Ask
  BY DEF Msg, Message, ClientOut, Ask
<1> HIDE DEF m
<1>2. Sent(k, m, r) /\ LinkTo(r, {})
  BY <1>1, SendLink DEF Link
<1>3. r = [c |-> r.c, w |-> r.w] /\ SameBut(r.c, k.c) /\ CliType(r.c)
  BY <1>2 DEF Sent, SameBut
<1> HIDE DEF r
<1>4. Unsubscribe(k) = [c |-> d, w |-> r.w]
  <2>1. Unsubscribe(k) = [r EXCEPT !.c = d]
    BY DEF Unsubscribe, m, r
  <2> QED
    BY <1>3, <2>1, SetClient
<1>5. /\ CliType(d) /\ d.active = {} /\ d.scope = r.c.scope /\ d.conn = r.c.conn
      /\ d.poisoned = r.c.poisoned /\ d.phase = r.c.phase /\ d.caps = r.c.caps
  BY <1>3 DEF CliType
<1> HIDE DEF d
<1>6. LinkTo([c |-> d, w |-> r.w], {})
  BY <1>2, <1>5, ClientChange
<1>7. Link([c |-> d, w |-> r.w])
  BY <1>6, WantMore DEF Link
<1> QED
  BY <1>3, <1>4, <1>5, <1>7 DEF SameBut

LEMMA RetirePageWorkLink ==
  ASSUME NEW k, Link(k), NEW s
  PROVE  Link(RetirePageWork(k, s))
<1> DEFINE rest == QueuedOthers(k, s)
           left == [k EXCEPT !.c = [k.c EXCEPT !.active = @ \ Owned(k, s), !.pending = rest]]
           told == k.c.scope = s /\ Owned(k, s) # {}
           retired == IF told THEN Unsubscribe(k) ELSE left
           d == [k.c EXCEPT !.active = @ \ Owned(k, s), !.pending = rest]
           f == [retired.c EXCEPT !.scope = IF @ = s THEN NoScope ELSE @]
<1>1. RetirePageWork(k, s) = [retired EXCEPT !.c.scope = IF @ = s THEN NoScope ELSE @]
  BY DEF RetirePageWork
<1>2. k = [c |-> k.c, w |-> k.w] /\ CliType(k.c)
  BY DEF Link, LinkTo
<1>3. left = [c |-> d, w |-> k.w]
  <2>1. left = [k EXCEPT !.c = d]
    OBVIOUS
  <2> QED
    BY <1>2, <2>1, SetClient
<1>4. ~told => k.c.active \ Owned(k, s) = k.c.active /\ (k.c.scope = s => k.c.active = {})
  BY <1>2 DEF CliType, Owned
<1>5. ASSUME ~told
      PROVE  /\ CliType(d) /\ d.active = k.c.active /\ d.scope = k.c.scope /\ d.conn = k.c.conn
             /\ d.poisoned = k.c.poisoned /\ d.phase = k.c.phase /\ d.caps = k.c.caps
  BY <1>2, <1>4, <1>5 DEF CliType
<1> HIDE DEF d
<1>6. ASSUME ~told PROVE Link(left) /\ left.c.active = k.c.active /\ left.c.scope = k.c.scope
  <2>1. WantedBy(d) = WantedBy(k.c)
    BY <1>5, <1>6 DEF WantedBy
  <2>2. LinkTo([c |-> d, w |-> k.w], WantedBy(k.c))
    BY <1>5, <1>6, ClientChange DEF Link
  <2>3. left.c = d /\ Link([c |-> d, w |-> k.w])
    BY <1>3, <2>1, <2>2 DEF Link
  <2> HIDE DEF left
  <2> QED
    BY <1>3, <1>5, <1>6, <2>3
<1> HIDE DEF left
<1>7. Link(retired) /\ (retired.c.scope = s => retired.c.active = {})
  <2>1. CASE told
    BY <2>1, UnsubscribeLink
  <2>2. CASE ~told
    BY <1>4, <1>6, <2>2
  <2> QED
    BY <2>1, <2>2
<1> HIDE DEF retired
<1>8. retired = [c |-> retired.c, w |-> retired.w] /\ CliType(retired.c)
  BY <1>7 DEF Link, LinkTo
<1>9. RetirePageWork(k, s) = [c |-> f, w |-> retired.w]
  <2>1. RetirePageWork(k, s) = [retired EXCEPT !.c = f]
    BY <1>1
  <2> HIDE DEF f
  <2> QED
    BY <1>8, <2>1, SetClient
<1>10. /\ CliType(f) /\ f.active = retired.c.active /\ f.conn = retired.c.conn
       /\ f.poisoned = retired.c.poisoned /\ f.phase = retired.c.phase /\ f.caps = retired.c.caps
  BY <1>7, <1>8 DEF CliType, NoScope, Scope
<1> HIDE DEF f
<1>11. Link([c |-> f, w |-> retired.w])
  <2>1. WantedBy(f) = WantedBy(retired.c)
    BY <1>10 DEF WantedBy
  <2> QED
    BY <1>7, <1>10, <2>1, ClientChange DEF Link
<1> QED
  BY <1>9, <1>11

LEMMA ActivatePageScopeLink ==
  ASSUME NEW k, Link(k), NEW s \in Scope
  PROVE  Link(ActivatePageScope(k, s))
<1>1. CASE k.c.scope = s
  BY <1>1 DEF ActivatePageScope
<1>2. CASE k.c.scope # s
  <2> DEFINE told == IF k.c.active # {} /\ k.c.caps THEN Unsubscribe(k) ELSE k
             d == [told.c EXCEPT !.active = {}, !.pending = <<>>]
             retired == IF k.c.scope # NoScope /\ k.c.scope.origin # s.origin THEN RetireOrigin(k)
                        ELSE [told EXCEPT !.c = [@ EXCEPT !.active = {}, !.pending = <<>>]]
             f == [retired.c EXCEPT !.scope = s]
  <2>1. ActivatePageScope(k, s) = [retired EXCEPT !.c.scope = s]
    BY <1>2 DEF ActivatePageScope
  <2>2. k = [c |-> k.c, w |-> k.w] /\ CliType(k.c)
    BY DEF Link, LinkTo
  <2>3. LinkTo(told, {})
    <3>1. CASE k.c.active # {} /\ k.c.caps
      <4>1. Link(Unsubscribe(k)) /\ Unsubscribe(k).c.active = {}
        BY UnsubscribeLink
      <4>2. WantedBy(Unsubscribe(k).c) = {}
        BY <4>1 DEF WantedBy
      <4> QED
        BY <3>1, <4>1, <4>2 DEF Link
    <3>2. CASE k.c.active = {}
      <4>1. WantedBy(k.c) = {}
        BY <3>2 DEF WantedBy
      <4> QED
        BY <3>2, <4>1 DEF Link
    <3>3. CASE ~k.c.caps
      <4>1. ASSUME Alive(k.c) PROVE SubsIn(k.w, {})
        <5>1. NoSubs(k.w)
          BY <3>3, <4>1 DEF Link, LinkTo, Alive
        <5> QED
          BY <5>1 DEF NoSubs, SubsIn, Latest, Has
      <4> QED
        BY <3>3, <4>1 DEF Link, LinkTo
    <3> QED
      BY <3>1, <3>2, <3>3
  <2> HIDE DEF told
  <2>4. told = [c |-> told.c, w |-> told.w] /\ CliType(told.c)
    BY <2>3 DEF LinkTo
  <2>5. [told EXCEPT !.c = [@ EXCEPT !.active = {}, !.pending = <<>>]] = [c |-> d, w |-> told.w]
    BY <2>4, SetClient
  <2>6. /\ CliType(d) /\ d.active = {} /\ d.conn = told.c.conn
        /\ d.poisoned = told.c.poisoned /\ d.phase = told.c.phase /\ d.caps = told.c.caps
    BY <2>4 DEF CliType
  <2> HIDE DEF d
  <2>7. LinkTo([c |-> d, w |-> told.w], {})
    BY <2>3, <2>6, ClientChange
  <2>8. LinkTo(retired, {}) /\ retired.c.active = {}
    <3>1. CASE k.c.scope # NoScope /\ k.c.scope.origin # s.origin
      <4>1. Link(RetireOrigin(k)) /\ RetireOrigin(k).c.active = {}
        BY <2>2, RetireOriginLink
      <4>2. WantedBy(RetireOrigin(k).c) = {}
        BY <4>1 DEF WantedBy
      <4> QED
        BY <3>1, <4>1, <4>2 DEF Link
    <3>2. CASE ~(k.c.scope # NoScope /\ k.c.scope.origin # s.origin)
      BY <2>5, <2>6, <2>7, <3>2
    <3> QED
      BY <3>1, <3>2
  <2> HIDE DEF retired
  <2>9. retired = [c |-> retired.c, w |-> retired.w] /\ CliType(retired.c)
    BY <2>8 DEF LinkTo
  <2>10. ActivatePageScope(k, s) = [c |-> f, w |-> retired.w]
    <3>1. ActivatePageScope(k, s) = [retired EXCEPT !.c = f]
      BY <2>1
    <3> HIDE DEF f
    <3> QED
      BY <2>9, <3>1, SetClient
  <2>11. /\ CliType(f) /\ f.active = {} /\ f.conn = retired.c.conn
         /\ f.poisoned = retired.c.poisoned /\ f.phase = retired.c.phase /\ f.caps = retired.c.caps
    BY <2>8, <2>9 DEF CliType
  <2> HIDE DEF f
  <2>12. LinkTo([c |-> f, w |-> retired.w], {})
    BY <2>8, <2>11, ClientChange
  <2>13. Link([c |-> f, w |-> retired.w])
    BY <2>12, WantMore DEF Link
  <2> QED
    BY <2>10, <2>13
<1> QED
  BY <1>1, <1>2

-----------------------------------------------------------------------------
(* The steps of the client.                                                *)

\* Where a step leaves the client and the wire.
LEMMA BecomesNow ==
  ASSUME NEW k, Link(k), Becomes(k)
  PROVE  Now' = k
  BY DEF Becomes, Now, Link, LinkTo

LEMMA NowIsLinked ==
  ASSUME Inv
  PROVE  /\ Link(Now) /\ Now = [c |-> Now.c, w |-> Now.w] /\ Now.c = cli /\ Now.w = wire
         /\ CliType(cli) /\ Wire(wire) /\ op \in Op /\ reqs \in Nat /\ view \in View
  BY DEF Inv, Link, LinkTo, Now, Operation, Fits, Wire

LEMMA GotoInv ==
  ASSUME Inv, NEW k, Link(k), NEW o, Goto(k, o), Fits(o, k)
  PROVE  Inv'
<1>1. Now' = k /\ op' = o /\ out' = Silent /\ view' = view /\ reqs' = reqs
  BY BecomesNow DEF Goto
<1>2. Operation'
  BY <1>1 DEF Inv, Operation
<1>3. ReplyMatchesRequest'
  BY <1>1 DEF ReplyMatchesRequest, Silent
<1> QED
  BY <1>1, <1>2, <1>3 DEF Inv

\* An operation that neither waits nor replays fits any connection.
LEMMA StartFits ==
  ASSUME NEW o \in Op, o.kind # "none", o.step \notin {"wait", "replay"}
  PROVE  \A k : Fits(o, k)
  BY DEF Fits

LEMMA NoOpType == NoOp \in Op /\ NoScope \in Scope
  BY DEF NoOp, Op, NoScope, Scope

\* An operation that has just started.
LEMMA Starting ==
  ASSUME NEW kind \in {"fetch", "submit", "resource", "reconnect"}, NEW s \in Scope, NEW n \in Nat
  PROVE  LET o == [NoOp EXCEPT !.kind = kind, !.step = "connect", !.tries = 1, !.scope = s, !.id = n]
         IN  \A k : Fits(o, k)
<1> DEFINE o == [NoOp EXCEPT !.kind = kind, !.step = "connect", !.tries = 1, !.scope = s, !.id = n]
<1>1. 1 \in 0..2 /\ {} \in SUBSET Regions
  OBVIOUS
<1>2. NoOp \in Op
  BY NoOpType
<1>3. o \in Op /\ o.kind = kind /\ o.step = "connect"
  BY <1>1, <1>2 DEF Op
<1> QED
  BY <1>3, StartFits

LEMMA NoOpFits == \A k : Fits(NoOp, k)
  BY DEF Fits, NoOp, Op, NoScope, Scope

LEMMA FinishInv ==
  ASSUME Inv, NEW k, Link(k), NEW ok \in BOOLEAN, NEW report, Finish(k, ok, report),
         report.what = "reply" => report.got = report.want
  PROVE  Inv'
<1>1. op' = NoOp /\ out' = report /\ reqs' = reqs
  BY DEF Finish
<1>2. view' \in View
  BY NowIsLinked DEF Finish, View
<1>3. \/ Becomes(k)
      \/ Becomes(RetirePageWork(k, op.scope))
  BY DEF Finish
<1>4. Link(Now')
  BY <1>3, BecomesNow, RetirePageWorkLink
<1>5. Operation'
  BY <1>1, <1>2, NoOpFits, NowIsLinked DEF Operation
<1>6. ReplyMatchesRequest'
  BY <1>1 DEF ReplyMatchesRequest
<1> QED
  BY <1>4, <1>5, <1>6 DEF Inv

LEMMA FailInv ==
  ASSUME Inv, NEW k, Link(k), NEW why, Fail(k, why)
  PROVE  Inv'
<1>1. CASE op.kind = "fetch" /\ op.tries = 1 /\ why \in {"closed", "io"}
  <2> DEFINE o == [op EXCEPT !.step = "connect", !.tries = 2]
  <2>1. Link(Closed(k))
    BY ClosedLink DEF Link, LinkTo
  <2>2. Goto(Closed(k), o)
    BY <1>1 DEF Fail, Goto
  <2>3. Fits(o, Closed(k))
    <3>1. op \in Op
      BY NowIsLinked
    <3>2. o \in Op /\ o.kind = "fetch" /\ o.step = "connect"
      <4>1. 2 \in 0..2
        OBVIOUS
      <4> QED
        BY <1>1, <3>1, <4>1 DEF Op
    <3> QED
      BY <3>2, StartFits
  <2> QED
    BY <2>1, <2>2, <2>3, GotoInv
<1>2. CASE ~(op.kind = "fetch" /\ op.tries = 1 /\ why \in {"closed", "io"})
  <2>1. Finish(k, FALSE, Failed(why))
    BY <1>2 DEF Fail
  <2> QED
    BY <2>1, FinishInv DEF Failed
<1> QED
  BY <1>1, <1>2

-----------------------------------------------------------------------------
(* What the runner starts.                                                 *)

LEMMA LeavePageLink ==
  ASSUME Inv, NEW o
  PROVE  Link(LeavePage(o))
<1> DEFINE left == IF view.scope = NoScope THEN Now ELSE RetirePageWork(Now, view.scope)
<1>1. Link(left)
  BY NowIsLinked, RetirePageWorkLink
<1>2. Link(RetireOrigin(left))
  BY <1>1, RetireOriginLink DEF Link, LinkTo
<1> QED
  BY <1>1, <1>2 DEF LeavePage

LEMMA NavigateInv ==
  ASSUME Inv, NEW kind \in {"fetch", "submit"}, NEW o \in Origins, Navigate(kind, o)
  PROVE  Inv'
<1> DEFINE s == [origin |-> o, gen |-> reqs + 1]
           k == ActivatePageScope(LeavePage(o), s)
<1>1. s \in Scope /\ reqs + 1 \in Nat
  BY NowIsLinked DEF Scope
<1>2. Link(k)
  BY <1>1, LeavePageLink, ActivatePageScopeLink
<1>3. Becomes(k) /\ view' = [scope |-> s, loaded |-> FALSE, online |-> TRUE] /\ out' = Silent
      /\ reqs' = reqs + 1
      /\ op' = [NoOp EXCEPT !.kind = kind, !.step = "connect", !.tries = 1, !.scope = s, !.id = reqs + 1]
  BY DEF Navigate
<1>4. Link(Now')
  BY <1>2, <1>3, BecomesNow
<1>5. Fits(op', Now')
  BY <1>1, <1>3, Starting
<1>6. view' \in View
  BY <1>1, <1>3 DEF View
<1>7. ReplyMatchesRequest'
  BY <1>3 DEF ReplyMatchesRequest, Silent
<1> QED
  BY <1>1, <1>3, <1>4, <1>5, <1>6, <1>7 DEF Inv, Operation

\* While the client is idle its operation says nothing of the connection.
LEMMA IdleFits ==
  ASSUME Inv, Idle
  PROVE  \A k : Fits(op, k)
  BY DEF Inv, Operation, Fits, Idle

LEMMA ActivateCachedHistoryInv ==
  ASSUME Inv, NEW o \in Origins, ActivateCachedHistory(o)
  PROVE  Inv'
<1> DEFINE s == [origin |-> o, gen |-> reqs + 1]
           k == ActivatePageScope(LeavePage(o), s)
<1>1. s \in Scope /\ reqs + 1 \in Nat /\ view \in View
  BY NowIsLinked DEF Scope
<1>2. Link(k)
  BY <1>1, LeavePageLink, ActivatePageScopeLink
<1>3. Becomes(k) /\ out' = Silent /\ reqs' = reqs + 1 /\ op' = op /\ Idle
      /\ view' = [scope |-> s, loaded |-> TRUE, online |-> view.online /\ view.scope.origin = o]
  BY DEF ActivateCachedHistory
<1>4. Link(Now')
  BY <1>2, <1>3, BecomesNow
<1>5. Fits(op', Now')
  BY <1>3, IdleFits
<1>6. view' \in View
  BY <1>1, <1>3 DEF View
<1>7. ReplyMatchesRequest'
  BY <1>3 DEF ReplyMatchesRequest, Silent
<1> QED
  BY <1>1, <1>3, <1>4, <1>5, <1>6, <1>7 DEF Inv, Operation

LEMMA FetchResourceInv == Inv /\ FetchResource => Inv'
<1> SUFFICES ASSUME Inv, FetchResource PROVE Inv'
  OBVIOUS
<1>1. /\ op' = [NoOp EXCEPT !.kind = "resource", !.step = "connect", !.tries = 1,
                            !.scope = view.scope, !.id = reqs + 1]
      /\ reqs' = reqs + 1 /\ out' = Silent /\ view' = view /\ Now' = Now
  BY DEF FetchResource, Now
<1>2. reqs + 1 \in Nat /\ view.scope \in Scope /\ view \in View
  BY NowIsLinked DEF View
<1>3. Fits(op', Now')
  BY <1>1, <1>2, Starting
<1>4. ReplyMatchesRequest'
  BY <1>1 DEF ReplyMatchesRequest, Silent
<1> QED
  BY <1>1, <1>2, <1>3, <1>4 DEF Inv, Operation

LEMMA ResubscribeLiveInv ==
  ASSUME Inv, NEW R \in SUBSET Regions, ResubscribeLive(R)
  PROVE  Inv'
<1> DEFINE k == IF cli.active # {} THEN Unsubscribe(Now) ELSE Now
           o == [NoOp EXCEPT !.kind = "resubscribe", !.step = "subscribe", !.scope = view.scope, !.todo = R]
<1>1. Link(k)
  BY NowIsLinked, UnsubscribeLink
<1>2. view.scope \in Scope
  BY NowIsLinked DEF View
<1>3. Goto(k, o) \/ Goto(k, NoOp)
  BY DEF ResubscribeLive
<1> HIDE DEF k
<1>4. Fits(o, k)
  <2>1. o \in Op /\ o.kind = "resubscribe" /\ o.step = "subscribe"
    BY <1>2, NoOpType DEF Op
  <2> QED
    BY <2>1, StartFits
<1> QED
  BY <1>1, <1>3, <1>4, GotoInv, NoOpFits

LEMMA SendPingInv == Inv /\ SendPing => Inv'
<1> SUFFICES ASSUME Inv, SendPing PROVE Inv'
  OBVIOUS
<1> DEFINE m == Msg("Ping", 0)
<1>1. m \in Message /\ m.type = "Ping" /\ m.type \in Req \cup Ask
  BY DEF Msg, Message, ClientOut, Ask
<1>2. Goto(Send(Now, m), NoOp)
  BY DEF SendPing
<1> HIDE DEF m
<1>3. Link(Send(Now, m))
  <2>1. Sent(Now, m, Send(Now, m)) /\ LinkTo(Send(Now, m), WantedBy(Now.c))
    BY <1>1, NowIsLinked, SendLink DEF Link
  <2> QED
    BY <2>1 DEF Link, Sent, SameBut, WantedBy
<1> QED
  BY <1>2, <1>3, GotoInv, NoOpFits

LEMMA DisconnectInv == Inv /\ Disconnect => Inv'
<1> SUFFICES ASSUME Inv, Disconnect PROVE Inv'
  OBVIOUS
<1>1. Link(RetireOrigin(Now))
  BY NowIsLinked, RetireOriginLink
<1>2. Fits([NoOp EXCEPT !.kind = "quit"], RetireOrigin(Now))
  BY DEF Fits, NoOp, Op, NoScope, Scope
<1> QED
  BY <1>1, <1>2, GotoInv DEF Disconnect

-----------------------------------------------------------------------------
(* The polls.                                                              *)

LEMMA PollQueuedInv == Inv /\ PollQueued => Inv'
<1> SUFFICES ASSUME Inv, PollQueued PROVE Inv'
  OBVIOUS
<1> DEFINE d == [cli EXCEPT !.pending = Tail(@)]
<1>1. cli' = d /\ wire' = wire /\ view' = view /\ op' = op /\ reqs' = reqs /\ Idle
      /\ out' = IF Head(cli.pending).scope = cli.scope
                  THEN Delivered(Head(cli.pending), Head(cli.pending).msg) ELSE Silent
  BY DEF PollQueued
<1>2. CliType(cli) /\ LinkTo(Now, WantedBy(cli)) /\ Now.c = cli /\ Now.w = wire
  BY NowIsLinked DEF Link
<1>3. /\ CliType(d) /\ d.active = cli.active /\ d.conn = cli.conn
      /\ d.poisoned = cli.poisoned /\ d.phase = cli.phase /\ d.caps = cli.caps
  BY <1>2 DEF CliType
<1> HIDE DEF d
<1>4. LinkTo([c |-> d, w |-> wire], WantedBy(cli))
  BY <1>2, <1>3, ClientChange
<1>5. Link(Now')
  BY <1>1, <1>3, <1>4 DEF Now, Link, WantedBy
<1>6. Operation'
  BY <1>1, IdleFits, NowIsLinked DEF Operation
<1>7. ReplyMatchesRequest'
  BY <1>1 DEF ReplyMatchesRequest, Silent, Delivered
<1> QED
  BY <1>5, <1>6, <1>7 DEF Inv

\* Losing the transport, or the frame, ends in no operation or in a reconnect.
LEMMA TransportLostInv ==
  ASSUME Inv, NEW k, Link(k), TransportLost(k)
  PROVE  Inv'
<1> DEFINE o == [NoOp EXCEPT !.kind = "reconnect", !.step = "connect", !.tries = 1, !.scope = view.scope]
<1>1. Goto(Closed(k), o) \/ Goto(k, NoOp)
  BY DEF TransportLost
<1>2. Link(Closed(k))
  BY ClosedLink DEF Link, LinkTo
<1>3. o \in Op /\ o.kind = "reconnect" /\ o.step = "connect"
  <2>1. view.scope \in Scope /\ NoOp \in Op /\ 1 \in 0..2
    BY NowIsLinked, NoOpType DEF View
  <2> QED
    BY <2>1 DEF Op
<1>4. Fits(o, Closed(k))
  BY <1>3, StartFits
<1> QED
  BY <1>1, <1>2, <1>4, GotoInv, NoOpFits

LEMMA PollReadsInv == Inv /\ PollReads => Inv'
<1> SUFFICES ASSUME Inv, PollReads PROVE Inv'
  OBVIOUS
<1> DEFINE k == Read(Now)
           m == Head(wire.s2c)
           d == [k.c EXCEPT !.conn = FALSE, !.pending = <<>>, !.phase = "Handshake", !.poisoned = FALSE]
           lost == [k EXCEPT !.c = [@ EXCEPT !.conn = FALSE, !.pending = <<>>,
                                             !.phase = "Handshake", !.poisoned = FALSE],
                             !.w = Gone]
<1>1. Idle /\ \/ Goto(lost, NoOp) \/ TransportLost(k) \/ Goto(k, NoOp)
              \/ /\ Becomes(k) /\ UNCHANGED <<view, op, reqs>>
                 /\ \E a \in OwnersOf(k, m.region) : out' = Delivered(a, m)
  BY DEF PollReads
<1>2. k = [c |-> k.c, w |-> k.w] /\ Link(k) /\ CliType(k.c)
  <2>1. LinkTo(k, WantedBy(cli)) /\ SameBut(k.c, cli) /\ k = [c |-> k.c, w |-> k.w]
    BY NowIsLinked, ReadLink DEF Link
  <2> QED
    BY <2>1 DEF SameBut, Link, WantedBy
<1> HIDE DEF k
<1>3. Link(lost)
  <2>1. CliType(d) /\ ~d.conn
    BY <1>2 DEF CliType, Phases
  <2>2. lost = [k EXCEPT !.c = d, !.w = Gone]
    OBVIOUS
  <2> HIDE DEF d
  <2>3. lost = [c |-> d, w |-> Gone]
    BY ZenonT(40), <1>2, <2>2, SetBoth
  <2> QED
    BY <2>1, <2>3, GoneLink DEF Link
<1> HIDE DEF lost
<1>4. CASE /\ Becomes(k) /\ UNCHANGED <<view, op, reqs>>
           /\ \E a \in OwnersOf(k, m.region) : out' = Delivered(a, m)
  <2>1. Link(Now')
    BY <1>2, <1>4, BecomesNow
  <2>2. Operation'
    BY <1>1, <1>4, IdleFits, NowIsLinked DEF Operation
  <2>3. ReplyMatchesRequest'
    BY <1>4 DEF ReplyMatchesRequest, Delivered
  <2> QED
    BY <2>1, <2>2, <2>3 DEF Inv
<1> QED
  BY <1>1, <1>2, <1>3, <1>4, GotoInv, NoOpFits, TransportLostInv

\* A cut in the server's queue concerns no property of the wire.
LEMMA PollTimesOutInv == Inv /\ PollTimesOut => Inv'
<1> SUFFICES ASSUME Inv, PollTimesOut PROVE Inv'
  OBVIOUS
<1> DEFINE v == [wire EXCEPT !.torn = @ \cup {"s2c"}]
           k == [Now EXCEPT !.w.torn = @ \cup {"s2c"}]
<1>1. Goto(k, NoOp) /\ cli.conn
  BY DEF PollTimesOut
<1>2. k = [c |-> cli, w |-> v]
  BY DEF Now
<1>3. /\ WireType(v) /\ v.up = wire.up /\ v.phase = wire.phase /\ v.subs = wire.subs
      /\ v.c2s = wire.c2s /\ v.s2c = wire.s2c /\ v.req = wire.req /\ v.reset = wire.reset
  BY NowIsLinked DEF Wire, WireType
<1> HIDE DEF v, k
<1>4. Link(k)
  <2>1. LinkTo(Now, WantedBy(cli)) /\ Now.c = cli /\ Now.w = wire
    BY NowIsLinked DEF Link
  <2>2. Pipe(v) /\ (Pipe(wire) => Pipe(v))
    BY <1>3, <2>1 DEF LinkTo, Pipe
  <2>3. /\ \A p : Tied(p, wire) => Tied(p, v)
        /\ SubsIn(wire, WantedBy(cli)) => SubsIn(v, WantedBy(cli))
        /\ NoSubs(wire) => NoSubs(v)
    BY <1>3 DEF Tied, Greeting, Quiet, Outstanding, SubsIn, NoSubs
  <2> QED
    BY <1>1, <1>2, <1>3, <2>1, <2>2, <2>3 DEF Link, LinkTo
<1> QED
  BY <1>1, <1>4, GotoInv, NoOpFits

-----------------------------------------------------------------------------
(* The blocking operations.                                                *)

LEMMA ReuseInv == Inv /\ Reuse => Inv'
<1> SUFFICES ASSUME Inv, Reuse PROVE Inv'
  OBVIOUS
<1> DEFINE o == [op EXCEPT !.step = "request"]
<1>1. Goto(Now, o) /\ op.step = "connect" /\ op \in Op /\ op.kind # "none"
  BY NowIsLinked DEF Reuse, Inv, Operation, Fits
<1>2. o \in Op /\ o.kind = op.kind /\ o.step = "request"
  BY <1>1 DEF Op
<1> QED
  BY <1>1, <1>2, StartFits, NowIsLinked, GotoInv

\* ensure_connected_to, before it dials.
LEMMA UndialledLink ==
  ASSUME Inv
  PROVE  /\ Link(Undialled) /\ Undialled = [c |-> Undialled.c, w |-> Gone]
         /\ CliType(Undialled.c) /\ ~Undialled.c.conn /\ ~Undialled.c.caps
         /\ ~Undialled.c.poisoned /\ Undialled.c.phase = "Handshake"
<1> DEFINE b == ClosedClient(cli)
           d == [b EXCEPT !.origin = "none", !.scope = NoScope, !.active = {}]
<1>1. Now = [c |-> cli, w |-> wire] /\ CliType(cli) /\ Link(Now)
  BY NowIsLinked
<1>2. Closed(Now) = [c |-> b, w |-> Gone] /\ CliType(b) /\ ~b.conn /\ Link(Closed(Now))
  BY <1>1, ClosedLink
<1>3. ~b.caps /\ ~b.poisoned /\ b.phase = "Handshake"
  BY <1>1 DEF ClosedClient, CliType
<1> HIDE DEF b
<1>4. /\ CliType(d) /\ ~d.conn /\ ~d.caps /\ ~d.poisoned /\ d.phase = "Handshake"
  BY <1>2, <1>3 DEF CliType, NoScope, Scope
<1>5. RetireOrigin(Now) = [c |-> d, w |-> Gone]
  <2>1. RetireOrigin(Now) = [Closed(Now) EXCEPT !.c = d]
    BY <1>2 DEF RetireOrigin
  <2> QED
    BY <1>2, <2>1, SetClient
<1> HIDE DEF d
<1>6. Link(RetireOrigin(Now))
  BY <1>1, RetireOriginLink
<1>7. Undialled = RetireOrigin(Now) \/ Undialled = Closed(Now)
  BY DEF Undialled
<1> QED
  BY <1>2, <1>3, <1>4, <1>5, <1>6, <1>7

LEMMA DialFailsInv == Inv /\ DialFails => Inv'
  BY UndialledLink, FailInv DEF DialFails

LEMMA DialSucceedsInv == Inv /\ DialSucceeds => Inv'
<1> SUFFICES ASSUME Inv, DialSucceeds PROVE Inv'
  OBVIOUS
<1> DEFINE u == Undialled
           m == Msg("Hello", 0)
           d == [u.c EXCEPT !.conn = TRUE, !.origin = op.scope.origin]
           k == [u EXCEPT !.c = [@ EXCEPT !.conn = TRUE, !.origin = op.scope.origin], !.w = Fresh]
           e == [d EXCEPT !.phase = "HandshakeReply"]
           v == [Fresh EXCEPT !.c2s = Append(@, m)]
           o == [op EXCEPT !.step = "hello"]
<1>1. Goto(Send(k, m), o) /\ op.step = "connect" /\ op \in Op /\ op.kind # "none"
      /\ op.scope.origin \in Origins \cup {"none"}
  BY NowIsLinked DEF DialSucceeds, MustDial, Inv, Operation, Fits, Op, Scope
<1>2. u = [c |-> u.c, w |-> Gone] /\ CliType(u.c) /\ ~u.c.caps /\ ~u.c.poisoned /\ u.c.phase = "Handshake"
  BY UndialledLink
<1> HIDE DEF u
<1>3. /\ CliType(d) /\ d.conn = TRUE /\ ~d.caps /\ ~d.poisoned /\ d.phase = "Handshake"
  BY <1>1, <1>2 DEF CliType
<1>4. k = [c |-> d, w |-> Fresh]
  <2>1. k = [u EXCEPT !.c = d, !.w = Fresh]
    OBVIOUS
  <2> HIDE DEF d
  <2>2. [u EXCEPT !.c = d, !.w = Fresh] = [c |-> d, w |-> Fresh]
    BY ZenonT(40), <1>2, SetBoth
  <2> HIDE DEF k
  <2> QED
    BY <2>1, <2>2
<1> HIDE DEF d, k
<1>5. m \in Message /\ m.type = "Hello"
  BY DEF Msg, Message, ClientOut
<1> HIDE DEF m
<1>6. ClientNext("Handshake", "send", "Hello") = "HandshakeReply"
  BY DEF ClientNext
<1>7. SendResult(k, m) = "ok"
  BY <1>3, <1>4, <1>5, <1>6 DEF SendResult, ClientTakes, Negotiated, Fresh
<1>8. Send(k, m) = [c |-> e, w |-> v]
  <2>1. Send(k, m) = [[k EXCEPT !.c.phase = "HandshakeReply"] EXCEPT !.w.c2s = Append(@, m)]
    BY <1>3, <1>4, <1>5, <1>6, <1>7 DEF Send, Fresh
  <2>2. [k EXCEPT !.c.phase = "HandshakeReply"] = [c |-> e, w |-> Fresh]
    BY <1>4
  <2> QED
    BY <2>1, <2>2
<1>9. /\ WireType(v) /\ v.up /\ ~v.reset /\ v.phase = "Handshake" /\ v.s2c = <<>> /\ v.subs = <<>>
      /\ Len(v.c2s) = 1 /\ v.c2s[1] = m /\ DOMAIN v.c2s = {1}
  <2>1. /\ Append(<<>>, m) \in Seq(Message) /\ Len(Append(<<>>, m)) = 1 /\ Append(<<>>, m)[1] = m
        /\ DOMAIN Append(<<>>, m) = {1} /\ <<>> \in Seq(Message)
    BY <1>5, EmptySeq, AppendAt
  <2>2. Msg("none", 0) \in Message
    BY DEF Msg, Message
  <2> QED
    BY <2>1, <2>2 DEF Fresh, WireType, Phases
<1>10. CliType(e) /\ e.phase = "HandshakeReply" /\ e.conn = TRUE /\ ~e.caps
  BY <1>3 DEF CliType, Phases
<1> HIDE DEF e, v
<1>11. Pipe(v) /\ Tied("HandshakeReply", v) /\ NoSubs(v) /\ \A W : SubsIn(v, W)
  BY <1>5, <1>9 DEF Pipe, Tied, Greeting, NoSubs, Has, SubsIn, Latest, Only
<1>12. Link([c |-> e, w |-> v])
  BY <1>9, <1>10, <1>11 DEF Link, LinkTo
<1>13. o \in Op /\ o.kind = op.kind /\ o.step = "hello"
  BY <1>1 DEF Op
<1> QED
  BY <1>1, <1>8, <1>12, <1>13, StartFits, GotoInv

\* A blocked operation has a kind.
LEMMA BlockedOp ==
  ASSUME Inv, op.step # "none"
  PROVE  op.kind # "none" /\ op \in Op
  BY DEF Inv, Operation, Fits

LEMMA HelloReadsInv == Inv /\ HelloReads => Inv'
<1> SUFFICES ASSUME Inv, HelloReads PROVE Inv'
  OBVIOUS
<1> DEFINE k == Read(Now)
           d == [k.c EXCEPT !.caps = TRUE]
           g == [k EXCEPT !.c.caps = TRUE]
<1>1. \/ \E why : Fail(k, why)
      \/ Replay(g)
  BY DEF HelloReads
<1>2. LinkTo(Now, WantedBy(cli)) /\ Now.c = cli
  BY NowIsLinked DEF Link
<1>3. k = [c |-> k.c, w |-> k.w] /\ LinkTo(k, WantedBy(cli)) /\ SameBut(k.c, cli)
  BY <1>2, ReadLink
<1>4. g = [c |-> d, w |-> k.w]
  <2>1. g = [k EXCEPT !.c = d]
    OBVIOUS
  <2> HIDE DEF k
  <2>2. [k EXCEPT !.c = d] = [c |-> d, w |-> k.w]
    BY <1>3, SetClient
  <2> HIDE DEF d, g
  <2> QED
    BY <2>1, <2>2
<1>5. op.kind # "none" /\ op \in Op
  BY BlockedOp DEF HelloReads
<1> HIDE DEF k, g
<1>6. /\ CliType(d) /\ d.conn = k.c.conn /\ d.poisoned = k.c.poisoned /\ d.phase = k.c.phase
      /\ d.active = k.c.active /\ d.scope = k.c.scope /\ d.caps = TRUE
  BY <1>3 DEF CliType, SameBut
<1> HIDE DEF d
<1>7. Link(k)
  BY <1>3 DEF Link, SameBut, WantedBy
<1>8. Link(g)
  <2>1. LinkTo([c |-> d, w |-> k.w], WantedBy(k.c))
    BY <1>6, <1>7, ClientChange DEF Link
  <2> QED
    BY <1>4, <1>6, <2>1 DEF Link, WantedBy
<1>9. CASE \E why : Fail(k, why)
  BY <1>7, <1>9, FailInv
<1>10. CASE Replay(g)
  <2> DEFINE R == {a.region : a \in Owned(g, g.c.scope)}
             o == [op EXCEPT !.step = "replay", !.todo = R]
  <2>1. Goto(g, o)
    BY <1>10 DEF Replay
  <2>2. g.c = d
    BY <1>4
  <2>3. R \in SUBSET Regions /\ \A r \in R : \E a \in g.c.active : a.region = r
    BY <1>6, <2>2 DEF Owned, CliType
  <2> HIDE DEF R
  <2>4. o \in Op /\ o.kind = op.kind /\ o.step = "replay" /\ o.todo = R
    BY <1>5, <2>3 DEF Op
  <2>5. Fits(o, g)
    BY <1>5, <1>6, <2>2, <2>3, <2>4 DEF Fits
  <2> QED
    BY <1>8, <2>1, <2>5, GotoInv
<1> QED
  BY <1>1, <1>9, <1>10

\* SUBSCRIBE of an active region, for the client's page.
LEMMA SubscribeLink ==
  ASSUME NEW k, NEW W, LinkTo(k, W), NEW r \in Regions, NEW g \in Nat,
         k.c.caps, <<r, g>> \in W
  PROVE  LET m == RegionMsg("Subscribe", r, g)
         IN  Sent(k, m, Send(k, m)) /\ LinkTo(Send(k, m), W)
<1> DEFINE m == RegionMsg("Subscribe", r, g)
<1>1. m \in Message /\ m.type = "Subscribe" /\ m.region = r /\ m.id = g /\ m.type \in Req \cup Ask
  BY DEF RegionMsg, Message, ClientOut, Ask
<1> HIDE DEF m
<1> QED
  BY <1>1, SendLink DEF m

LEMMA ReplayOneInv == Inv /\ ReplayOne => Inv'
<1> SUFFICES ASSUME Inv, ReplayOne PROVE Inv'
  OBVIOUS
<1>1. op.step = "replay" /\ op.kind # "none" /\ op \in Op
  BY BlockedOp DEF ReplayOne
<1>2. cli.caps /\ \A r \in op.todo : \E a \in cli.active : a.region = r
  BY <1>1 DEF Inv, Operation, Fits, Now
<1>3. LinkTo(Now, WantedBy(cli)) /\ Now.c = cli /\ CliType(cli) /\ Link(Now)
  BY NowIsLinked DEF Link
<1>4. CASE op.todo = {} /\ IF op.kind = "reconnect" THEN Finish(Now, TRUE, Silent)
                           ELSE Goto(Now, [op EXCEPT !.step = "request"])
  <2>1. CASE op.kind = "reconnect"
    BY <1>3, <1>4, <2>1, FinishInv DEF Silent
  <2>2. CASE op.kind # "reconnect"
    <3> DEFINE o == [op EXCEPT !.step = "request"]
    <3>1. o \in Op /\ o.kind = op.kind /\ o.step = "request"
      BY <1>1 DEF Op
    <3> QED
      BY <1>1, <1>3, <1>4, <2>2, <3>1, StartFits, GotoInv
  <2> QED
    BY <2>1, <2>2
<1>5. CASE \E r \in op.todo :
             LET m == RegionMsg("Subscribe", r, cli.scope.gen)
             IN  IF SendResult(Now, m) = "ok"
                   THEN Goto(Send(Now, m), [op EXCEPT !.todo = @ \ {r}])
                   ELSE Fail(Send(Now, m), SendResult(Now, m))
  <2> PICK r \in op.todo :
             LET m == RegionMsg("Subscribe", r, cli.scope.gen)
             IN  IF SendResult(Now, m) = "ok"
                   THEN Goto(Send(Now, m), [op EXCEPT !.todo = @ \ {r}])
                   ELSE Fail(Send(Now, m), SendResult(Now, m))
    BY <1>5
  <2> DEFINE m == RegionMsg("Subscribe", r, cli.scope.gen)
             k == Send(Now, m)
             o == [op EXCEPT !.todo = @ \ {r}]
  <2>1. Goto(k, o) \/ \E why : Fail(k, why)
    OBVIOUS
  <2>2. r \in Regions /\ cli.scope.gen \in Nat
    BY <1>1, <1>3 DEF Op, CliType, Scope
  <2>3. <<r, cli.scope.gen>> \in WantedBy(cli)
    <3>1. PICK a \in cli.active : a.region = r
      BY <1>2
    <3>2. a.scope = cli.scope
      BY <1>3 DEF CliType
    <3> QED
      BY <3>1, <3>2 DEF WantedBy
  <2>4. Sent(Now, m, k) /\ LinkTo(k, WantedBy(cli))
    BY <1>2, <1>3, <2>2, <2>3, SubscribeLink
  <2> HIDE DEF m, k
  <2>5. Link(k) /\ k.c.caps /\ k.c.active = cli.active
    BY <1>2, <1>3, <2>4 DEF Sent, SameBut, Link, WantedBy
  <2>6. o \in Op /\ o.kind = op.kind /\ o.step = "replay" /\ o.todo \subseteq op.todo
    BY <1>1 DEF Op
  <2> HIDE DEF o
  <2>7. Fits(o, k)
    BY <1>1, <1>2, <2>5, <2>6 DEF Fits
  <2> QED
    BY <2>1, <2>5, <2>7, GotoInv, FailInv
<1> QED
  BY <1>4, <1>5 DEF ReplayOne

\* A request that was sent is the only one the wire carries, now or as a reply.
LEMMA RequestAwaits ==
  ASSUME NEW k, NEW W, LinkTo(k, W), NEW m \in Message, m.type \in Req, NEW r,
         Sent(k, m, r), SendResult(k, m) = "ok", m.id \in Nat
  PROVE  Alive(r.c) /\ r.c.phase = "ResponsePending" /\ Awaits(r.w, m.id)
<1> DEFINE n == m.id
<1>1. /\ Alive(k.c) /\ Alive(r.c)
      /\ ClientNext(k.c.phase, "send", m.type) # "illegal"
      /\ r.c.phase = ClientNext(k.c.phase, "send", m.type)
      /\ \/ ~k.w.up /\ r.w = k.w
         \/ /\ k.w.up /\ Added(r.w.c2s, k.w.c2s, m)
            /\ r.w.up /\ r.w.phase = k.w.phase /\ r.w.s2c = k.w.s2c /\ r.w.req = k.w.req
  BY DEF Sent, Alive
<1>2. k.c.phase = "Ready" /\ r.c.phase = "ResponsePending"
  BY <1>1, ClientRows
<1>3. Quiet(k.w) /\ Pipe(k.w) /\ k.w.c2s \in Seq(Message)
  BY <1>1, <1>2 DEF LinkTo, Tied, WireType
<1>4. Carry(k.w.s2c, Replies, n)
  BY <1>3 DEF Quiet, Only, Carry, Unasked, Replies
<1>5. CASE ~k.w.up /\ r.w = k.w
  BY <1>1, <1>2, <1>3, <1>4, <1>5 DEF Awaits, Carry, Pipe
<1>6. CASE k.w.up /\ Added(r.w.c2s, k.w.c2s, m)
           /\ r.w.up /\ r.w.phase = k.w.phase /\ r.w.s2c = k.w.s2c /\ r.w.req = k.w.req
  <2>1. Carry(k.w.c2s, Req, n) /\ k.w.phase = "Ready"
    BY <1>3, <1>6 DEF Quiet, Only, Carry, Ask, Req
  <2>2. Grown(r.w.c2s, k.w.c2s, m)
    BY <1>3, <1>6, AppendKeeps
  <2>3. Carry(r.w.c2s, Req, n)
    BY <2>1, <2>2 DEF Grown
  <2> QED
    BY <1>1, <1>2, <1>4, <1>6, <2>1, <2>3 DEF Awaits
<1> QED
  BY <1>1, <1>5, <1>6

LEMMA SendRequestInv == Inv /\ SendRequest => Inv'
<1> SUFFICES ASSUME Inv, SendRequest PROVE Inv'
  OBVIOUS
<1> DEFINE m == Msg(IF op.kind = "submit" THEN "Input" ELSE "Get", op.id)
           k == Send(Now, m)
           o == [op EXCEPT !.step = "wait"]
<1>1. op.step = "request" /\ op.kind # "none" /\ op \in Op /\ op.id \in Nat
  BY BlockedOp DEF SendRequest, Op
<1>2. LinkTo(Now, WantedBy(cli)) /\ Now.c = cli /\ Link(Now)
  BY NowIsLinked DEF Link
<1>3. m \in Message /\ m.type \in Req /\ m.id = op.id
  BY <1>1 DEF Msg, Message, ClientOut, Req
<1>4. \/ \E why : Fail(Now, why)
      \/ Finish(Now, TRUE, Silent)
      \/ SendResult(Now, m) = "ok" /\ Goto(k, o)
      \/ \E why : Fail(k, why)
  BY DEF SendRequest
<1> HIDE DEF m
<1>5. Sent(Now, m, k) /\ LinkTo(k, WantedBy(cli))
  BY <1>2, <1>3, SendLink DEF Req
<1> HIDE DEF k
<1>6. Link(k)
  BY <1>2, <1>5 DEF Sent, SameBut, Link, WantedBy
<1>7. CASE SendResult(Now, m) = "ok" /\ Goto(k, o)
  <2>1. Alive(k.c) /\ k.c.phase = "ResponsePending" /\ Awaits(k.w, op.id)
    BY <1>1, <1>2, <1>3, <1>5, <1>7, RequestAwaits
  <2>2. o \in Op /\ o.kind = op.kind /\ o.step = "wait" /\ o.id = op.id
    BY <1>1 DEF Op
  <2> HIDE DEF o
  <2>3. Fits(o, k)
    BY <1>1, <2>1, <2>2 DEF Fits
  <2> QED
    BY <1>6, <1>7, <2>3, GotoInv
<1> QED
  BY <1>2, <1>4, <1>6, <1>7, FinishInv, FailInv DEF Silent

LEMMA TimesOutInv == Inv /\ TimesOut => Inv'
  BY NowIsLinked, FailInv DEF TimesOut

\* A frame that leaves the request outstanding.
LEMMA StillAwaits ==
  ASSUME NEW k, NEW W, LinkTo(k, W), ReadResult(k) = "frame", k.c.phase = "ResponsePending",
         Head(k.w.s2c).type \in {"Update", "Pong"}, NEW n, Awaits(k.w, n)
  PROVE  LET r == Read(k) IN Alive(r.c) /\ r.c.phase = "ResponsePending" /\ Awaits(r.w, n)
<1> DEFINE m == Head(k.w.s2c)
           r == Read(k)
<1>1. /\ Alive(r.c) /\ m.type \in ServerOut /\ k.w.s2c # <<>> /\ k.w.s2c \in Seq(Message)
      /\ ClientNext(k.c.phase, "receive", m.type) # "illegal"
      /\ r.c.phase = ClientNext(k.c.phase, "receive", m.type)
      /\ r.w.c2s = k.w.c2s /\ r.w.up = k.w.up /\ r.w.phase = k.w.phase
      /\ r.w.req = k.w.req /\ r.w.s2c = Tail(k.w.s2c)
  BY ReadLink
<1> HIDE DEF r
<1>2. r.c.phase = "ResponsePending"
  BY <1>1, ClientReads DEF Phases, Replies
<1>3. Carry(r.w.s2c, Replies, n)
  BY <1>1, TailKeeps DEF Awaits
<1> QED
  BY <1>1, <1>2, <1>3 DEF Awaits, r

LEMMA ReplyReadsInv == Inv /\ ReplyReads => Inv'
<1> SUFFICES ASSUME Inv, ReplyReads PROVE Inv'
  OBVIOUS
<1> DEFINE k == Read(Now)
           m == Head(wire.s2c)
           ok == m.type \in Expected(op.kind)
           Queued(a) == [k EXCEPT !.c.pending = Append(@, [scope |-> a.scope, msg |-> m])]
<1>1. \/ \E why : Fail(k, why)
      \/ /\ ReadResult(Now) = "frame"
         /\ \/ /\ m.type = "Update"
               /\ \E a \in OwnersOf(k, m.region) : Goto(Queued(a), op)
            \/ m.type = "Pong" /\ Goto(k, op)
            \/ /\ m.type \notin {"Update", "Pong", "ServerBye"}
               /\ Finish(k, ok, Replied(m))
  BY DEF ReplyReads
<1>2. LinkTo(Now, WantedBy(cli)) /\ Now.c = cli /\ Now.w = wire /\ Link(Now)
  BY NowIsLinked DEF Link
<1>3. /\ op.step = "wait" /\ op.kind # "none" /\ op \in Op
      /\ Alive(cli) /\ cli.phase = "ResponsePending" /\ Awaits(wire, op.id)
  BY <1>2, BlockedOp DEF ReplyReads, Inv, Operation, Fits
<1>4. k = [c |-> k.c, w |-> k.w] /\ LinkTo(k, WantedBy(cli)) /\ SameBut(k.c, cli)
  BY <1>2, ReadLink
<1>5. Link(k)
  BY <1>4 DEF Link, SameBut, WantedBy
<1>6. ASSUME ReadResult(Now) = "frame"
      PROVE  /\ m \in Message /\ m.type \in ServerOut /\ wire.s2c \in Seq(Message) /\ wire.s2c # <<>>
             /\ ClientNext("ResponsePending", "receive", m.type) # "illegal"
             /\ m.type \in {"Update", "Pong"} =>
                  Alive(k.c) /\ k.c.phase = "ResponsePending" /\ Awaits(k.w, op.id)
  BY <1>2, <1>3, <1>6, ReadLink, StillAwaits
<1> HIDE DEF k, m
<1>7. CASE \E why : Fail(k, why)
  BY <1>5, <1>7, FailInv
<1>8. CASE ReadResult(Now) = "frame" /\ m.type = "Update"
           /\ \E a \in OwnersOf(k, m.region) : Goto(Queued(a), op)
  <2> PICK a \in OwnersOf(k, m.region) : Goto(Queued(a), op)
    BY <1>8
  <2> DEFINE q == Append(k.c.pending, [scope |-> a.scope, msg |-> m])
             d == [k.c EXCEPT !.pending = q]
             g == Queued(a)
  <2>1. g = [c |-> d, w |-> k.w]
    <3>1. g = [k EXCEPT !.c = d]
      OBVIOUS
    <3> HIDE DEF d, g
    <3>2. [k EXCEPT !.c = d] = [c |-> d, w |-> k.w]
      BY <1>4, SetClient
    <3> QED
      BY <3>1, <3>2
  <2>2. Goto(g, op)
    OBVIOUS
  <2> HIDE DEF q, g
  <2>3. /\ CliType(d) /\ d.conn = k.c.conn /\ d.poisoned = k.c.poisoned /\ d.phase = k.c.phase
        /\ d.active = k.c.active /\ d.caps = k.c.caps
    BY <1>4 DEF CliType, SameBut
  <2> HIDE DEF d
  <2>4. Link(g)
    <3>1. LinkTo([c |-> d, w |-> k.w], WantedBy(k.c))
      BY <1>5, <2>3, ClientChange DEF Link
    <3> QED
      BY <2>1, <2>3, <3>1 DEF Link, WantedBy
  <2>5. Fits(op, g)
    BY <1>3, <1>6, <1>8, <2>1, <2>3 DEF Fits, Alive
  <2> QED
    BY <2>2, <2>4, <2>5, GotoInv
<1>9. CASE ReadResult(Now) = "frame" /\ m.type = "Pong" /\ Goto(k, op)
  <2>1. Fits(op, k)
    BY <1>3, <1>6, <1>9 DEF Fits
  <2> QED
    BY <1>5, <1>9, <2>1, GotoInv
<1>10. CASE ReadResult(Now) = "frame" /\ m.type \notin {"Update", "Pong", "ServerBye"}
            /\ Finish(k, ok, Replied(m))
  <2>1. m.type \in Replies
    BY <1>6, <1>10, ClientReads DEF Phases
  <2>2. m = wire.s2c[1] /\ 1 \in DOMAIN wire.s2c
    BY <1>6, <1>10, TailAt DEF m
  <2>3. m.id = op.id
    BY <1>3, <2>1, <2>2 DEF Awaits, Carry
  <2>4. Replied(m).got = Replied(m).want /\ ok \in BOOLEAN
    BY <2>3 DEF Replied
  <2> HIDE DEF ok
  <2> QED
    BY <1>5, <1>10, <2>4, FinishInv
<1> QED
  BY <1>1, <1>7, <1>8, <1>9, <1>10

\* A region of the page is subscribed to, and only then active.
LEMMA SubscribeOneInv == Inv /\ SubscribeOne => Inv'
<1> SUFFICES ASSUME Inv, SubscribeOne PROVE Inv'
  OBVIOUS
<1>1. op.step = "subscribe" /\ op.kind # "none" /\ op \in Op
  BY BlockedOp DEF SubscribeOne
<1>2. LinkTo(Now, WantedBy(cli)) /\ Now.c = cli /\ Now.w = wire /\ CliType(cli) /\ Link(Now)
      /\ view.scope \in Scope
  BY NowIsLinked DEF Link, View
<1> DEFINE m(r) == RegionMsg("Subscribe", r, view.scope.gen)
           owns == cli.caps /\ cli.scope = view.scope
           sent(r) == owns /\ SendResult(Now, m(r)) = "ok"
           k(r) == IF owns THEN Send(Now, m(r)) ELSE Now
           more(r) == [k(r) EXCEPT !.c.active = @ \cup {[region |-> r, scope |-> view.scope]}]
           o(r) == [op EXCEPT !.todo = @ \ {r}]
<1>3. CASE op.todo = {} /\ Goto(Now, NoOp)
  BY <1>2, <1>3, GotoInv, NoOpFits
<1>4. CASE \E r \in op.todo : Goto(IF sent(r) THEN more(r) ELSE k(r), o(r))
  <2> PICK r \in op.todo : Goto(IF sent(r) THEN more(r) ELSE k(r), o(r))
    BY <1>4
  <2> DEFINE g == view.scope.gen
             V == WantedBy(cli) \cup {<<r, g>>}
  <2>1. r \in Regions /\ g \in Nat
    BY <1>1, <1>2 DEF Op, Scope
  <2>2. \A j : Fits(o(r), j)
    <3>1. o(r) \in Op /\ o(r).kind = op.kind /\ o(r).step = "subscribe"
      BY <1>1 DEF Op
    <3> QED
      BY <1>1, <3>1, StartFits
  <2> HIDE DEF o
  <2>3. CASE ~owns
    <3>1. Goto(Now, o(r))
      BY <2>3
    <3> QED
      BY <1>2, <2>2, <3>1, GotoInv
  <2>4. CASE owns
    <3> DEFINE j == Send(Now, m(r))
               d == [j.c EXCEPT !.active = @ \cup {[region |-> r, scope |-> view.scope]}]
               h == [j EXCEPT !.c = d]
    <3>1. IF SendResult(Now, m(r)) = "ok" THEN Goto(h, o(r)) ELSE Goto(j, o(r))
      BY <2>4
    <3>2. LinkTo(Now, V) /\ <<r, g>> \in V
      BY <1>2, WantMore
    <3>3. Sent(Now, m(r), j) /\ LinkTo(j, V)
      BY <1>2, <2>1, <2>4, <3>2, SubscribeLink
    <3>4. h = [c |-> d, w |-> j.w]
      <4> HIDE DEF j, d
      <4> QED
        BY <3>3, SetClient DEF LinkTo
    <3> HIDE DEF m, j, h
    <3>5. CASE SendResult(Now, m(r)) = "ok"
      <4>1. SameBut(j.c, cli)
        BY <1>2, <3>3 DEF Sent
      <4>2. /\ CliType(d) /\ d.conn = j.c.conn /\ d.poisoned = j.c.poisoned
            /\ d.phase = j.c.phase /\ d.caps = j.c.caps
            /\ d.active = cli.active \cup {[region |-> r, scope |-> view.scope]}
        <5> DEFINE a == [region |-> r, scope |-> view.scope]
                   A == j.c.active \cup {a}
        <5>1. /\ CliType(j.c) /\ j.c.active = cli.active /\ j.c.scope = cli.scope
              /\ cli.scope = view.scope
          BY <2>4, <4>1 DEF SameBut
        <5>2. A \in SUBSET [region : Regions, scope : Scope] /\ \A b \in A : b.scope = j.c.scope
          BY <1>2, <2>1, <5>1 DEF CliType
        <5>3. d = [j.c EXCEPT !.active = A]
          OBVIOUS
        <5> HIDE DEF A, d
        <5>4. CliType([j.c EXCEPT !.active = A]) /\ [j.c EXCEPT !.active = A].active = A
          BY <5>1, <5>2 DEF CliType
        <5>5. LET e == [j.c EXCEPT !.active = A]
              IN  /\ e.conn = j.c.conn /\ e.poisoned = j.c.poisoned
                  /\ e.phase = j.c.phase /\ e.caps = j.c.caps
          BY <5>1 DEF CliType
        <5> QED
          BY <5>1, <5>3, <5>4, <5>5 DEF A
      <4> HIDE DEF d
      <4>3. WantedBy(d) = V
        <5> DEFINE a == [region |-> r, scope |-> view.scope]
        <5>1. a.region = r /\ a.scope.gen = g
          OBVIOUS
        <5> HIDE DEF a, g
        <5>2. d.active = cli.active \cup {a}
          BY <4>2 DEF a
        <5> QED
          BY <5>1, <5>2 DEF WantedBy
      <4> HIDE DEF V
      <4>4. LinkTo([c |-> d, w |-> j.w], V)
        BY <3>3, <4>2, ClientChange
      <4>5. Link(h)
        BY <3>4, <4>3, <4>4 DEF Link
      <4> QED
        BY <2>2, <3>1, <3>5, <4>5, GotoInv
    <3>6. CASE SendResult(Now, m(r)) # "ok"
      <4>1. ~Alive(j.c)
        BY <1>2, <3>3, <3>6 DEF Sent, SameBut, Alive
      <4>2. Link(j)
        BY <3>3, <4>1 DEF Link, LinkTo
      <4> QED
        BY <2>2, <3>1, <3>6, <4>2, GotoInv
    <3> QED
      BY <3>5, <3>6
  <2> QED
    BY <2>3, <2>4
<1> QED
  BY <1>3, <1>4 DEF SubscribeOne

-----------------------------------------------------------------------------
(* The invariant of the specification, and what follows.                   *)

LEMMA InitInv == Init => Inv
<1> SUFFICES ASSUME Init PROVE Inv
  OBVIOUS
<1>1. CliType(cli) /\ ~cli.conn
  BY DEF Init, CliType, Phases, NoScope, Scope
<1>2. Link(Now)
  BY <1>1, GoneLink DEF Init, Link, Now
<1>3. Operation
  BY NoOpFits DEF Init, Operation, View, NoScope, Scope
<1>4. ReplyMatchesRequest
  BY DEF Init, ReplyMatchesRequest, Silent
<1> QED
  BY <1>2, <1>3, <1>4 DEF Inv

LEMMA NextInv == Inv /\ [Next]_vars => Inv'
<1> SUFFICES ASSUME Inv, [Next]_vars PROVE Inv'
  OBVIOUS
<1>1. CASE Starts
  BY <1>1, NavigateInv, ActivateCachedHistoryInv, FetchResourceInv, SendPingInv, DisconnectInv,
     ResubscribeLiveInv DEF Starts
<1>2. CASE Polls
  BY <1>2, PollQueuedInv, PollReadsInv, PollTimesOutInv DEF Polls
<1>3. CASE Blocked
  BY <1>3, ReuseInv, DialFailsInv, DialSucceedsInv, HelloReadsInv, ReplayOneInv, SendRequestInv,
     ReplyReadsInv, TimesOutInv, SubscribeOneInv DEF Blocked
<1>4. CASE Server
  BY <1>4, ServerStepInv
<1>5. CASE UNCHANGED vars
  <2>1. Now' = Now
    BY <1>5 DEF vars, Now
  <2> QED
    BY <1>5, <2>1 DEF vars, Inv, Operation, ReplyMatchesRequest
<1> QED
  BY <1>1, <1>2, <1>3, <1>4, <1>5 DEF Next

\* Frames of a type, counted.
LEMMA Counts ==
  ASSUME NEW q \in Seq(Message), NEW T
  PROVE  /\ ~Has(q, T) => CountOf(q, T) = 0
         /\ Has(q, T) => CountOf(q, T) \in Nat \ {0}
         /\ Has(q, T) /\ AtMostOne(q, T) => CountOf(q, T) = 1
<1> DEFINE S == {i \in DOMAIN q : q[i].type \in T}
<1>1. DOMAIN q = 1..Len(q) /\ Len(q) \in Nat
  BY LenProperties
<1>2. IsFiniteSet(DOMAIN q)
  BY <1>1, FS_Interval
<1>3. IsFiniteSet(S) /\ Cardinality(S) \in Nat
  BY <1>2, FS_Subset, FS_CardinalityType
<1>4. CountOf(q, T) = Cardinality(S)
  BY DEF CountOf
<1>5. ~Has(q, T) => S = {}
  BY DEF Has
<1>6. Has(q, T) => S # {}
  BY DEF Has
<1>7. ASSUME Has(q, T), AtMostOne(q, T) PROVE \E i : S = {i}
  <2>1. PICK i \in DOMAIN q : q[i].type \in T
    BY <1>7 DEF Has
  <2>2. \A j \in S : j = i
    BY <1>7, <2>1 DEF AtMostOne
  <2> QED
    BY <2>1, <2>2
<1> HIDE DEF S
<1>8. S = {} <=> Cardinality(S) = 0
  BY <1>3, FS_EmptySet
<1>9. (\E i : S = {i}) => Cardinality(S) = 1
  BY FS_Singleton
<1> QED
  BY <1>3, <1>4, <1>5, <1>6, <1>7, <1>8, <1>9

LEMMA InvOneOutstanding == Inv => OneOutstanding
<1> SUFFICES ASSUME Inv, cli.conn, ~cli.poisoned, wire.up
             PROVE  CountOf(wire.c2s, Req) + CountOf(wire.s2c, Replies)
                      + (IF wire.phase = "ResponsePending" THEN 1 ELSE 0)
                    = (IF cli.phase = "ResponsePending" THEN 1 ELSE 0)
  BY DEF OneOutstanding, Req
<1>1. /\ Tied(cli.phase, wire) /\ Pipe(wire) /\ cli.phase \in Phases
      /\ wire.c2s \in Seq(Message) /\ wire.s2c \in Seq(Message)
  BY NowIsLinked DEF Link, LinkTo, Alive, CliType, Wire, WireType
<1>2. CASE cli.phase # "ResponsePending"
  <2>1. ~Has(wire.c2s, Req) /\ ~Has(wire.s2c, Replies) /\ wire.phase # "ResponsePending"
    <3>1. CASE cli.phase = "HandshakeReply"
      BY <1>1, <3>1 DEF Tied, Greeting, Pipe, Has, Req, Replies
    <3>2. CASE cli.phase = "Ready"
      BY <1>1, <3>2 DEF Tied, Quiet, Only, Has, Req, Ask, Unasked, Replies
    <3> QED
      BY <1>1, <1>2, <3>1, <3>2 DEF Tied, Phases
  <2> QED
    BY <1>1, <1>2, <2>1, Counts
<1>3. CASE cli.phase = "ResponsePending"
  <2>1. Outstanding(wire)
    BY <1>1, <1>3 DEF Tied
  <2>2. CASE wire.phase = "ResponsePending"
    <3>1. CountOf(wire.c2s, Req) = 0 /\ CountOf(wire.s2c, Replies) = 0
      BY <1>1, <2>1, <2>2, Counts DEF Outstanding
    <3> QED
      BY <1>3, <2>2, <3>1
  <2>3. CASE wire.phase # "ResponsePending" /\ Has(wire.c2s, Req)
    <3>1. CountOf(wire.c2s, Req) = 1 /\ CountOf(wire.s2c, Replies) = 0
      BY <1>1, <2>1, <2>3, Counts DEF Outstanding
    <3> QED
      BY <1>3, <2>3, <3>1
  <2>4. CASE wire.phase # "ResponsePending" /\ ~Has(wire.c2s, Req)
    <3>1. CountOf(wire.c2s, Req) = 0 /\ CountOf(wire.s2c, Replies) = 1
      BY <1>1, <2>1, <2>4, Counts DEF Outstanding
    <3> QED
      BY <1>3, <2>4, <3>1
  <2> QED
    BY <2>2, <2>3, <2>4
<1> QED
  BY <1>2, <1>3

LEMMA InvNoProtocolViolation == Inv => NoProtocolViolation
<1> SUFFICES ASSUME Inv PROVE NoProtocolViolation
  OBVIOUS
<1>1. /\ Alive(cli) => Tied(cli.phase, wire)
      /\ Pipe(wire) /\ cli.phase \in Phases
      /\ wire.c2s \in Seq(Message) /\ wire.s2c \in Seq(Message)
  BY NowIsLinked DEF Link, LinkTo, CliType, Wire, WireType
<1>2. ASSUME Alive(cli), wire.s2c # <<>>
      PROVE  ClientTakes(cli.phase, "receive", Head(wire.s2c).type)
  <2> DEFINE t == Head(wire.s2c).type
  <2>1. 1 \in DOMAIN wire.s2c /\ Head(wire.s2c) = wire.s2c[1]
    BY <1>1, <1>2, TailAt
  <2> HIDE DEF t
  <2>2. CASE cli.phase = "HandshakeReply"
    <3>1. t = "Welcome"
      BY <1>1, <1>2, <2>1, <2>2 DEF Tied, Greeting, t
    <3> QED
      BY <2>2, <3>1 DEF ClientTakes, Negotiated, ClientNext, t
  <2>3. CASE cli.phase = "Ready"
    <3>1. t \in Unasked
      BY <1>1, <1>2, <2>1, <2>3 DEF Tied, Quiet, Only, t
    <3> QED
      BY <2>3, <3>1 DEF ClientTakes, Negotiated, ClientNext, Unasked, t
  <2>4. CASE cli.phase = "ResponsePending"
    <3>1. t \in Unasked \cup Replies
      BY <1>1, <1>2, <2>1, <2>4 DEF Tied, Outstanding, Only, t
    <3> QED
      BY <2>4, <3>1 DEF ClientTakes, Negotiated, ClientNext, Unasked, Replies, t
  <2> QED
    BY <1>1, <1>2, <2>2, <2>3, <2>4 DEF Tied, Phases, t
<1>3. ASSUME wire.up, wire.phase # "ResponsePending", wire.c2s # <<>>
      PROVE  ServerTakes(wire.phase, "receive", Head(wire.c2s).type)
  <2> DEFINE t == Head(wire.c2s).type
  <2>1. 1 \in DOMAIN wire.c2s /\ Head(wire.c2s) = wire.c2s[1]
    BY <1>1, <1>3, TailAt
  <2> HIDE DEF t
  <2>2. \/ wire.phase = "Handshake" /\ t = "Hello"
        \/ wire.phase = "Ready" /\ t \in Req \cup Ask
    BY <1>1, <1>3, <2>1 DEF Pipe, Only, t
  <2> QED
    BY <2>2 DEF ServerTakes, Negotiated, ServerNext, Req, Ask, t
<1> QED
  BY <1>2, <1>3 DEF NoProtocolViolation, Alive

LEMMA InvNoLeakedSubscription == Inv => NoLeakedSubscription
<1> SUFFICES ASSUME Inv, cli.conn, ~cli.poisoned, wire.up PROVE Subscribed \subseteq Wanted
  BY DEF NoLeakedSubscription
<1>1. SubsIn(wire, Wanted) /\ wire.c2s \in Seq(Message)
  BY NowIsLinked DEF Link, LinkTo, Alive, Wire, WireType, Wanted, WantedBy
<1>2. \A i \in Unread : <<wire.c2s[i].region, wire.c2s[i].id>> \in Wanted
  BY <1>1 DEF SubsIn, Latest, Unread
<1>3. CASE Has(wire.c2s, Cut)
  <2>1. CountOf(wire.c2s, {"Unsubscribe"}) > 0
    BY <1>1, <1>3, Counts DEF Cut
  <2> QED
    BY <1>2, <2>1 DEF Subscribed
<1>4. CASE ~Has(wire.c2s, Cut)
  <2>1. \A i \in DOMAIN wire.subs : <<wire.subs[i].region, wire.subs[i].id>> \in Wanted
    BY <1>1, <1>4 DEF SubsIn
  <2> QED
    BY <1>2, <2>1 DEF Subscribed
<1> QED
  BY <1>3, <1>4

-----------------------------------------------------------------------------
\* The queues of a connection, the server task and the client's operation fit together
\* at every step of client, server and network: serve_connection handles one frame at a
\* time, and the client reads only while it polls or waits.
THEOREM LinkInvariant == Spec => []Inv
<1>1. Init => Inv
  BY InitInv
<1>2. Inv /\ [Next]_vars => Inv'
  BY NextInv
<1> QED
  BY <1>1, <1>2, PTL DEF Spec

\* While both ends are there, the client is in ResponsePending exactly when one GET or
\* INPUT is unread, being served, or answered with its reply unread.
THEOREM OneRequestOutstanding == Spec => []OneOutstanding
<1>1. Inv => OneOutstanding
  BY InvOneOutstanding
<1> QED
  BY <1>1, LinkInvariant, PTL

\* The tables of the two ConnectionStateMachines agree: neither end reads a frame that
\* its own phase refuses, whatever crosses it on the wire.
THEOREM TablesAgree == Spec => []NoProtocolViolation
<1>1. Inv => NoProtocolViolation
  BY InvNoProtocolViolation
<1> QED
  BY <1>1, LinkInvariant, PTL

\* recv_response returns the reply to the request its caller has just sent, though no
\* frame names its request: a request that timed out leaves a phase that refuses the next
\* one, and a failed fetch closes the connection.
THEOREM RepliesMatch == Spec => []ReplyMatchesRequest
<1>1. Inv => ReplyMatchesRequest
  BY DEF Inv
<1> QED
  BY <1>1, LinkInvariant, PTL

\* retire_page_work, activate_page_scope and resubscribe_live send UNSUBSCRIBE before
\* they forget a region: when the server has read what is in flight, it holds
\* subscriptions of active regions only.
THEOREM NothingLeaks == Spec => []NoLeakedSubscription
<1>1. Inv => NoLeakedSubscription
  BY InvNoLeakedSubscription
<1> QED
  BY <1>1, LinkInvariant, PTL
=============================================================================
