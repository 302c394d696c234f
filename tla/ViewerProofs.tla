---------------------------- MODULE ViewerProofs ----------------------------
(***************************************************************************)
(* Viewer: the dispatch loop keeps its promises for every history limit,   *)
(* every set of pages and origins, and every order of events.              *)
(*                                                                         *)
(* The six properties speak of a quiet viewer, one with an empty queue.    *)
(* None is inductive: between two effects of one navigation the history,   *)
(* the slots, the outstanding requests and the renderer's artifacts differ *)
(* by exactly what the queue still has to do.  The invariant says so.  It  *)
(* reads the queue as a stage (Stage): trivial effects before at most one  *)
(* effect, or one pair of them, and only drawing behind; and it says what  *)
(* the reducer made true for the effect at the front (SoloOK, NavOK,       *)
(* PairOK, ErrorOK).  Three detours leave the queue at another place for a *)
(* while and are read through what they lead to: room being made for an    *)
(* effect that is held back (Evicting), a scope the reducer has left       *)
(* already being retired (RetiringWork), and its subscriptions             *)
(* (RetiringSubs).  With an empty queue only rest is left (QuietRest).     *)
(***************************************************************************)
EXTENDS Viewer, DataLemmas

\* Effects that leave the reducer and every slot alone, whenever they run:
\* the terminal is drawn or put back.
Plain == {"RenderTerminal", "RestoreTerminal"}

\* Effects that speak for themselves at any point of a queue: they need no
\* state to be prepared for them.
Trivial == Plain \cup {"Close", "ReleaseHistoryArtifact"}

\* A queue with nothing but drawing left in it.
AllPlain(w) == \A i \in DOMAIN w : w[i].e \in Plain

\* A queue with nothing left that a navigation depends on.
AllTrivial(w) == \A i \in DOMAIN w : w[i].e \in Trivial

\* Place k of the queue holds the only effect that is not trivial, and
\* only drawing follows it: what the reducer returns for one event.
Single(w, k) == /\ k \in DOMAIN w
                /\ \A i \in DOMAIN w : i < k => w[i].e \in Trivial
                /\ \A i \in DOMAIN w : i > k => w[i].e \in Plain

\* The same of two neighbours, a first step and the one it prepares: a
\* connection and the request on it, a module and the layout of its page.
Double(w, k) == /\ k \in DOMAIN w /\ k + 1 \in DOMAIN w
                /\ \A i \in DOMAIN w : i < k => w[i].e \in Trivial
                /\ \A i \in DOMAIN w : i > k + 1 => w[i].e \in Plain

\* The artifacts the queue still releases.
Released(w) == {w[i].x : i \in {j \in DOMAIN w : w[j].e = "ReleaseHistoryArtifact"}}

\* The artifacts the queue still installs.
Installed(w) == {w[i].x : i \in {j \in DOMAIN w : w[j].e = "InstallHistoryArtifact"}}

\* The artifacts the history names.
Ids(h) == {h[i].id : i \in DOMAIN h}

\* Entry i of the history is this page of this scope.
IsAt(h, i, scope, uri) == i \in DOMAIN h /\ h[i].scope = scope /\ h[i].uri = uri

\* What is on the screen is the page under the cursor. Nothing is said
\* while an eviction has shifted the entries of a restore under way
\* (model.rs keeps the indices it wrote down).
Cursor(m, r) == (~r.shifted /\ r.shown.what = "page") =>
                    IsAt(m.hist, m.pos, r.shown.scope, r.shown.uri)

\* Every request the reducer waits for has an effect that answers it
\* (reqs), a link that waits for its animation, or was forgotten with that
\* link.
Accounted(m, r, reqs) ==
    \A n \in m.out : \/ n \in reqs
                     \/ r.deferred # None /\ r.deferred.o.req = n
                     \/ \E o \in r.lost : o.req = n

\* No navigation is under way but for the requests of effects still
\* queued.
Settled(m, r, reqs) == /\ m.phase \in {"Ready", "Failed"} /\ m.pend = None
                       /\ Cursor(m, r) /\ Accounted(m, r, reqs)

\* No page is between its fetch and its layout.
NoPage(r) == r.fetched = None /\ r.parsed = None /\ r.batch = None

\* No frame is between its layout and the screen.
NoFrame(r) == r.nav = None /\ r.layout = None /\ r.artifact = None

\* Nothing a retired navigation staged is still held.
Drained(r) == NoPage(r) /\ NoFrame(r) /\ r.pwasm = None

\* The history as it was before a restore named one entry anew.
Original(m) == [m.hist EXCEPT ![m.pend.target].scope = m.pend.entryScope]

\* A restore from history under way: its target is the entry that is being
\* shown, and where it came from can be put back.
Pending(m, r) ==
    /\ m.pend # None /\ m.pend.gen = m.scope.gen
    /\ ~r.shifted =>
         /\ IsAt(m.hist, m.pend.target, m.scope, m.uri)
         /\ r.shown.what = "page" =>
              IsAt(Original(m), m.pend.pos, r.shown.scope, r.shown.uri)

\* What holds when one of these effects is at the front, alone, and no
\* navigation is under way. Each line is what the reducer made true when
\* it returned the effect.
SoloOK(m, r, a) ==
    \/ /\ a.e \in {"ApplyUpdate", "ApplyPresentationAction", "EvictResource",
                   "EvictHistory"}
       /\ Settled(m, r, {}) /\ Drained(r)
    \/ /\ a.e = "ResumeNavigation" /\ a.o.req \notin m.out /\ r.resumed = None
       /\ Settled(m, r, {}) /\ Drained(r)
    \/ /\ a.e = "TickWasm" /\ Owns(m, a.o)
       /\ Settled(m, r, {a.o.req}) /\ Drained(r)
    \/ /\ a.e = "ActivateWasm" /\ Owns(m, a.o) /\ Holds(r.pwasm, a.o)
       /\ Settled(m, r, {a.o.req}) /\ NoPage(r) /\ NoFrame(r)
    \/ /\ a.e = "Subscribe" /\ Owns(m, a.o) /\ <<a.o.req, a.x>> \in m.psubs
       /\ Settled(m, r, {a.o.req}) /\ Drained(r)
    \/ /\ a.e = "DeferNavigation" /\ Owns(m, a.o)
       /\ r.proposal = m.scope.gen /\ r.deferred = None
       /\ Settled(m, r, {a.o.req}) /\ Drained(r)
    \/ /\ a.e = "Connect" /\ Owns(m, a.o) /\ m.recon = a.o.req
       /\ Settled(m, r, {a.o.req}) /\ Drained(r)
    \/ /\ a.e = "PrepareResizeProjection" /\ Owns(m, a.o) /\ m.presize = a.o
       /\ Settled(m, r, {a.o.req}) /\ Drained(r) /\ r.activated = None
    \/ /\ a.e = "ActivateLayout" /\ Owns(m, a.o)
       /\ Holds(r.layout, a.o) /\ r.layout.x.uri = None
       /\ Settled(m, r, {a.o.req})
       /\ NoPage(r) /\ r.nav = None /\ r.artifact = None /\ r.pwasm = None
       /\ r.activated = None

\* A page is parsed and waits for its layout, from the network without a
\* restore, from the cache with one.
LayoutReady(m, r, o) ==
    /\ Holds(r.parsed, o) /\ Holds(r.batch, o) /\ r.fetched = None /\ NoFrame(r)
    /\ r.parsed.x \in Prepared /\ r.parsed.x.uri # None
    /\ \/ ~r.parsed.x.cached /\ m.pend = None
       \/ r.parsed.x.cached /\ r.parsed.x.uri = m.uri /\ Pending(m, r)

\* A page is laid out under its address and waits to be shown.
FrameReady(m, r, o) ==
    /\ Holds(r.nav, o) /\ Holds(r.layout, o) /\ r.layout.x.uri = m.uri
    /\ NoPage(r) /\ r.pwasm = None

\* The artifact the next admission names: that of the entry it replaces,
\* or a fresh one.
ReplacedId(m) == IF m.commit = "ReplaceCurrent" /\ m.pos \in DOMAIN m.hist
                 THEN m.hist[m.pos].id ELSE m.nhid

\* The steps of a navigation.
NavSteps == {"Fetch", "Submit", "Parse", "ActivateCachedHistory", "PrepareLayout",
             "AdmitHistoryArtifact", "InstallHistoryArtifact", "ActivateLayout"}

\* What holds when a step of the current navigation is at the front: its
\* owner is the current scope, its request is outstanding, its input is
\* staged and its outputs are not.
NavOK(m, r, a) ==
    /\ a.e \in NavSteps
    /\ Owns(m, a.o) /\ Accounted(m, r, {a.o.req}) /\ r.activated = None
    /\ \/ a.e \in {"Fetch", "Submit"} /\ Drained(r) /\ m.pend = None
       \/ /\ a.e = "Parse" /\ Holds(r.fetched, a.o) /\ r.fetched.x \in Pages
          /\ r.parsed = None /\ r.batch = None /\ NoFrame(r) /\ r.pwasm = None
          /\ m.pend = None
       \/ /\ a.e = "ActivateCachedHistory" /\ Drained(r) /\ Pending(m, r)
          /\ a.x.uri = m.uri
       \/ a.e = "PrepareLayout" /\ LayoutReady(m, r, a.o) /\ r.pwasm = None
       \/ /\ a.e = "AdmitHistoryArtifact" /\ m.pend = None
          /\ FrameReady(m, r, a.o) /\ Holds(r.artifact, a.o)
          /\ m.pcommit # None /\ m.pcommit.o = a.o /\ m.pcommit.id = a.x.id
          /\ m.pcommit.uri = m.uri /\ m.pcommit.commit = m.commit
          /\ a.x.id = ReplacedId(m)
       \/ /\ a.e = "InstallHistoryArtifact" /\ m.pend = None
          /\ FrameReady(m, r, a.o) /\ r.artifact = Slot(a.o, a.x)
          /\ IsAt(m.hist, m.pos, m.scope, m.uri) /\ m.hist[m.pos].id = a.x
       \/ /\ a.e = "ActivateLayout" /\ FrameReady(m, r, a.o) /\ r.artifact = None
          /\ \/ m.pend = None /\ IsAt(m.hist, m.pos, m.scope, m.uri)
             \/ Pending(m, r)

\* What holds when two effects are at the front together: the first has
\* its own request, or shares it with the second, and leaves the second
\* what it needs.
PairOK(m, r, a, b) ==
    /\ a.e \in {"Connect", "LoadWasm", "ActivateWasm"}
    /\ b.e \in {"Fetch", "Submit", "PrepareLayout"}
    /\ Owns(m, a.o) /\ Owns(m, b.o) /\ r.activated = None
    /\ \/ /\ a.e = "Connect" /\ b.e \in {"Fetch", "Submit"} /\ b.o = a.o
          /\ m.phase = "Connecting" /\ m.recon = None
          /\ m.pend = None /\ Accounted(m, r, {b.o.req}) /\ Drained(r)
       \/ /\ a.e \in {"LoadWasm", "ActivateWasm"} /\ b.e = "PrepareLayout"
          /\ a.o.req # b.o.req /\ Accounted(m, r, {a.o.req, b.o.req})
          /\ LayoutReady(m, r, b.o)
          /\ IF a.e = "LoadWasm" THEN r.pwasm = None ELSE Holds(r.pwasm, a.o)

\* What holds when a failed navigation is about to show its error page.
ErrorOK(m, r, a) == /\ a.e = "ActivateErrorPage"
                    /\ m.phase = "Failed" /\ m.pend = None /\ m.subs = {} /\ Drained(r)

\* What holds of any effect alone at the front.
OneOK(m, r, a) == ErrorOK(m, r, a) \/ SoloOK(m, r, a) \/ NavOK(m, r, a)

\* How far a queue is: trivial effects before at most one effect, or one
\* pair, with only drawing behind. A queue never holds the effects of two
\* events.
Stage(m, r, w) ==
    \/ AllTrivial(w) /\ Settled(m, r, {}) /\ Drained(r)
    \/ \E k \in DOMAIN w : Single(w, k) /\ OneOK(m, r, w[k])
    \/ \E k \in DOMAIN w : Double(w, k) /\ PairOK(m, r, w[k], w[k + 1])

\* The fields of the reducer's model.
ModelFields == {"phase", "scope", "uri", "conn", "hist", "pos", "out", "subs", "psubs",
                "gen", "nreq", "nhid", "recon", "commit", "pend", "pcommit", "presize",
                "retry"}

\* The types of those of them the argument needs.
ModelType(m) ==
    /\ DOMAIN m = ModelFields
    /\ m.scope \in Scopes /\ m.uri \in Pages /\ m.conn \in Conns
    /\ m.hist \in Seq(Entries) /\ m.pos \in Nat /\ m.gen \in Nat
    /\ m.nreq \in Nat /\ m.nhid \in Nat /\ m.commit \in CommitKinds
    /\ m.out \subseteq Nat
    /\ m.pend \in Pendings \cup {None}

\* The fields of the runtime that carries effects out.
RuntimeFields == {"shown", "fetched", "parsed", "nav", "layout", "artifact",
                  "activated", "batch", "pwasm", "proposal", "deferred", "resumed",
                  "trust", "redirect", "arts", "cache", "cs", "live", "kept", "lost", "pinned",
                  "shifted"}

\* The types of those of them the argument needs.
RuntimeType(r) ==
    /\ DOMAIN r = RuntimeFields
    /\ r.trust \in Pages \cup {None}
    /\ r.live \subseteq Owners \X Regions /\ r.kept \subseteq Owners \X Regions
    /\ r.deferred # None => r.deferred.o \in Owners
    /\ r.shifted \in BOOLEAN

\* Entries have different artifacts, all given out before n.
Numbered(h, n) ==
    /\ \A i, j \in DOMAIN h : h[i].id = h[j].id => i = j
    /\ \A i \in DOMAIN h : h[i].id < n

\* What the client applies updates for is a subscription of the current
\* scope.
LiveShown(m, r) == \A s \in r.live : s[1].scope = m.scope /\ <<s[1].req, s[2]>> \in m.subs

\* What holds in every state of a running viewer, whatever is queued.
Sound(m, r) ==
    /\ ModelType(m) /\ RuntimeType(r)
    /\ m.phase # "ShuttingDown"
    /\ \A n \in m.out : n < m.nreq
    /\ LiveShown(m, r)
    /\ Numbered(m.hist, m.nhid)

\* The renderer holds the artifacts of the history, but for those the
\* queue still installs or releases.
Projects(m, r, w) == r.arts \ Released(w) = Ids(m.hist) \ Installed(w)

\* A state with a queue from which the dispatch ends where it should.
Good(m, r, w) == /\ Sound(m, r) /\ w \in Seq(Effects)
                 /\ Projects(m, r, w) /\ Stage(m, r, w)

\* The two effects that make room when memory runs out.
Evicts == {"EvictResource", "EvictHistory"}

\* The effects whose failure for want of memory is tried again after an
\* eviction.
Rejectable == {"Parse", "ActivateCachedHistory", "PrepareLayout",
               "AdmitHistoryArtifact", "PrepareResizeProjection", "TickWasm",
               "ApplyUpdate", "ApplyPresentationAction"}

\* The queue is as the reducer returned it.
AsIs(m, r, w) == m.retry = None /\ Good(m, r, w)

\* The front makes room, and the effect that ran out of memory is held
\* back: with it at the front again the queue is good.
Evicting(m, r, w) ==
    /\ m.retry \in Effects /\ m.retry.e \in Rejectable
    /\ w # <<>> /\ Head(w).e \in Evicts
    /\ Good(m, r, <<m.retry>> \o Tail(w))

\* The work of a scope is retired, and the server heard of it or not.
Heard(r, s) == RetireWork(r, s, FALSE)
Unheard(r, s) == RetireWork(r, s, TRUE)

\* The front retires the work of a scope the reducer has left already:
\* once done the queue is good.
RetiringWork(m, r, w) ==
    /\ m.retry = None /\ w # <<>> /\ Head(w).e = "RetirePageWork"
    /\ Good(m, Unheard(r, Head(w).x), Tail(w))

\* The front retires the subscriptions the reducer has dropped already:
\* once done the queue is good.
RetiringSubs(m, r, w) ==
    /\ m.retry = None /\ w # <<>> /\ Head(w).e = "RetireSubscriptions"
    /\ Head(w).x = m.scope
    /\ Good(m, UnsubscribeTimesOut(r), Tail(w))

\* The viewer is shutting down, and nothing but closing and drawing is
\* queued.
Closing(m, r, w) == m.phase = "ShuttingDown" /\ AllTrivial(w)

\* The invariant, of a model, a runtime and a queue.
InvOf(m, r, w) ==
    /\ w \in Seq(Effects)
    /\ \/ Closing(m, r, w) \/ AsIs(m, r, w) \/ Evicting(m, r, w)
       \/ RetiringWork(m, r, w) \/ RetiringSubs(m, r, w)

\* The invariant of the dispatch loop.
Inv == InvOf(v, rt, q)

-----------------------------------------------------------------------------
(* The queue                                                               *)

\* The head and the tail of a queue, place by place.
LEMMA HeadTail ==
    ASSUME NEW S, NEW w \in Seq(S), w # <<>>
    PROVE  /\ Head(w) \in S /\ Head(w) = w[1] /\ 1 \in DOMAIN w
           /\ Tail(w) \in Seq(S)
           /\ \A i \in DOMAIN Tail(w) : i \in Nat /\ i >= 1 /\ i + 1 \in DOMAIN w /\ Tail(w)[i] = w[i + 1]
           /\ \A i \in DOMAIN w : i # 1 => i \in Nat /\ i > 1 /\ i - 1 \in DOMAIN Tail(w) /\ Tail(w)[i - 1] = w[i]
<1>1. Len(w) \in Nat /\ Len(w) # 0 /\ DOMAIN w = 1 .. Len(w)
  OBVIOUS
<1>2. Len(Tail(w)) = Len(w) - 1 /\ Tail(w) \in Seq(S) /\ DOMAIN Tail(w) = 1 .. Len(w) - 1
  OBVIOUS
<1>3. \A i \in 1 .. Len(w) - 1 : Tail(w)[i] = w[i + 1]
  BY <1>1
<1> QED BY <1>1, <1>2, <1>3

\* A queue behind another, place by place.
LEMMA ConcatAt ==
    ASSUME NEW S, NEW f \in Seq(S), NEW t \in Seq(S)
    PROVE  /\ f \o t \in Seq(S) /\ Len(f) \in Nat /\ Len(t) \in Nat
           /\ DOMAIN f = 1 .. Len(f) /\ DOMAIN t = 1 .. Len(t)
           /\ DOMAIN (f \o t) = 1 .. Len(f) + Len(t)
           /\ \A i \in DOMAIN f : i \in DOMAIN (f \o t) /\ (f \o t)[i] = f[i]
           /\ \A i \in DOMAIN (f \o t) : i \in DOMAIN f \/ (i - Len(f) \in DOMAIN t /\ i > Len(f) /\ (f \o t)[i] = t[i - Len(f)])
           /\ \A i \in DOMAIN t : Len(f) + i \in DOMAIN (f \o t) /\ (f \o t)[Len(f) + i] = t[i]
<1>1. /\ f \o t \in Seq(S) /\ Len(f) \in Nat /\ Len(t) \in Nat
      /\ DOMAIN f = 1 .. Len(f) /\ DOMAIN t = 1 .. Len(t)
      /\ Len(f \o t) = Len(f) + Len(t)
  OBVIOUS
<1>2. \A i \in 1 .. Len(f) + Len(t) : (f \o t)[i] = IF i <= Len(f) THEN f[i] ELSE t[i - Len(f)]
  OBVIOUS
<1>3. DOMAIN (f \o t) = 1 .. Len(f) + Len(t)
  BY <1>1
<1> QED BY <1>1, <1>2, <1>3

\* The head and the tail of a queue with one more effect in front.
LEMMA Cons ==
    ASSUME NEW S, NEW a \in S, NEW t \in Seq(S)
    PROVE  /\ <<a>> \o t \in Seq(S) /\ <<a>> \o t # <<>>
           /\ Head(<<a>> \o t) = a /\ Tail(<<a>> \o t) = t
<1>1. <<a>> \in Seq(S) /\ Len(<<a>>) = 1
  OBVIOUS
<1>2. <<a>> \o t \in Seq(S) /\ <<a>> \o t # <<>> /\ Len(<<a>> \o t) = Len(t) + 1
  BY <1>1
<1>3. Head(<<a>> \o t) = a
  BY <1>1, <1>2
<1>4. Tail(<<a>> \o t) \in Seq(S) /\ Len(Tail(<<a>> \o t)) = Len(t)
  BY <1>2
<1>5. \A i \in 1 .. Len(t) : Tail(<<a>> \o t)[i] = t[i]
  BY <1>1, <1>2
<1>6. Tail(<<a>> \o t) = t
  BY <1>4, <1>5
<1> QED BY <1>2, <1>3, <1>6

\* A good queue stays good with drawing behind it: this is how the effects
\* of an event join what is left of the queue.
LEMMA PlainBehind ==
    ASSUME NEW m, NEW r, NEW f, Good(m, r, f), NEW t \in Seq(Effects), AllPlain(t)
    PROVE  Good(m, r, f \o t)
<1>0. f \in Seq(Effects) /\ Sound(m, r) /\ Projects(m, r, f) /\ Stage(m, r, f)
  BY DEF Good
<1> DEFINE g == f \o t
<1>1. /\ g \in Seq(Effects) /\ Len(f) \in Nat /\ Len(t) \in Nat
      /\ DOMAIN f = 1 .. Len(f) /\ DOMAIN t = 1 .. Len(t) /\ DOMAIN g = 1 .. Len(f) + Len(t)
      /\ \A i \in DOMAIN f : i \in DOMAIN g /\ g[i] = f[i]
      /\ \A i \in DOMAIN g : i \in DOMAIN f \/ (i > Len(f) /\ g[i].e \in Plain)
  BY <1>0, ConcatAt DEF AllPlain
<1> HIDE DEF g
<1>2. Released(g) = Released(f) /\ Installed(g) = Installed(f)
  BY <1>1 DEF Released, Installed, Plain
<1>3. Stage(m, r, g)
  <2>1. CASE AllTrivial(f) /\ Settled(m, r, {}) /\ Drained(r)
    BY <2>1, <1>1 DEF Stage, AllTrivial, Trivial
  <2>2. ASSUME NEW k \in DOMAIN f, Single(f, k) PROVE k \in DOMAIN g /\ Single(g, k) /\ g[k] = f[k]
    <3>1. ASSUME NEW i \in DOMAIN g PROVE (i < k => g[i].e \in Trivial) /\ (i > k => g[i].e \in Plain)
      <4>1. CASE i \in DOMAIN f
        BY <4>1, <2>2, <1>1 DEF Single
      <4>2. CASE i > Len(f) /\ g[i].e \in Plain
        BY <4>2, <2>2, <1>1
      <4> QED BY <4>1, <4>2, <1>1
    <3> QED BY <3>1, <1>1 DEF Single
  <2>3. ASSUME NEW k \in DOMAIN f, Double(f, k)
        PROVE k \in DOMAIN g /\ Double(g, k) /\ g[k] = f[k] /\ g[k + 1] = f[k + 1]
    <3>0. k + 1 \in DOMAIN f
      BY <2>3 DEF Double
    <3>1. ASSUME NEW i \in DOMAIN g PROVE (i < k => g[i].e \in Trivial) /\ (i > k + 1 => g[i].e \in Plain)
      <4>1. CASE i \in DOMAIN f
        BY <4>1, <2>3, <1>1 DEF Double
      <4>2. CASE i > Len(f) /\ g[i].e \in Plain
        BY <4>2, <2>3, <3>0, <1>1
      <4> QED BY <4>1, <4>2, <1>1
    <3> QED BY <3>0, <3>1, <1>1 DEF Double
  <2>4. CASE \E k \in DOMAIN f : Single(f, k) /\ OneOK(m, r, f[k])
    BY <2>2, <2>4 DEF Stage
  <2>5. CASE \E k \in DOMAIN f : Double(f, k) /\ PairOK(m, r, f[k], f[k + 1])
    BY <2>3, <2>5 DEF Stage
  <2> QED BY <2>1, <2>4, <2>5, <1>0 DEF Stage
<1>4. Projects(m, r, g)
  BY <1>0, <1>2 DEF Projects
<1> QED BY <1>0, <1>1, <1>3, <1>4 DEF Good, g

\* The rest of a queue of drawing is drawing.
LEMMA PlainTail ==
    ASSUME NEW w \in Seq(Effects), AllPlain(w), w # <<>>
    PROVE  AllPlain(Tail(w))
  BY HeadTail DEF AllPlain

\* Drawing neither installs nor releases an artifact.
LEMMA NothingIn ==
    ASSUME NEW w \in Seq(Effects), AllPlain(w)
    PROVE  Released(w) = {} /\ Installed(w) = {}
  BY DEF AllPlain, Plain, Released, Installed

\* What an effect at the front releases.
ReleasedBy(b) == IF b.e = "ReleaseHistoryArtifact" THEN {b.x} ELSE {}

\* What an effect at the front installs.
InstalledBy(b) == IF b.e = "InstallHistoryArtifact" THEN {b.x} ELSE {}

\* The artifacts a queue speaks of are those of its head and of its tail.
LEMMA FrontBooks ==
    ASSUME NEW w \in Seq(Effects), w # <<>>
    PROVE  /\ Released(w) = ReleasedBy(Head(w)) \cup Released(Tail(w))
           /\ Installed(w) = InstalledBy(Head(w)) \cup Installed(Tail(w))
<1>1. /\ Head(w) = w[1] /\ 1 \in DOMAIN w
      /\ \A i \in DOMAIN Tail(w) : i + 1 \in DOMAIN w /\ Tail(w)[i] = w[i + 1]
      /\ \A i \in DOMAIN w : i # 1 => i - 1 \in DOMAIN Tail(w) /\ Tail(w)[i - 1] = w[i]
  BY HeadTail
<1> DEFINE t == Tail(w)
<1>2. \A i \in DOMAIN w : w[i] = Head(w) \/ \E j \in DOMAIN t : t[j] = w[i]
  BY <1>1
<1>3. /\ \E i \in DOMAIN w : w[i] = Head(w)
      /\ \A j \in DOMAIN t : \E i \in DOMAIN w : w[i] = t[j]
  BY <1>1
<1> HIDE DEF t
<1>4. ASSUME NEW x
      PROVE  /\ x \in Released(w) <=> x \in ReleasedBy(Head(w)) \cup Released(t)
             /\ x \in Installed(w) <=> x \in InstalledBy(Head(w)) \cup Installed(t)
  <2>1. x \in Released(w) <=> \E i \in DOMAIN w : w[i].e = "ReleaseHistoryArtifact" /\ x = w[i].x
    BY DEF Released
  <2>2. x \in Released(t) <=> \E i \in DOMAIN t : t[i].e = "ReleaseHistoryArtifact" /\ x = t[i].x
    BY DEF Released
  <2>3. x \in Installed(w) <=> \E i \in DOMAIN w : w[i].e = "InstallHistoryArtifact" /\ x = w[i].x
    BY DEF Installed
  <2>4. x \in Installed(t) <=> \E i \in DOMAIN t : t[i].e = "InstallHistoryArtifact" /\ x = t[i].x
    BY DEF Installed
  <2>5. x \in ReleasedBy(Head(w)) <=> Head(w).e = "ReleaseHistoryArtifact" /\ x = Head(w).x
    BY DEF ReleasedBy
  <2>6. x \in InstalledBy(Head(w)) <=> Head(w).e = "InstallHistoryArtifact" /\ x = Head(w).x
    BY DEF InstalledBy
  <2>7. x \in Released(w) <=> x \in ReleasedBy(Head(w)) \cup Released(t)
    BY <1>2, <1>3, <2>1, <2>2, <2>5
  <2>8. x \in Installed(w) <=> x \in InstalledBy(Head(w)) \cup Installed(t)
    BY <1>2, <1>3, <2>3, <2>4, <2>6
  <2> QED BY <2>7, <2>8
<1> QED BY <1>4 DEF t

\* A trivial effect in front leaves a queue where it is.
LEMMA StageBefore ==
    ASSUME NEW m, NEW r, NEW w \in Seq(Effects), Stage(m, r, w),
           NEW b \in Effects, b.e \in Trivial
    PROVE  Stage(m, r, <<b>> \o w)
<1> DEFINE g == <<b>> \o w
<1>1. /\ g \in Seq(Effects) /\ g # <<>> /\ Head(g) = b /\ Tail(g) = w
  BY Cons
<1>2. /\ g[1] = b /\ 1 \in DOMAIN g
      /\ \A i \in DOMAIN w : i \in Nat /\ i >= 1 /\ i + 1 \in DOMAIN g /\ w[i] = g[i + 1]
      /\ \A i \in DOMAIN g : i # 1 => i \in Nat /\ i > 1 /\ i - 1 \in DOMAIN w /\ w[i - 1] = g[i]
  BY <1>1, HeadTail
<1> HIDE DEF g
<1>3. CASE AllTrivial(w) /\ Settled(m, r, {}) /\ Drained(r)
  <2>1. AllTrivial(g)
    BY <1>3, <1>2 DEF AllTrivial
  <2> QED BY <2>1, <1>3 DEF Stage, g
<1>4. ASSUME NEW k \in DOMAIN w, Single(w, k)
      PROVE  k + 1 \in DOMAIN g /\ Single(g, k + 1) /\ g[k + 1] = w[k]
  <2>1. ASSUME NEW i \in DOMAIN g
        PROVE (i < k + 1 => g[i].e \in Trivial) /\ (i > k + 1 => g[i].e \in Plain)
    <3>1. CASE i = 1
      BY <3>1, <1>2
    <3>2. CASE i # 1
      BY <3>2, <1>2, <1>4 DEF Single
    <3> QED BY <3>1, <3>2
  <2> QED BY <2>1, <1>2 DEF Single
<1>5. ASSUME NEW k \in DOMAIN w, Double(w, k)
      PROVE  /\ k + 1 \in DOMAIN g /\ Double(g, k + 1)
             /\ g[k + 1] = w[k] /\ g[k + 1 + 1] = w[k + 1]
  <2>0. k + 1 \in DOMAIN w
    BY <1>5 DEF Double
  <2>1. ASSUME NEW i \in DOMAIN g
        PROVE (i < k + 1 => g[i].e \in Trivial) /\ (i > k + 1 + 1 => g[i].e \in Plain)
    <3>1. CASE i = 1
      BY <3>1, <1>2
    <3>2. CASE i # 1
      BY <3>2, <1>2, <1>5 DEF Double
    <3> QED BY <3>1, <3>2
  <2> QED BY <2>0, <2>1, <1>2 DEF Double
<1>6. CASE \E k \in DOMAIN w : Single(w, k) /\ OneOK(m, r, w[k])
  BY <1>4, <1>6 DEF Stage, g
<1>7. CASE \E k \in DOMAIN w : Double(w, k) /\ PairOK(m, r, w[k], w[k + 1])
  BY <1>5, <1>7 DEF Stage, g
<1> QED BY <1>3, <1>6, <1>7 DEF Stage

\* A trivial effect in front keeps a queue good when the artifacts still
\* balance with it.
LEMMA GoodBefore ==
    ASSUME NEW m, NEW r, NEW w, Sound(m, r), w \in Seq(Effects), Stage(m, r, w),
           NEW b \in Effects, b.e \in Trivial,
           r.arts \ (ReleasedBy(b) \cup Released(w)) = Ids(m.hist) \ Installed(w)
    PROVE  Good(m, r, <<b>> \o w)
<1> DEFINE g == <<b>> \o w
<1>1. g \in Seq(Effects) /\ g # <<>> /\ Head(g) = b /\ Tail(g) = w
  BY Cons
<1>2. Stage(m, r, g)
  BY StageBefore
<1> HIDE DEF g
<1>3. Released(g) = ReleasedBy(b) \cup Released(w) /\ Installed(g) = InstalledBy(b) \cup Installed(w)
  BY <1>1, FrontBooks
<1>4. InstalledBy(b) = {}
  BY DEF InstalledBy, Trivial, Plain
<1> QED BY <1>1, <1>2, <1>3, <1>4 DEF Good, Projects, g

\* Drawing or closing in front keeps a queue good.
LEMMA PlainBefore ==
    ASSUME NEW m, NEW r, NEW w, Good(m, r, w),
           NEW b \in Effects, b.e \in Plain \cup {"Close"}
    PROVE  Good(m, r, <<b>> \o w)
<1>1. ReleasedBy(b) = {} /\ b.e \in Trivial
  BY DEF ReleasedBy, Plain, Trivial
<1> QED BY <1>1, GoodBefore DEF Good, Projects

\* Nothing queued is good when all is settled and drained.
LEMMA GoodEmpty ==
    ASSUME NEW m, NEW r, Sound(m, r), Settled(m, r, {}), Drained(r), r.arts = Ids(m.hist)
    PROVE  Good(m, r, <<>>)
<1>1. Released(<<>>) = {} /\ Installed(<<>>) = {} /\ AllTrivial(<<>>) /\ <<>> \in Seq(Effects)
  BY DEF Released, Installed, AllTrivial
<1> QED BY <1>1 DEF Good, Projects, Stage

\* One effect queued is good when its conditions hold.
LEMMA GoodSingle ==
    ASSUME NEW m, NEW r, Sound(m, r), NEW a \in Effects, OneOK(m, r, a),
           a.e # "ReleaseHistoryArtifact", r.arts = Ids(m.hist) \ InstalledBy(a)
    PROVE  Good(m, r, <<a>>)
<1> DEFINE g == <<a>>
<1>1. g \in Seq(Effects) /\ DOMAIN g = {1} /\ g[1] = a
  OBVIOUS
<1> HIDE DEF g
<1>2. Released(g) = {} /\ Installed(g) = InstalledBy(a)
  BY <1>1 DEF Released, Installed, InstalledBy
<1>3. Single(g, 1)
  BY <1>1 DEF Single
<1>4. Stage(m, r, g)
  BY <1>1, <1>3 DEF Stage
<1> QED BY <1>1, <1>2, <1>4 DEF Good, Projects, g

\* A pair queued is good when its conditions hold.
LEMMA GoodDouble ==
    ASSUME NEW m, NEW r, Sound(m, r), NEW a \in Effects, NEW b \in Effects,
           PairOK(m, r, a, b), r.arts = Ids(m.hist)
    PROVE  Good(m, r, <<a, b>>)
<1> DEFINE g == <<a, b>>
<1>1. g \in Seq(Effects) /\ DOMAIN g = {1, 2} /\ g[1] = a /\ g[2] = b
  OBVIOUS
<1> HIDE DEF g
<1>0. /\ a.e \in {"Connect", "LoadWasm", "ActivateWasm"}
      /\ b.e \in {"Fetch", "Submit", "PrepareLayout"}
  BY DEF PairOK
<1>2. Released(g) = {} /\ Installed(g) = {}
  BY <1>0, <1>1 DEF Released, Installed
<1>3. Double(g, 1) /\ 1 + 1 = 2
  BY <1>1 DEF Double
<1>4. Stage(m, r, g)
  BY <1>1, <1>3 DEF Stage
<1> QED BY <1>1, <1>2, <1>4 DEF Good, Projects, g

\* The front is the one effect of its queue.
FrontOne(m, r, w) ==
    /\ OneOK(m, r, Head(w)) /\ AllPlain(Tail(w))
    /\ r.arts = Ids(m.hist) \ InstalledBy(Head(w))

\* The front is the first of a pair.
FrontPair(m, r, w) ==
    /\ Tail(w) # <<>> /\ PairOK(m, r, Head(w), Head(Tail(w)))
    /\ AllPlain(Tail(Tail(w))) /\ r.arts = Ids(m.hist)

\* What a good queue says of its front: it is trivial, alone, or the first
\* of a pair.
LEMMA Front ==
    ASSUME NEW m, NEW r, NEW w, Good(m, r, w), w # <<>>
    PROVE  /\ w \in Seq(Effects) /\ Head(w) \in Effects /\ Tail(w) \in Seq(Effects)
           /\ \/ Head(w).e \in Trivial /\ Stage(m, r, Tail(w))
              \/ Head(w).e \notin Trivial /\ FrontOne(m, r, w)
              \/ FrontPair(m, r, w)
<1>0. w \in Seq(Effects) /\ Stage(m, r, w) /\ Projects(m, r, w)
  BY DEF Good
<1> DEFINE t == Tail(w)
<1>1. /\ Head(w) \in Effects /\ Head(w) = w[1] /\ 1 \in DOMAIN w
      /\ t \in Seq(Effects)
      /\ \A i \in DOMAIN t : i \in Nat /\ i >= 1 /\ i + 1 \in DOMAIN w /\ t[i] = w[i + 1]
      /\ \A i \in DOMAIN w : i # 1 => i \in Nat /\ i > 1 /\ i - 1 \in DOMAIN t /\ t[i - 1] = w[i]
  BY <1>0, HeadTail
<1>2. Released(w) = ReleasedBy(Head(w)) \cup Released(t) /\ Installed(w) = InstalledBy(Head(w)) \cup Installed(t)
  BY <1>0, FrontBooks
<1> HIDE DEF t
<1>3. CASE AllTrivial(w) /\ Settled(m, r, {}) /\ Drained(r)
  <2>1. AllTrivial(t) /\ Head(w).e \in Trivial
    BY <1>1, <1>3 DEF AllTrivial
  <2> QED BY <2>1, <1>0, <1>1, <1>3 DEF Stage, t
<1>4. ASSUME NEW k \in DOMAIN w, Single(w, k), OneOK(m, r, w[k])
      PROVE  \/ Head(w).e \in Trivial /\ Stage(m, r, t)
             \/ Head(w).e \notin Trivial /\ FrontOne(m, r, w)
  <2>1. CASE k = 1
    <3>1. AllPlain(t)
      BY <1>1, <1>4, <2>1 DEF AllPlain, Single
    <3>2. w[1].e \notin Trivial
      BY <1>4, <2>1 DEF OneOK, ErrorOK, SoloOK, NavOK, NavSteps, Trivial, Plain
    <3>3. ReleasedBy(Head(w)) = {}
      BY <3>2, <1>1 DEF ReleasedBy, Trivial
    <3>4. r.arts = Ids(m.hist) \ InstalledBy(Head(w))
      BY <3>1, <3>3, <1>0, <1>1, <1>2, NothingIn DEF Projects
    <3> QED BY <3>1, <3>2, <3>4, <1>1, <1>4, <2>1 DEF FrontOne, t
  <2>2. CASE k # 1
    <3>1. Head(w).e \in Trivial
      BY <1>1, <1>4, <2>2 DEF Single
    <3>2. k - 1 \in DOMAIN t /\ t[k - 1] = w[k]
      BY <1>1, <2>2
    <3>3. ASSUME NEW i \in DOMAIN t
          PROVE (i < k - 1 => t[i].e \in Trivial) /\ (i > k - 1 => t[i].e \in Plain)
      BY <1>1, <1>4, <2>2 DEF Single
    <3>4. Single(t, k - 1)
      BY <3>2, <3>3 DEF Single
    <3>5. Stage(m, r, t)
      BY <3>2, <3>4, <1>4 DEF Stage
    <3> QED BY <3>1, <3>5
  <2> QED BY <2>1, <2>2
<1>5. ASSUME NEW k \in DOMAIN w, Double(w, k), PairOK(m, r, w[k], w[k + 1])
      PROVE  \/ Head(w).e \in Trivial /\ Stage(m, r, t)
             \/ FrontPair(m, r, w)
  <2>0. k + 1 \in DOMAIN w
    BY <1>5 DEF Double
  <2>1. CASE k = 1
    <3>0. 2 \in DOMAIN w /\ 1 \in DOMAIN t /\ t # <<>> /\ t[1] = w[2] /\ 1 + 1 = 2
      BY <2>0, <2>1, <1>1
    <3>1. Head(t) = w[2] /\ Tail(t) \in Seq(Effects)
          /\ \A i \in DOMAIN Tail(t) : i \in Nat /\ i >= 1 /\ i + 1 \in DOMAIN t /\ Tail(t)[i] = t[i + 1]
      BY <3>0, <1>1, HeadTail
    <3>2. AllPlain(Tail(t))
      <4> SUFFICES ASSUME NEW i \in DOMAIN Tail(t) PROVE Tail(t)[i].e \in Plain
        BY DEF AllPlain
      <4>1. i \in Nat /\ i >= 1 /\ i + 1 \in DOMAIN t /\ Tail(t)[i] = t[i + 1]
        BY <3>1
      <4>2. i + 1 + 1 \in DOMAIN w /\ t[i + 1] = w[i + 1 + 1] /\ i + 1 + 1 > 1 + 1
        BY <4>1, <1>1
      <4> QED BY <4>1, <4>2, <1>5, <2>1 DEF Double
    <3>3. PairOK(m, r, Head(w), Head(t))
      BY <3>0, <3>1, <1>1, <1>5, <2>1
    <3>4. ReleasedBy(Head(w)) = {} /\ InstalledBy(Head(w)) = {} /\ ReleasedBy(Head(t)) = {} /\ InstalledBy(Head(t)) = {}
      BY <3>3 DEF PairOK, ReleasedBy, InstalledBy
    <3>5. Released(t) = {} /\ Installed(t) = {}
      BY <3>0, <3>1, <3>2, <3>4, <1>1, FrontBooks, NothingIn
    <3>6. r.arts = Ids(m.hist)
      BY <3>4, <3>5, <1>0, <1>2 DEF Projects
    <3> QED BY <3>0, <3>2, <3>3, <3>6 DEF FrontPair, t
  <2>2. CASE k # 1
    <3>1. Head(w).e \in Trivial
      BY <1>1, <1>5, <2>2 DEF Double
    <3>2. k - 1 \in DOMAIN t /\ t[k - 1] = w[k] /\ (k - 1) + 1 \in DOMAIN t /\ t[(k - 1) + 1] = w[k + 1]
      <4>1. k \in Nat /\ k > 1
        BY <1>1, <2>2
      <4>2. k + 1 # 1 /\ (k + 1) - 1 = (k - 1) + 1
        BY <4>1
      <4> QED BY <4>1, <4>2, <2>0, <2>2, <1>1
    <3>3. ASSUME NEW i \in DOMAIN t
          PROVE (i < k - 1 => t[i].e \in Trivial) /\ (i > (k - 1) + 1 => t[i].e \in Plain)
      BY <1>1, <1>5, <2>2 DEF Double
    <3>4. Double(t, k - 1)
      BY <3>2, <3>3 DEF Double
    <3>5. Stage(m, r, t)
      BY <3>2, <3>4, <1>5 DEF Stage
    <3> QED BY <3>1, <3>5
  <2> QED BY <2>1, <2>2
<1>6. CASE \E k \in DOMAIN w : Single(w, k) /\ OneOK(m, r, w[k])
  BY <1>0, <1>1, <1>4, <1>6 DEF t
<1>7. CASE \E k \in DOMAIN w : Double(w, k) /\ PairOK(m, r, w[k], w[k + 1])
  BY <1>0, <1>1, <1>5, <1>7 DEF t
<1> QED BY <1>0, <1>3, <1>6, <1>7 DEF Stage

-----------------------------------------------------------------------------
(* Effects, entries and the records                                        *)

\* Every effect the reducer constructs is an effect.
LEMMA EffectOf ==
    /\ \A e \in Bare : Fx(e, None, None) \in Effects
    /\ \A e \in OwnedBare, o \in Owners : Fx(e, o, None) \in Effects
    /\ \A e \in {"Fetch", "Submit"}, o \in Owners, p \in Pages : Fx(e, o, p) \in Effects
    /\ \A o \in Owners, x \in Entries : Fx("ActivateCachedHistory", o, x) \in Effects
    /\ \A o \in Owners, x \in [id : Nat, replacing : BOOLEAN] :
            Fx("AdmitHistoryArtifact", o, x) \in Effects
    /\ \A e \in {"InstallHistoryArtifact", "LoadWasm"}, o \in Owners, x \in Nat :
            Fx(e, o, x) \in Effects
    /\ \A e \in {"Subscribe", "ApplyUpdate"}, o \in Owners, x \in Regions :
            Fx(e, o, x) \in Effects
    /\ \A x \in Nat : Fx("ReleaseHistoryArtifact", None, x) \in Effects
    /\ \A e \in {"RetirePageWork", "RetireSubscriptions"}, s \in Scopes :
            Fx(e, None, s) \in Effects
    /\ \A x \in [scope : Scopes, local : BOOLEAN] :
            Fx("ApplyPresentationAction", None, x) \in Effects
<1>1. \A e \in Bare : Fx(e, None, None) \in Effects
  BY SMT DEF Fx, Effects
<1>2. \A e \in OwnedBare, o \in Owners : Fx(e, o, None) \in Effects
  BY SMT DEF Fx, Effects
<1>3. \A e \in {"Fetch", "Submit"}, o \in Owners, p \in Pages : Fx(e, o, p) \in Effects
  BY SMT DEF Fx, Effects
<1>4. \A o \in Owners, x \in Entries : Fx("ActivateCachedHistory", o, x) \in Effects
  BY SMT DEF Fx, Effects
<1>5. \A o \in Owners, x \in [id : Nat, replacing : BOOLEAN] :
            Fx("AdmitHistoryArtifact", o, x) \in Effects
  BY SMT DEF Fx, Effects
<1>6. \A e \in {"InstallHistoryArtifact", "LoadWasm"}, o \in Owners, x \in Nat :
            Fx(e, o, x) \in Effects
  BY SMT DEF Fx, Effects
<1>7. \A e \in {"Subscribe", "ApplyUpdate"}, o \in Owners, x \in Regions :
            Fx(e, o, x) \in Effects
  BY SMT DEF Fx, Effects
<1>8. \A x \in Nat : Fx("ReleaseHistoryArtifact", None, x) \in Effects
  BY SMT DEF Fx, Effects
<1>9. \A e \in {"RetirePageWork", "RetireSubscriptions"}, s \in Scopes :
            Fx(e, None, s) \in Effects
  BY SMT DEF Fx, Effects
<1>10. \A x \in [scope : Scopes, local : BOOLEAN] :
            Fx("ApplyPresentationAction", None, x) \in Effects
  BY SMT DEF Fx, Effects
<1> QED BY <1>1, <1>2, <1>3, <1>4, <1>5, <1>6, <1>7, <1>8, <1>9, <1>10

\* What an effect of each kind carries.
LEMMA EffectParts ==
    ASSUME NEW a \in Effects
    PROVE  /\ a.e \in Bare => a.o = None /\ a.x = None
           /\ a.e \in OwnedBare => a.o \in Owners /\ a.x = None
           /\ a.e \in {"Fetch", "Submit"} => a.o \in Owners /\ a.x \in Pages
           /\ a.e = "ActivateCachedHistory" => a.o \in Owners /\ a.x \in Entries
           /\ a.e = "AdmitHistoryArtifact" =>
                a.o \in Owners /\ a.x.id \in Nat
           /\ a.e \in {"InstallHistoryArtifact", "LoadWasm"} => a.o \in Owners /\ a.x \in Nat
           /\ a.e \in {"Subscribe", "ApplyUpdate"} => a.o \in Owners /\ a.x \in Regions
           /\ a.e = "ReleaseHistoryArtifact" => a.o = None /\ a.x \in Nat
           /\ a.e \in {"RetirePageWork", "RetireSubscriptions"} => a.o = None /\ a.x \in Scopes
           /\ a.e = "ApplyPresentationAction" => a.o = None
  BY SMT DEF Effects, Bare, OwnedBare

\* The fields of a constructed effect.
LEMMA FxParts ==
    \A e, o, x : Fx(e, o, x).e = e /\ Fx(e, o, x).o = o /\ Fx(e, o, x).x = x
  BY DEF Fx

\* What a reduction returns: the model and the effects.
LEMMA RetParts == \A m, f : Ret(m, f).v = m /\ Ret(m, f).fx = f
  BY DEF Ret

\* A scope and a request number make an owner.
LEMMA OwnerParts ==
    ASSUME NEW s \in Scopes, NEW n \in Nat
    PROVE  Owner(s, n) \in Owners /\ Owner(s, n).scope = s /\ Owner(s, n).req = n
  BY DEF Owner, Owners

\* The fields of an owner.
LEMMA OwnerIs == ASSUME NEW o \in Owners PROVE o.scope \in Scopes /\ o.req \in Nat
  BY DEF Owners

\* A page and a generation make a scope.
LEMMA ScopeParts ==
    ASSUME NEW p \in Pages, NEW g \in Nat
    PROVE  Scope(Origin(p), g) \in Scopes /\ Scope(Origin(p), g).gen = g
  BY DEF Scope, Scopes

\* The fields of a filled slot.
LEMMA SlotParts ==
    \A o, x : Slot(o, x).o = o /\ Slot(o, x).x = x
  BY DEF Slot

\* A slot filled for an owner is held by that owner.
LEMMA SlotThere ==
    ASSUME NEW o \in Owners, NEW x \in Pages \cup Prepared \cup Nat \cup {"waiting"}
    PROVE  Slot(o, x) # None /\ Holds(Slot(o, x), o)
<1>1. Slot(o, x) \in Slots
  BY DEF Slot, Slots
<1>2. Slot(o, x) # None
  BY <1>1, NoneAssumption
<1> QED BY <1>2 DEF Holds, Slot

\* A restore gives one entry a new scope and leaves the others alone.
LEMMA Rescoped ==
    ASSUME NEW h \in Seq(Entries), NEW i \in DOMAIN h, NEW s \in Scopes
    PROVE  LET g == [h EXCEPT ![i].scope = s] IN
           /\ g \in Seq(Entries) /\ DOMAIN g = DOMAIN h
           /\ \A j \in DOMAIN h : /\ g[j].id = h[j].id /\ g[j].uri = h[j].uri
                                  /\ g[j].scope = IF j = i THEN s ELSE h[j].scope
<1> DEFINE e == [h[i] EXCEPT !.scope = s]
           g == [h EXCEPT ![i] = e]
<1>1. h[i] \in Entries
  OBVIOUS
<1>2. e \in Entries /\ e.id = h[i].id /\ e.uri = h[i].uri /\ e.scope = s
  BY <1>1 DEF Entries
<1>3. [h EXCEPT ![i].scope = s] = g
  OBVIOUS
<1> HIDE DEF e
<1>4. g \in Seq(Entries) /\ DOMAIN g = DOMAIN h
  BY <1>2
<1>5. \A j \in DOMAIN h : g[j] = IF j = i THEN e ELSE h[j]
  OBVIOUS
<1> HIDE DEF g
<1> QED BY <1>2, <1>3, <1>4, <1>5

\* Entries renamed but for their artifacts stay numbered, and the
\* artifacts stay the same.
LEMMA SameNumbers ==
    ASSUME NEW h, NEW g, NEW n, Numbered(h, n), DOMAIN g = DOMAIN h,
           \A j \in DOMAIN h : g[j].id = h[j].id
    PROVE  Numbered(g, n) /\ Ids(g) = Ids(h)
  BY DEF Numbered, Ids

\* What retiring a scope's work clears, field by field.
LEMMA RetireFields ==
    ASSUME NEW r, DOMAIN r = RuntimeFields, NEW s
    PROVE  LET n == Unheard(r, s) IN
           /\ DOMAIN n = RuntimeFields
           /\ n.shown = r.shown /\ n.arts = r.arts /\ n.lost = r.lost
           /\ n.shifted = r.shifted /\ n.trust = r.trust
           /\ n.live = {x \in r.live : x[1].scope # s} /\ n.kept \subseteq r.kept \cup r.live
           /\ n.fetched = ClearScope(r.fetched, s) /\ n.parsed = ClearScope(r.parsed, s)
           /\ n.nav = ClearScope(r.nav, s) /\ n.layout = ClearScope(r.layout, s)
           /\ n.artifact = ClearScope(r.artifact, s) /\ n.batch = ClearScope(r.batch, s)
           /\ n.pwasm = ClearScope(r.pwasm, s) /\ n.activated = ClearScope(r.activated, s)
           /\ n.deferred = ClearScope(r.deferred, s)
<1>1. DOMAIN Unheard(r, s) = RuntimeFields
  BY Zenon DEF Unheard, RetireWork
<1> DEFINE n == Unheard(r, s)
<1>2. n.shown = r.shown /\ n.arts = r.arts /\ n.lost = r.lost /\ n.shifted = r.shifted
      /\ n.trust = r.trust
  BY SMT DEF Unheard, RetireWork, RuntimeFields
<1>3. n.live = {x \in r.live : x[1].scope # s} /\ n.kept \subseteq r.kept \cup r.live
  BY SMT DEF Unheard, RetireWork, RuntimeFields
<1>4. n.fetched = ClearScope(r.fetched, s) /\ n.parsed = ClearScope(r.parsed, s)
  BY SMT DEF Unheard, RetireWork, RuntimeFields
<1>5. n.nav = ClearScope(r.nav, s) /\ n.layout = ClearScope(r.layout, s)
  BY SMT DEF Unheard, RetireWork, RuntimeFields
<1>6. n.artifact = ClearScope(r.artifact, s) /\ n.batch = ClearScope(r.batch, s)
  BY SMT DEF Unheard, RetireWork, RuntimeFields
<1>7. n.pwasm = ClearScope(r.pwasm, s) /\ n.activated = ClearScope(r.activated, s)
      /\ n.deferred = ClearScope(r.deferred, s)
  BY SMT DEF Unheard, RetireWork, RuntimeFields
<1> QED BY <1>1, <1>2, <1>3, <1>4, <1>5, <1>6, <1>7

\* Retiring the scope clears every staged slot.
Clears(r, s) ==
    /\ ClearScope(r.fetched, s) = None /\ ClearScope(r.parsed, s) = None
    /\ ClearScope(r.nav, s) = None /\ ClearScope(r.layout, s) = None
    /\ ClearScope(r.artifact, s) = None /\ ClearScope(r.batch, s) = None
    /\ ClearScope(r.pwasm, s) = None

\* After the current scope's work is retired nothing is staged and nothing
\* is live.
LEMMA Retired ==
    ASSUME NEW m, NEW r, RuntimeType(r), LiveShown(m, r), Clears(r, m.scope)
    PROVE  LET n == Unheard(r, m.scope) IN
           /\ RuntimeType(n) /\ Drained(n) /\ n.live = {}
           /\ n.shown = r.shown /\ n.arts = r.arts /\ n.lost = r.lost
           /\ n.shifted = r.shifted
           /\ (r.activated = None \/ r.activated.o.scope = m.scope) => n.activated = None
<1> DEFINE n == Unheard(r, m.scope)
<1>1. /\ DOMAIN n = RuntimeFields
      /\ n.shown = r.shown /\ n.arts = r.arts /\ n.lost = r.lost
      /\ n.shifted = r.shifted /\ n.trust = r.trust
      /\ n.live = {x \in r.live : x[1].scope # m.scope} /\ n.kept \subseteq r.kept \cup r.live
      /\ n.fetched = ClearScope(r.fetched, m.scope) /\ n.parsed = ClearScope(r.parsed, m.scope)
      /\ n.nav = ClearScope(r.nav, m.scope) /\ n.layout = ClearScope(r.layout, m.scope)
      /\ n.artifact = ClearScope(r.artifact, m.scope) /\ n.batch = ClearScope(r.batch, m.scope)
      /\ n.pwasm = ClearScope(r.pwasm, m.scope) /\ n.activated = ClearScope(r.activated, m.scope)
      /\ n.deferred = ClearScope(r.deferred, m.scope)
  BY RetireFields DEF RuntimeType
<1> HIDE DEF n
<1>2. n.live = {}
  BY <1>1 DEF LiveShown
<1>3. Drained(n)
  BY <1>1 DEF Clears, Drained, NoPage, NoFrame
<1>4. RuntimeType(n)
  BY <1>1, <1>2 DEF RuntimeType, ClearScope
<1>5. (r.activated = None \/ r.activated.o.scope = m.scope) => n.activated = None
  BY <1>1 DEF ClearScope, InScope
<1> QED BY <1>1, <1>2, <1>3, <1>4, <1>5 DEF n

\* Queues joined one after the other.
LEMMA Assoc ==
    ASSUME NEW S, NEW a \in Seq(S), NEW b \in Seq(S), NEW c \in Seq(S)
    PROVE  (a \o b) \o c = a \o (b \o c) /\ <<>> \o c = c
<1>1. (a \o b) \o c = a \o (b \o c)
  BY ConcatAssociative
<1>2. <<>> \o c = c
  BY ConcatEmptySeq
<1> QED BY <1>1, <1>2

\* Drawing before drawing is drawing.
LEMMA Rendered ==
    ASSUME NEW t \in Seq(Effects), AllPlain(t)
    PROVE  Render \in Seq(Effects) /\ Render \o t \in Seq(Effects) /\ AllPlain(Render \o t)
<1>1. Fx("RenderTerminal", None, None) \in Effects
  BY EffectOf DEF Bare
<1>2. Fx("RenderTerminal", None, None).e = "RenderTerminal"
  BY FxParts
<1> DEFINE b == Fx("RenderTerminal", None, None)
           g == <<b>> \o t
<1> HIDE DEF b
<1>3. g \in Seq(Effects) /\ g # <<>> /\ Head(g) = b /\ Tail(g) = t
  BY <1>1, Cons DEF b
<1> HIDE DEF g
<1>4. g[1] = b /\ \A i \in DOMAIN g : i # 1 => i - 1 \in DOMAIN t /\ t[i - 1] = g[i]
  BY <1>3, HeadTail
<1>5. AllPlain(g)
  BY <1>4, <1>2 DEF AllPlain, Plain, b
<1> QED BY <1>1, <1>3, <1>5 DEF Render, g, b

\* The reducer's answer that starts by retiring a scope keeps the
\* invariant when the rest is good once the scope is retired.
LEMMA RetireNext ==
    ASSUME NEW n, n.retry = None, NEW r, NEW s \in Scopes, NEW g \in Seq(Effects),
           NEW t \in Seq(Effects), Good(n, Unheard(r, s), g \o t)
    PROVE  InvOf(n, r, (<<Fx("RetirePageWork", None, s)>> \o g) \o t)
<1> DEFINE a == Fx("RetirePageWork", None, s)
           w == <<a>> \o (g \o t)
<1>1. a \in Effects /\ a.e = "RetirePageWork" /\ a.x = s
  BY EffectOf, FxParts
<1> HIDE DEF a
<1>2. g \o t \in Seq(Effects) /\ <<a>> \in Seq(Effects)
  BY <1>1
<1>3. w \in Seq(Effects) /\ w # <<>> /\ Head(w) = a /\ Tail(w) = g \o t
  BY <1>1, <1>2, Cons
<1>4. (<<a>> \o g) \o t = w
  BY <1>2, Assoc
<1> HIDE DEF w
<1>5. RetiringWork(n, r, w)
  BY <1>1, <1>3 DEF RetiringWork
<1> QED BY <1>3, <1>4, <1>5 DEF InvOf, a

\* What a failed restore puts back, field by field.
LEMMA RestoredFields ==
    ASSUME NEW m, DOMAIN m = ModelFields
    PROVE  LET n == RestoredFromPending(m) IN
           /\ DOMAIN n = ModelFields
           /\ n.hist = IF m.pend.target \in DOMAIN m.hist THEN Original(m) ELSE m.hist
           /\ n.pos = m.pend.pos /\ n.scope = m.pend.scope /\ n.uri = m.pend.uri
           /\ n.phase = m.pend.phase /\ n.conn = m.pend.conn
           /\ n.out = {} /\ n.pend = None /\ n.gen = m.gen /\ n.nreq = m.nreq
           /\ n.nhid = m.nhid /\ n.commit = m.commit /\ n.retry = m.retry
<1> DEFINE n == RestoredFromPending(m)
<1>1. DOMAIN n = ModelFields
  BY Zenon DEF RestoredFromPending
<1>2. n.hist = IF m.pend.target \in DOMAIN m.hist THEN Original(m) ELSE m.hist
  BY SMT DEF RestoredFromPending, ModelFields, Original
<1>3. n.pos = m.pend.pos /\ n.scope = m.pend.scope /\ n.uri = m.pend.uri
  BY SMT DEF RestoredFromPending, ModelFields
<1>4. n.phase = m.pend.phase /\ n.conn = m.pend.conn /\ n.out = {} /\ n.pend = None
  BY SMT DEF RestoredFromPending, ModelFields
<1>5. /\ n.gen = m.gen /\ n.nreq = m.nreq
      /\ n.nhid = m.nhid /\ n.commit = m.commit /\ n.retry = m.retry
  BY SMT DEF RestoredFromPending, ModelFields
<1> QED BY <1>1, <1>2, <1>3, <1>4, <1>5

\* A model with its navigation given up and the rest untouched.
FailsTo(m, n) ==
    /\ DOMAIN n = ModelFields
    /\ n.phase = "Failed" /\ n.conn = "Disconnected" /\ n.out = {} /\ n.subs = {}
    /\ n.hist = m.hist /\ n.pos = m.pos /\ n.scope = m.scope /\ n.uri = m.uri
    /\ n.pend = m.pend /\ n.gen = m.gen /\ n.nreq = m.nreq /\ n.nhid = m.nhid
    /\ n.commit = m.commit

\* The failure of an operation gives its navigation up.
LEMMA FailedFields ==
    ASSUME NEW m, DOMAIN m = ModelFields
    PROVE  LET n == [m EXCEPT !.phase = "Failed", !.conn = "Disconnected", !.out = {},
                       !.recon = None, !.subs = {}, !.psubs = {},
                       !.pcommit = None, !.presize = None]
           IN FailsTo(m, n) /\ n.retry = m.retry
<1> DEFINE n == [m EXCEPT !.phase = "Failed", !.conn = "Disconnected", !.out = {},
                       !.recon = None, !.subs = {}, !.psubs = {},
                       !.pcommit = None, !.presize = None]
<1>1. DOMAIN n = ModelFields
  BY Zenon
<1>2. n.phase = "Failed" /\ n.conn = "Disconnected" /\ n.out = {} /\ n.subs = {}
  BY SMT DEF ModelFields
<1>3. n.hist = m.hist /\ n.pos = m.pos /\ n.scope = m.scope /\ n.uri = m.uri
      /\ n.pend = m.pend
  BY SMT DEF ModelFields
<1>4. n.gen = m.gen /\ n.nreq = m.nreq /\ n.nhid = m.nhid
      /\ n.commit = m.commit /\ n.retry = m.retry
  BY SMT DEF ModelFields
<1> HIDE DEF n
<1>5. FailsTo(m, n)
  BY <1>1, <1>2, <1>3, <1>4 DEF FailsTo
<1> QED BY <1>4, <1>5 DEF n

\* A navigation that is given up retires its work and shows the error
\* page.
LEMMA FailsGood ==
    ASSUME NEW m, NEW r, Sound(m, r), Clears(r, m.scope), r.arts = Ids(m.hist),
           m.pend = None, NEW n, FailsTo(m, n), n.retry = None,
           NEW t \in Seq(Effects), AllPlain(t)
    PROVE  InvOf(n, r, (<<Fx("RetirePageWork", None, m.scope),
                          Fx("ActivateErrorPage", None, None)>> \o Render) \o t)
<1> DEFINE a == Fx("ActivateErrorPage", None, None)
           x == Fx("RetirePageWork", None, m.scope)
           r2 == Unheard(r, m.scope)
<1>0. m.scope \in Scopes
  BY DEF Sound, ModelType
<1>1. a \in Effects /\ a.e = "ActivateErrorPage" /\ x \in Effects
  BY <1>0, EffectOf, FxParts DEF Bare
<1>2. RuntimeType(r2) /\ Drained(r2) /\ r2.live = {} /\ r2.arts = r.arts
  BY Retired DEF Sound
<1> HIDE DEF r2
<1>3. ModelType(n)
  BY DEF FailsTo, Sound, ModelType, Conns
<1>4. Sound(n, r2)
  BY <1>2, <1>3 DEF Sound, FailsTo, LiveShown
<1>5. OneOK(n, r2, a)
  BY <1>1, <1>2 DEF OneOK, ErrorOK, FailsTo
<1> HIDE DEF a, x
<1>6. Good(n, r2, <<a>>)
  <2>1. InstalledBy(a) = {} /\ a.e # "ReleaseHistoryArtifact"
    BY <1>1 DEF InstalledBy
  <2>2. r2.arts = Ids(n.hist) \ InstalledBy(a)
    BY <2>1, <1>2 DEF FailsTo
  <2> QED BY <2>1, <2>2, <1>1, <1>4, <1>5, GoodSingle
<1>7. Render \in Seq(Effects) /\ Render \o t \in Seq(Effects) /\ AllPlain(Render \o t)
  BY Rendered
<1>8. Good(n, r2, <<a>> \o (Render \o t))
  BY <1>6, <1>7, PlainBehind
<1>9. <<a>> \in Seq(Effects) /\ <<x>> \in Seq(Effects) /\ <<x, a>> = <<x>> \o <<a>>
      /\ <<a>> \o Render \in Seq(Effects)
  BY <1>1, <1>7
<1>10. /\ (<<a>> \o Render) \o t = <<a>> \o (Render \o t)
       /\ <<x, a>> \o Render = <<x>> \o (<<a>> \o Render)
  BY <1>7, <1>9, Assoc
<1>11. InvOf(n, r, (<<x>> \o (<<a>> \o Render)) \o t)
  BY <1>0, <1>8, <1>9, <1>10, RetireNext DEF x, r2
<1> QED BY <1>10, <1>11 DEF a, x

\* Failing the current operation keeps the invariant: a restore goes back
\* to the page it left, any other navigation ends on the error page.
LEMMA FailGood ==
    ASSUME NEW m, NEW r, NEW o, Sound(m, r), m.retry = None, Owns(m, o),
           Clears(r, m.scope), r.arts = Ids(m.hist), m.pend = None \/ Pending(m, r),
           NEW t \in Seq(Effects), AllPlain(t)
    PROVE  LET f == fail_owned_operation(m, o) IN InvOf(f.v, r, f.fx \o t)
<1>0. m.scope = o.scope /\ m.scope \in Scopes /\ ModelType(m) /\ DOMAIN m = ModelFields
  BY DEF Owns, Sound, ModelType
<1>1. CASE m.pend = None
  <2> DEFINE n == [m EXCEPT !.phase = "Failed", !.conn = "Disconnected", !.out = {},
                       !.recon = None, !.subs = {}, !.psubs = {},
                       !.pcommit = None, !.presize = None]
             fx == <<Fx("RetirePageWork", None, o.scope),
                     Fx("ActivateErrorPage", None, None)>> \o Render
  <2>1. fail_owned_operation(m, o) = Ret(n, fx)
    BY <1>1 DEF fail_owned_operation
  <2>2. FailsTo(m, n) /\ n.retry = None
    BY <1>0, FailedFields
  <2> HIDE DEF n
  <2>3. InvOf(n, r, fx \o t)
    BY <1>0, <1>1, <2>2, FailsGood
  <2> QED BY <2>1, <2>3, RetParts
<1>2. CASE m.pend # None
  <2> DEFINE n == RestoredFromPending(m)
             x == Fx("RetirePageWork", None, o.scope)
             r2 == Unheard(r, m.scope)
  <2>0. Pending(m, r) /\ m.pend \in Pendings
    BY <1>0, <1>2 DEF ModelType
  <2>1. fail_owned_operation(m, o) = Ret(n, <<x>> \o Render)
    BY <1>0, <1>2, <2>0 DEF fail_owned_operation, Pending
  <2>2. /\ DOMAIN n = ModelFields
        /\ n.hist = IF m.pend.target \in DOMAIN m.hist THEN Original(m) ELSE m.hist
        /\ n.pos = m.pend.pos /\ n.scope = m.pend.scope /\ n.uri = m.pend.uri
        /\ n.phase = m.pend.phase /\ n.conn = m.pend.conn
        /\ n.out = {} /\ n.pend = None /\ n.gen = m.gen /\ n.nreq = m.nreq
        /\ n.nhid = m.nhid /\ n.commit = m.commit /\ n.retry = None
    BY <1>0, RestoredFields
  <2> HIDE DEF n
  <2>3. RuntimeType(r2) /\ Drained(r2) /\ r2.live = {} /\ r2.arts = r.arts
        /\ r2.shown = r.shown /\ r2.shifted = r.shifted
    BY Retired DEF Sound
  <2> HIDE DEF r2
  <2>4. /\ m.pend.pos \in Nat /\ m.pend.scope \in Scopes /\ m.pend.uri \in Pages
        /\ m.pend.entryScope \in Scopes /\ m.pend.phase \in {"Ready", "Failed"}
        /\ m.pend.conn \in Conns
    BY <2>0 DEF Pendings
  <2>5. /\ n.hist \in Seq(Entries) /\ DOMAIN n.hist = DOMAIN m.hist
        /\ \A j \in DOMAIN m.hist : n.hist[j].id = m.hist[j].id
    <3>1. CASE m.pend.target \in DOMAIN m.hist
      BY <3>1, <2>2, <2>4, <1>0, Rescoped DEF ModelType, Original
    <3>2. CASE m.pend.target \notin DOMAIN m.hist
      BY <3>2, <2>2, <1>0 DEF ModelType
    <3> QED BY <3>1, <3>2
  <2>6. Numbered(n.hist, n.nhid) /\ Ids(n.hist) = Ids(m.hist)
    BY <2>2, <2>5, SameNumbers DEF Sound
  <2>7. ModelType(n)
    BY <1>0, <2>2, <2>4, <2>5 DEF ModelType
  <2>8. Sound(n, r2)
    BY <2>2, <2>3, <2>4, <2>6, <2>7 DEF Sound, LiveShown
  <2>9. Settled(n, r2, {})
    <3>1. Accounted(n, r2, {})
      BY <2>2 DEF Accounted
    <3>2. Cursor(n, r2)
      BY <2>0, <2>2, <2>3 DEF Cursor, Pending, IsAt
    <3> QED BY <3>1, <3>2, <2>2, <2>4 DEF Settled
  <2>10. Good(n, r2, <<>>)
    BY <2>3, <2>6, <2>8, <2>9, GoodEmpty
  <2>11. Render \in Seq(Effects) /\ Render \o t \in Seq(Effects) /\ AllPlain(Render \o t)
    BY Rendered
  <2>12. <<>> \o (Render \o t) = Render \o t
    BY <2>11, Assoc
  <2>13. Good(n, r2, Render \o t)
    BY <2>10, <2>11, <2>12, PlainBehind
  <2>14. InvOf(n, r, (<<x>> \o Render) \o t)
    BY <1>0, <2>2, <2>11, <2>13, RetireNext DEF r2
  <2> QED BY <2>1, <2>14, RetParts
<1> QED BY <1>1, <1>2

-----------------------------------------------------------------------------
(* Navigations that start                                                  *)

\* When nothing is staged there is nothing to clear.
LEMMA DrainedClears ==
    ASSUME NEW r, Drained(r), NEW s
    PROVE  Clears(r, s)
  BY DEF Drained, NoPage, NoFrame, Clears, ClearScope

\* A new request takes the next number and is outstanding.
LEMMA RequestFields ==
    ASSUME NEW m, DOMAIN m = ModelFields
    PROVE  LET n == Request(m) IN
           /\ DOMAIN n = ModelFields
           /\ n.out = m.out \cup {m.nreq} /\ n.nreq = m.nreq + 1
           /\ n.phase = m.phase /\ n.conn = m.conn
           /\ n.hist = m.hist /\ n.pos = m.pos /\ n.scope = m.scope /\ n.uri = m.uri
           /\ n.pend = m.pend /\ n.gen = m.gen /\ n.nhid = m.nhid
           /\ n.commit = m.commit /\ n.retry = m.retry /\ n.recon = m.recon
           /\ n.subs = m.subs /\ n.psubs = m.psubs /\ n.presize = m.presize
<1> DEFINE n == Request(m)
<1>1. DOMAIN n = ModelFields
  BY Zenon DEF Request
<1>2. n.out = m.out \cup {m.nreq} /\ n.nreq = m.nreq + 1
  BY SMT DEF Request, ModelFields
<1>3. /\ n.hist = m.hist /\ n.pos = m.pos /\ n.scope = m.scope /\ n.uri = m.uri
      /\ n.phase = m.phase /\ n.conn = m.conn
  BY SMT DEF Request, ModelFields
<1>4. /\ n.pend = m.pend /\ n.gen = m.gen /\ n.nhid = m.nhid
      /\ n.commit = m.commit /\ n.retry = m.retry /\ n.recon = m.recon
      /\ n.subs = m.subs /\ n.psubs = m.psubs /\ n.presize = m.presize
  BY SMT DEF Request, ModelFields
<1> QED BY <1>1, <1>2, <1>3, <1>4

\* How a navigation leaves the current page: its work is retired, and the
\* connection closed when the origin differs.
Leaving(m, org) ==
    When(m.scope # None, <<Fx("RetirePageWork", None, m.scope)>>)
    \o When(m.scope # None /\ m.scope.org # org, <<Fx("Close", None, None)>>)

\* The scope of a navigation that starts.
BegunScope(m, page) == Scope(Origin(page), m.gen + 1)

\* What starting a navigation returns: leaving, then a connection and the
\* request on it.
LEMMA BeginIs ==
    ASSUME NEW m, NEW page, NEW commit
    PROVE  LET s == BegunScope(m, page)
               o == Owner(s, 1)
           IN begin_navigation(m, page, commit) =
                Ret(begin_navigation(m, page, commit).v,
                    Leaving(m, s.org) \o <<Fx("Connect", o, None), Fx("Fetch", o, page)>>)
<1> DEFINE s == BegunScope(m, page)
           o == Owner(s, 1)
           n0 == [m EXCEPT !.nreq = 1, !.gen = @ + 1, !.scope = s, !.uri = page,
                       !.phase = "Connecting", !.conn = "Connecting",
                       !.subs = {}, !.psubs = {}, !.out = {}, !.recon = None,
                       !.commit = commit, !.pend = None, !.pcommit = None,
                       !.presize = None, !.retry = None]
           fx == Leaving(m, s.org) \o <<Fx("Connect", o, None), Fx("Fetch", o, page)>>
<1>1. begin_navigation(m, page, commit) = Ret(Request(n0), fx)
  BY DEF begin_navigation, BegunScope, Leaving
<1> HIDE DEF n0, fx
<1>2. begin_navigation(m, page, commit).v = Request(n0)
  BY <1>1, RetParts
<1> QED BY <1>1, <1>2 DEF fx

\* What starting a navigation sets, field by field.
LEMMA BeginFields ==
    ASSUME NEW m, DOMAIN m = ModelFields, NEW page, NEW commit
    PROVE  LET n == begin_navigation(m, page, commit).v IN
           /\ DOMAIN n = ModelFields
           /\ n.out = {1} /\ n.nreq = 2
           /\ n.phase = "Connecting" /\ n.conn = "Connecting"
           /\ n.hist = m.hist /\ n.pos = m.pos /\ n.scope = BegunScope(m, page)
           /\ n.uri = page
           /\ n.pend = None /\ n.gen = m.gen + 1 /\ n.nhid = m.nhid
           /\ n.commit = commit /\ n.retry = None /\ n.recon = None
<1> DEFINE s == BegunScope(m, page)
           n0 == [m EXCEPT !.nreq = 1, !.gen = @ + 1, !.scope = s, !.uri = page,
                       !.phase = "Connecting", !.conn = "Connecting",
                       !.subs = {}, !.psubs = {}, !.out = {}, !.recon = None,
                       !.commit = commit, !.pend = None, !.pcommit = None,
                       !.presize = None, !.retry = None]
<1>1. begin_navigation(m, page, commit).v = Request(n0)
  BY RetParts DEF begin_navigation, BegunScope
<1>2. DOMAIN n0 = ModelFields
  BY Zenon
<1> HIDE DEF s
<1>3. n0.out = {} /\ n0.nreq = 1 /\ n0.phase = "Connecting" /\ n0.conn = "Connecting"
  BY SMT DEF ModelFields
<1>4. n0.hist = m.hist /\ n0.pos = m.pos /\ n0.scope = s /\ n0.uri = page
      /\ n0.pend = None
  BY SMT DEF ModelFields
<1>5. n0.gen = m.gen + 1 /\ n0.nhid = m.nhid /\ n0.commit = commit /\ n0.retry = None
      /\ n0.recon = None
  BY SMT DEF ModelFields
<1> HIDE DEF n0
<1>7. /\ DOMAIN Request(n0) = ModelFields
      /\ Request(n0).out = n0.out \cup {n0.nreq} /\ Request(n0).nreq = n0.nreq + 1
  BY <1>2, RequestFields
<1>8. /\ Request(n0).phase = n0.phase /\ Request(n0).conn = n0.conn
      /\ Request(n0).hist = n0.hist /\ Request(n0).pos = n0.pos
      /\ Request(n0).scope = n0.scope /\ Request(n0).uri = n0.uri
      /\ Request(n0).pend = n0.pend /\ Request(n0).gen = n0.gen /\ Request(n0).nhid = n0.nhid
      /\ Request(n0).commit = n0.commit /\ Request(n0).retry = n0.retry
      /\ Request(n0).recon = n0.recon
  BY <1>2, RequestFields
<1>9. Request(n0).out = {1} /\ Request(n0).nreq = 2
  BY <1>3, <1>7
<1> QED BY <1>1, <1>3, <1>4, <1>5, <1>7, <1>8, <1>9 DEF s

\* The first request of a new scope is the only one outstanding.
LEMMA FirstRequest ==
    ASSUME NEW n, n.out = {1}, n.nreq = 2, NEW r, r.live = {}, n.scope \in Scopes
    PROVE  LET o == Owner(n.scope, 1) IN
           /\ o \in Owners /\ o.req = 1 /\ o.scope = n.scope
           /\ Owns(n, o) /\ Accounted(n, r, {o.req})
           /\ \A k \in n.out : k < n.nreq
           /\ LiveShown(n, r) /\ n.out \subseteq Nat
<1>1. Owner(n.scope, 1) \in Owners /\ Owner(n.scope, 1).scope = n.scope /\ Owner(n.scope, 1).req = 1
  BY OwnerParts
<1> QED BY <1>1 DEF Owns, Accounted, LiveShown

\* A navigation that has just started is good.
LEMMA StartGood ==
    ASSUME NEW n, NEW r, ModelType(n), RuntimeType(r), Numbered(n.hist, n.nhid),
           n.phase = "Connecting", n.out = {1}, n.nreq = 2, n.pend = None, n.recon = None,
           Drained(r), r.live = {}, r.activated = None, r.arts = Ids(n.hist),
           NEW last \in {"Fetch", "Submit"}, NEW page \in Pages
    PROVE  LET o == Owner(n.scope, 1)
           IN Good(n, r, <<Fx("Connect", o, None), Fx(last, o, page)>>)
<1> DEFINE o == Owner(n.scope, 1)
           a == Fx("Connect", o, None)
           b == Fx(last, o, page)
<1>1. n.scope \in Scopes
  BY DEF ModelType
<1>2. /\ o \in Owners /\ Owns(n, o) /\ Accounted(n, r, {o.req})
      /\ \A k \in n.out : k < n.nreq
      /\ LiveShown(n, r)
  BY <1>1, FirstRequest
<1>3. Sound(n, r)
  BY <1>2 DEF Sound
<1> HIDE DEF o
<1>4. a \in Effects /\ a.e = "Connect" /\ a.o = o /\ b \in Effects /\ b.e = last /\ b.o = o
  BY <1>2, EffectOf, FxParts DEF OwnedBare
<1> HIDE DEF a, b
<1>5. PairOK(n, r, a, b)
  BY <1>2, <1>4 DEF PairOK
<1>6. Good(n, r, <<a, b>>)
  BY <1>3, <1>4, <1>5, GoodDouble
<1> QED BY <1>6 DEF a, b, o

\* Leaving a page keeps the invariant when what follows is good once the
\* page's work is retired.
LEMMA LeaveGood ==
    ASSUME NEW m, m.scope \in Scopes, NEW r, NEW n, n.retry = None, NEW org,
           NEW f \in Seq(Effects), Good(n, Unheard(r, m.scope), f),
           NEW t \in Seq(Effects), AllPlain(t)
    PROVE  InvOf(n, r, (Leaving(m, org) \o f) \o t)
<1> DEFINE x == Fx("RetirePageWork", None, m.scope)
           c == Fx("Close", None, None)
           r2 == Unheard(r, m.scope)
<1>1. x \in Effects /\ c \in Effects /\ c.e = "Close"
  BY EffectOf, FxParts DEF Bare
<1>2. m.scope # None
  BY NoneAssumption
<1>3. Good(n, r2, f \o t) /\ f \o t \in Seq(Effects)
  BY PlainBehind
<1> HIDE DEF r2
<1>4. CASE m.scope.org # org
  <2>1. Leaving(m, org) = <<x>> \o <<c>>
    BY <1>2, <1>4 DEF Leaving, When
  <2> HIDE DEF x, c
  <2>2. Good(n, r2, <<c>> \o (f \o t))
    BY <1>1, <1>3, PlainBefore
  <2>3. <<c>> \in Seq(Effects) /\ <<x>> \in Seq(Effects) /\ <<c>> \o f \in Seq(Effects)
    BY <1>1
  <2>4. (<<c>> \o f) \o t = <<c>> \o (f \o t) /\ (<<x>> \o <<c>>) \o f = <<x>> \o (<<c>> \o f)
    BY <2>3, Assoc
  <2>5. InvOf(n, r, (<<x>> \o (<<c>> \o f)) \o t)
    BY <2>2, <2>3, <2>4, RetireNext DEF x, r2
  <2> QED BY <2>1, <2>4, <2>5
<1>5. CASE ~(m.scope.org # org)
  <2>1. Leaving(m, org) = <<x>> \o <<>>
    BY <1>2, <1>5 DEF Leaving, When
  <2> HIDE DEF x, c
  <2>2. <<x>> \in Seq(Effects) /\ <<>> \in Seq(Effects)
    BY <1>1
  <2>3. (<<x>> \o <<>>) \o f = <<x>> \o (<<>> \o f) /\ <<>> \o f = f
    BY <2>2, Assoc
  <2>4. InvOf(n, r, (<<x>> \o f) \o t)
    BY <1>3, RetireNext DEF x, r2
  <2> QED BY <2>1, <2>3, <2>4
<1> QED BY <1>4, <1>5

\* What leaving a page queues are effects.
LEMMA LeavingType ==
    ASSUME NEW m, m.scope \in Scopes \cup {None}, NEW org
    PROVE  Leaving(m, org) \in Seq(Effects)
<1> DEFINE x == Fx("RetirePageWork", None, m.scope)
           c == Fx("Close", None, None)
<1>1. c \in Effects /\ (m.scope # None => x \in Effects)
  BY EffectOf DEF Bare
<1> HIDE DEF x, c
<1>2. <<c>> \in Seq(Effects) /\ (m.scope # None => <<x>> \in Seq(Effects)) /\ <<>> \in Seq(Effects)
  BY <1>1
<1> QED BY <1>2, ConcatAt DEF Leaving, When, x, c

\* A navigation, or a form, that starts with nothing staged keeps the
\* invariant.
LEMMA BeginGood ==
    ASSUME NEW m, NEW r, Sound(m, r), Drained(r), r.activated = None, r.arts = Ids(m.hist),
           NEW page \in Pages, NEW commit \in CommitKinds, NEW last \in {"Fetch", "Submit"},
           NEW t \in Seq(Effects), AllPlain(t)
    PROVE  LET n == begin_navigation(m, page, commit).v
               s == BegunScope(m, page)
               o == Owner(s, 1)
           IN InvOf(n, r, (Leaving(m, s.org) \o <<Fx("Connect", o, None), Fx(last, o, page)>>) \o t)
<1> DEFINE n == begin_navigation(m, page, commit).v
           s == BegunScope(m, page)
           o == Owner(s, 1)
           r2 == Unheard(r, m.scope)
<1>1. ModelType(m) /\ m.scope \in Scopes /\ m.gen \in Nat /\ DOMAIN m = ModelFields
  BY DEF Sound, ModelType
<1>2. /\ DOMAIN n = ModelFields
      /\ n.out = {1} /\ n.nreq = 2
      /\ n.phase = "Connecting" /\ n.conn = "Connecting"
      /\ n.hist = m.hist /\ n.pos = m.pos /\ n.scope = s /\ n.uri = page
      /\ n.pend = None /\ n.gen = m.gen + 1 /\ n.nhid = m.nhid
      /\ n.commit = commit /\ n.retry = None /\ n.recon = None
  BY <1>1, BeginFields
<1> HIDE DEF n
<1>3. s \in Scopes
  BY <1>1, ScopeParts DEF BegunScope
<1>4. ModelType(n)
  BY <1>1, <1>2, <1>3 DEF ModelType, Conns
<1>5. Numbered(n.hist, n.nhid)
  BY <1>2 DEF Sound
<1>6. RuntimeType(r2) /\ Drained(r2) /\ r2.live = {} /\ r2.arts = r.arts /\ r2.activated = None
  BY Retired, DrainedClears DEF Sound
<1> HIDE DEF r2
<1> DEFINE f == <<Fx("Connect", o, None), Fx(last, o, page)>>
<1>7. Good(n, r2, f)
  <2>1. r2.arts = Ids(n.hist)
    BY <1>2, <1>6
  <2> QED BY <1>2, <1>4, <1>5, <1>6, <2>1, StartGood
<1>8. f \in Seq(Effects)
  BY <1>7 DEF Good
<1> HIDE DEF f
<1>9. InvOf(n, r, (Leaving(m, s.org) \o f) \o t)
  <2> HIDE DEF s
  <2> QED BY <1>1, <1>2, <1>7, <1>8, LeaveGood DEF r2
<1> QED BY <1>9 DEF n, f

\* A navigation that starts with nothing staged keeps the invariant.
LEMMA NavigateGood ==
    ASSUME NEW m, NEW r, Sound(m, r), Drained(r), r.activated = None, r.arts = Ids(m.hist),
           NEW page \in Pages, NEW commit \in CommitKinds,
           NEW t \in Seq(Effects), AllPlain(t)
    PROVE  LET b == begin_navigation(m, page, commit) IN InvOf(b.v, r, b.fx \o t)
<1> DEFINE n == begin_navigation(m, page, commit).v
           s == BegunScope(m, page)
           o == Owner(s, 1)
           f == Leaving(m, s.org) \o <<Fx("Connect", o, None), Fx("Fetch", o, page)>>
<1>1. begin_navigation(m, page, commit) = Ret(n, f)
  BY BeginIs
<1>2. InvOf(n, r, f \o t)
  BY BeginGood
<1> HIDE DEF n, f
<1>3. begin_navigation(m, page, commit).fx = f
  BY <1>1, RetParts
<1> QED BY <1>2, <1>3 DEF n

-----------------------------------------------------------------------------
(* Forms, the first page and the entries of history                        *)

\* The request of a navigation, turned into the submission of a form.
AsSubmit(s, k) == [s EXCEPT ![k].e = "Submit"]

\* The same inside the answer of the reducer.
Submitting(b, k) == [b EXCEPT !.fx[k].e = "Submit"]

\* A queue that ends in two effects.
Ending(L, a, b) == L \o <<a, b>>

\* Turning the last effect into a submission changes only that one.
LEMMA Resent ==
    ASSUME NEW L \in Seq(Effects), NEW a \in Effects,
           NEW b \in Effects, [b EXCEPT !.e = "Submit"] \in Effects
    PROVE  AsSubmit(Ending(L, a, b), Len(Ending(L, a, b))) =
                Ending(L, a, [b EXCEPT !.e = "Submit"])
<1> DEFINE c == [b EXCEPT !.e = "Submit"]
           s == L \o <<a, b>>
           g == L \o <<a, c>>
           f == [s EXCEPT ![Len(s)] = c]
<1>0. c = [b EXCEPT !.e = "Submit"] /\ c \in Effects
  OBVIOUS
<1> HIDE DEF c
<1>2. s \in Seq(Effects) /\ g \in Seq(Effects) /\ Len(s) = Len(L) + 2 /\ Len(g) = Len(L) + 2
      /\ Len(L) \in Nat
  BY <1>0
<1>3. \A i \in 1 .. Len(L) + 2 : /\ s[i] = IF i <= Len(L) THEN L[i] ELSE <<a, b>>[i - Len(L)]
                                 /\ g[i] = IF i <= Len(L) THEN L[i] ELSE <<a, c>>[i - Len(L)]
  BY <1>0, <1>2
<1>4. Len(s) \in DOMAIN s /\ s[Len(s)] = b
  <2>1. Len(s) \in 1 .. Len(L) + 2 /\ ~(Len(s) <= Len(L)) /\ Len(s) - Len(L) = 2
    BY <1>2
  <2>2. <<a, b>>[2] = b
    OBVIOUS
  <2> QED BY <1>2, <1>3, <2>1, <2>2
<1>5. AsSubmit(s, Len(s)) = f
  BY <1>0, <1>4 DEF AsSubmit
<1>6. f \in Seq(Effects) /\ Len(f) = Len(L) + 2
  BY <1>0, <1>2
<1>7. \A i \in 1 .. Len(L) + 2 : f[i] = g[i]
  <2> SUFFICES ASSUME NEW i \in 1 .. Len(L) + 2 PROVE f[i] = g[i]
    OBVIOUS
  <2>1. CASE i = Len(L) + 2
    <3>1. g[i] = <<a, c>>[2]
      BY <2>1, <1>2, <1>3
    <3>2. f[i] = c
      BY <2>1, <1>2, <1>4
    <3> QED BY <3>1, <3>2
  <2>2. CASE i # Len(L) + 2
    <3>1. f[i] = s[i]
      <4>1. DOMAIN s = 1 .. Len(L) + 2 /\ i # Len(s)
        BY <2>2, <1>2
      <4> HIDE DEF s
      <4> QED BY <4>1
    <3>2. CASE i <= Len(L)
      BY <3>1, <3>2, <1>3
    <3>3. CASE ~(i <= Len(L))
      <4>1. i - Len(L) = 1
        BY <2>2, <3>3, <1>2
      <4> QED BY <3>1, <3>3, <4>1, <1>3
    <3> QED BY <3>2, <3>3
  <2> QED BY <2>1, <2>2
<1>8. f = g
  <2> HIDE DEF f, g, s
  <2> QED BY <1>2, <1>6, <1>7, SeqEqual
<1> HIDE DEF s, g
<1> QED BY <1>0, <1>5, <1>8 DEF s, g, Ending

\* A form submitted with nothing staged keeps the invariant.
LEMMA FormGood ==
    ASSUME NEW m, NEW r, Sound(m, r), Drained(r), r.activated = None, r.arts = Ids(m.hist),
           NEW page \in Pages,
           NEW t \in Seq(Effects), AllPlain(t)
    PROVE  LET b == FormSubmitted(m, page)
           IN b.fx \in Seq(Effects) /\ InvOf(b.v, r, b.fx \o t)
<1> DEFINE n == begin_navigation(m, page, "Append").v
           s == BegunScope(m, page)
           o == Owner(s, 1)
           c == Fx("Connect", o, None)
           L == Leaving(m, s.org)
           f == L \o <<c, Fx("Fetch", o, page)>>
           g == L \o <<c, Fx("Submit", o, page)>>
<1>1. begin_navigation(m, page, "Append") = Ret(n, f)
  BY BeginIs
<1>2. InvOf(n, r, g \o t)
  BY BeginGood DEF CommitKinds
<1>3. m.scope \in Scopes /\ m.gen \in Nat
  BY DEF Sound, ModelType
<1>4. o \in Owners
  BY <1>3, ScopeParts, OwnerParts DEF BegunScope
<1>5. c \in Effects /\ Fx("Fetch", o, page) \in Effects /\ Fx("Submit", o, page) \in Effects
  BY <1>4, EffectOf DEF OwnedBare
<1>6. L \in Seq(Effects)
  BY <1>3, LeavingType
<1> HIDE DEF n, c, L, o
<1> DEFINE x == Fx("Fetch", o, page)
           y == Fx("Submit", o, page)
<1>0. f = Ending(L, c, x) /\ g = Ending(L, c, y) /\ y = [x EXCEPT !.e = "Submit"]
  BY DEF Fx, Ending
<1>11. x \in Effects /\ y \in Effects
  BY <1>5
<1> HIDE DEF x, y
<1>12. g \in Seq(Effects)
  BY <1>0, <1>5, <1>6, <1>11 DEF Ending
<1> HIDE DEF f, g
<1>7. AsSubmit(f, Len(f)) = g
  BY <1>0, <1>5, <1>6, <1>11, Resent
<1> DEFINE b == begin_navigation(m, page, "Append")
<1>8. FormSubmitted(m, page) = Submitting(b, Len(b.fx))
  BY DEF FormSubmitted, Submitting
<1>9. Submitting(Ret(n, f), Len(f)) = Ret(n, AsSubmit(f, Len(f)))
  <2>1. DOMAIN Ret(n, f) = {"v", "fx"} /\ Ret(n, f).v = n /\ Ret(n, f).fx = f
    BY DEF Ret
  <2> DEFINE z == Ret(n, f)
             w == Submitting(z, Len(f))
  <2>2. w = [z EXCEPT !.fx = AsSubmit(z.fx, Len(f))]
    BY Zenon DEF Submitting, AsSubmit
  <2> QED BY <2>1, <2>2 DEF Ret
<1> HIDE DEF b
<1>10. FormSubmitted(m, page) = Ret(n, g)
  BY <1>1, <1>7, <1>8, <1>9, RetParts DEF b
<1> QED BY <1>2, <1>10, <1>12, RetParts

\* The navigation the program starts with satisfies the invariant.
LEMMA InitGood ==
    ASSUME NEW page \in Pages
    PROVE  LET b == Navigate(InitialModel, page) IN InvOf(b.v, InitialRuntime, b.fx)
<1> DEFINE m == InitialModel
           n == begin_navigation(m, page, "Append").v
           s == BegunScope(m, page)
           o == Owner(s, 1)
           c == <<Fx("Connect", o, None), Fx("Fetch", o, page)>>
           r == InitialRuntime
<1>1. DOMAIN m = ModelFields
  BY DEF InitialModel, ModelFields
<1>2. m.scope = None /\ m.hist = <<>> /\ m.pos = 0 /\ m.gen = 0 /\ m.nhid = 1
  BY DEF InitialModel
<1> HIDE DEF m
<1>3. Leaving(m, s.org) = <<>> \o <<>>
  BY <1>2 DEF Leaving, When
<1>4. /\ DOMAIN n = ModelFields
      /\ n.out = {1} /\ n.nreq = 2
      /\ n.phase = "Connecting" /\ n.conn = "Connecting"
      /\ n.hist = m.hist /\ n.pos = m.pos /\ n.scope = s
      /\ n.uri = page
      /\ n.pend = None /\ n.gen = m.gen + 1 /\ n.nhid = m.nhid
      /\ n.commit = "Append" /\ n.retry = None /\ n.recon = None
  BY <1>1, BeginFields
<1>5. begin_navigation(m, page, "Append") = Ret(n, Leaving(m, s.org) \o c)
  BY BeginIs
<1> HIDE DEF n
<1>6. s \in Scopes
  BY <1>2, ScopeParts DEF BegunScope
<1> HIDE DEF s
<1>7. n.hist \in Seq(Entries) /\ Numbered(n.hist, n.nhid) /\ Ids(n.hist) = {}
  BY <1>2, <1>4 DEF Numbered, Ids
<1>8. ModelType(n)
  BY <1>2, <1>4, <1>6, <1>7 DEF ModelType, Conns, CommitKinds
<1>9. /\ DOMAIN r = RuntimeFields /\ r.trust = None /\ r.live = {} /\ r.kept = {} /\ r.deferred = None
      /\ r.activated = None /\ r.arts = {} /\ r.shifted = FALSE /\ Drained(r)
  BY DEF InitialRuntime, RuntimeFields, Drained, NoPage, NoFrame
<1> HIDE DEF r
<1>10. RuntimeType(r)
  BY <1>9 DEF RuntimeType
<1>11. Good(n, r, c)
  BY <1>4, <1>7, <1>8, <1>9, <1>10, StartGood
<1> HIDE DEF c
<1>12. c \in Seq(Effects)
  BY <1>11 DEF Good
<1>13. Leaving(m, s.org) \o c = c
  <2>1. <<>> \o <<>> = <<>> /\ <<>> \o c = c
    BY <1>12, ConcatEmptySeq, EmptySeq
  <2> QED BY <1>3, <2>1
<1>14. Navigate(m, page).v = n /\ Navigate(m, page).fx = c
  BY <1>5, <1>13, RetParts DEF Navigate
<1>15. InvOf(n, r, c)
  BY <1>4, <1>11, <1>12 DEF InvOf, AsIs
<1> QED BY <1>14, <1>15 DEF m, r

\* The scope of a restored entry.
ActivatedScope(m, i) == Scope(m.hist[i].scope.org, m.gen + 1)

\* The model with a restore under way.
ActivatedModel(m, i) ==
    LET e == m.hist[i]
        s == ActivatedScope(m, i)
    IN [m EXCEPT !.nreq = 1,
                 !.gen = @ + 1, !.scope = s, !.uri = e.uri,
                 !.hist[i].scope = s, !.phase = "Parsing",
                 !.conn = IF m.scope # None /\ m.scope.org # s.org THEN "Disconnected" ELSE @,
                 !.subs = {}, !.psubs = {}, !.out = {}, !.recon = None,
                 !.pcommit = None, !.presize = None,
                 !.pend = [target |-> i, gen |-> m.gen + 1,
                           entryScope |-> e.scope, pos |-> m.pos,
                           scope |-> m.scope, uri |-> m.uri,
                           phase |-> m.phase, conn |-> m.conn]]

\* What restoring an entry returns: leaving, then the entry shown from the
\* cache.
LEMMA ActivateIs ==
    ASSUME NEW m, NEW i \in DOMAIN m.hist
    PROVE  LET s == ActivatedScope(m, i)
               o == Owner(s, 1)
           IN activate_history_entry(m, i) =
                Ret(Request(ActivatedModel(m, i)),
                    Leaving(m, s.org)
                    \o <<Fx("ActivateCachedHistory", o, [m.hist[i] EXCEPT !.scope = s])>>)
  BY DEF activate_history_entry, ActivatedScope, ActivatedModel, Leaving

\* What restoring an entry sets, field by field.
LEMMA ActivatedFields ==
    ASSUME NEW m, DOMAIN m = ModelFields, NEW i
    PROVE  LET n == Request(ActivatedModel(m, i)) IN
           /\ DOMAIN n = ModelFields
           /\ n.out = {1} /\ n.nreq = 2 /\ n.phase = "Parsing"
           /\ n.conn \in {m.conn, "Disconnected"}
           /\ n.hist = [m.hist EXCEPT ![i].scope = ActivatedScope(m, i)] /\ n.pos = m.pos
           /\ n.scope = ActivatedScope(m, i)
           /\ n.uri = m.hist[i].uri
           /\ n.pend = [target |-> i, gen |-> m.gen + 1,
                           entryScope |-> m.hist[i].scope, pos |-> m.pos,
                           scope |-> m.scope, uri |-> m.uri,
                           phase |-> m.phase, conn |-> m.conn]
           /\ n.gen = m.gen + 1 /\ n.nhid = m.nhid
           /\ n.commit = m.commit /\ n.retry = m.retry
<1> DEFINE n0 == ActivatedModel(m, i)
<1>1. DOMAIN n0 = ModelFields
  BY Zenon DEF ActivatedModel
<1>2. n0.out = {} /\ n0.nreq = 1 /\ n0.phase = "Parsing"
  BY SMT DEF ModelFields, ActivatedModel
<1>3. n0.conn = IF m.scope # None /\ m.scope.org # ActivatedScope(m, i).org
                THEN "Disconnected" ELSE m.conn
  BY SMT DEF ModelFields, ActivatedModel
<1>4. n0.hist = [m.hist EXCEPT ![i].scope = ActivatedScope(m, i)]
  BY SMT DEF ModelFields, ActivatedModel
<1>5. n0.pos = m.pos /\ n0.scope = ActivatedScope(m, i) /\ n0.uri = m.hist[i].uri
  BY SMT DEF ModelFields, ActivatedModel
<1>6. n0.pend = [target |-> i, gen |-> m.gen + 1,
                           entryScope |-> m.hist[i].scope, pos |-> m.pos,
                           scope |-> m.scope, uri |-> m.uri,
                           phase |-> m.phase, conn |-> m.conn]
  BY SMT DEF ModelFields, ActivatedModel
<1>7. n0.gen = m.gen + 1 /\ n0.nhid = m.nhid /\ n0.commit = m.commit /\ n0.retry = m.retry
  BY SMT DEF ModelFields, ActivatedModel
<1> HIDE DEF n0
<1>8. /\ DOMAIN Request(n0) = ModelFields
      /\ Request(n0).out = n0.out \cup {n0.nreq} /\ Request(n0).nreq = n0.nreq + 1
  BY <1>1, RequestFields
<1>9. /\ Request(n0).phase = n0.phase /\ Request(n0).conn = n0.conn
      /\ Request(n0).hist = n0.hist /\ Request(n0).pos = n0.pos
      /\ Request(n0).scope = n0.scope /\ Request(n0).uri = n0.uri
      /\ Request(n0).pend = n0.pend /\ Request(n0).gen = n0.gen /\ Request(n0).nhid = n0.nhid
      /\ Request(n0).commit = n0.commit /\ Request(n0).retry = n0.retry
  BY <1>1, RequestFields
<1>10. Request(n0).out = {1} /\ Request(n0).nreq = 2
  BY <1>2, <1>8
<1> QED BY <1>2, <1>3, <1>4, <1>5, <1>6, <1>7, <1>8, <1>9, <1>10 DEF n0

\* A restore that starts with nothing staged keeps the invariant: its way
\* back is written down.
LEMMA ActivateGood ==
    ASSUME NEW m, NEW r, Sound(m, r), Drained(r), r.activated = None, r.arts = Ids(m.hist),
           m.phase \in {"Ready", "Failed"}, Cursor(m, r), m.retry = None,
           NEW i \in DOMAIN m.hist,
           NEW t \in Seq(Effects), AllPlain(t)
    PROVE  LET b == activate_history_entry(m, i)
           IN b.fx \in Seq(Effects) /\ InvOf(b.v, r, b.fx \o t)
<1> DEFINE n == Request(ActivatedModel(m, i))
           s == ActivatedScope(m, i)
           o == Owner(s, 1)
           e == [m.hist[i] EXCEPT !.scope = s]
           a == Fx("ActivateCachedHistory", o, e)
           r2 == Unheard(r, m.scope)
<1>1. activate_history_entry(m, i) = Ret(n, Leaving(m, s.org) \o <<a>>)
  BY ActivateIs
<1>2. ModelType(m) /\ m.scope \in Scopes /\ m.gen \in Nat /\ DOMAIN m = ModelFields
      /\ m.hist \in Seq(Entries) /\ m.hist[i] \in Entries
  BY DEF Sound, ModelType
<1>3. /\ DOMAIN n = ModelFields
      /\ n.out = {1} /\ n.nreq = 2 /\ n.phase = "Parsing"
      /\ n.conn \in {m.conn, "Disconnected"}
      /\ n.hist = [m.hist EXCEPT ![i].scope = s] /\ n.pos = m.pos
      /\ n.scope = s /\ n.uri = m.hist[i].uri
      /\ n.pend = [target |-> i, gen |-> m.gen + 1,
                   entryScope |-> m.hist[i].scope, pos |-> m.pos,
                   scope |-> m.scope, uri |-> m.uri,
                   phase |-> m.phase, conn |-> m.conn]
      /\ n.gen = m.gen + 1 /\ n.nhid = m.nhid
      /\ n.commit = m.commit /\ n.retry = m.retry
  BY <1>2, ActivatedFields
<1>4. s \in Scopes /\ s.gen = m.gen + 1
  <2>1. m.hist[i].scope \in Scopes
    BY <1>2 DEF Entries
  <2>2. \E p \in Pages : m.hist[i].scope.org = Origin(p)
    BY <2>1 DEF Scopes
  <2>3. PICK p \in Pages : s = Scope(Origin(p), m.gen + 1)
    BY <2>2 DEF ActivatedScope
  <2> HIDE DEF s
  <2>4. m.gen + 1 \in Nat
    BY <1>2
  <2> QED BY <2>3, <2>4, ScopeParts
<1>5. e \in Entries /\ e.uri = m.hist[i].uri
  BY <1>2, <1>4 DEF Entries
<1> HIDE DEF n, s, e
<1>6. /\ n.hist \in Seq(Entries) /\ DOMAIN n.hist = DOMAIN m.hist
      /\ \A j \in DOMAIN m.hist : /\ n.hist[j].id = m.hist[j].id
                                  /\ n.hist[j].uri = m.hist[j].uri
                                  /\ n.hist[j].scope = IF j = i THEN s ELSE m.hist[j].scope
  BY <1>2, <1>3, <1>4, Rescoped
<1>7. Numbered(n.hist, n.nhid) /\ Ids(n.hist) = Ids(m.hist)
  <2>1. Numbered(m.hist, n.nhid)
    BY <1>3 DEF Sound
  <2>2. DOMAIN n.hist = DOMAIN m.hist /\ \A j \in DOMAIN m.hist : n.hist[j].id = m.hist[j].id
    BY <1>6
  <2> QED BY <2>1, <2>2, SameNumbers
<1>8. i \in Nat /\ m.pos \in Nat /\ m.uri \in Pages /\ m.conn \in Conns /\ m.hist[i].scope \in Scopes
      /\ m.hist[i].uri \in Pages
  BY <1>2 DEF ModelType, Entries
<1>9. n.pend \in Pendings /\ n.pend # None
  <2>1. n.pend \in Pendings
    BY <1>2, <1>3, <1>8 DEF Pendings
  <2> QED BY <2>1, NoneAssumption
<1>10. ModelType(n)
  BY <1>2, <1>3, <1>4, <1>6, <1>8, <1>9 DEF ModelType, Conns
<1>11. RuntimeType(r2) /\ Drained(r2) /\ r2.live = {} /\ r2.arts = r.arts /\ r2.activated = None
       /\ r2.shown = r.shown /\ r2.shifted = r.shifted
  <2>1. RuntimeType(r) /\ LiveShown(m, r)
    BY DEF Sound
  <2>2. Clears(r, m.scope)
    BY DrainedClears
  <2> QED BY <2>1, <2>2, Retired
<1> HIDE DEF r2
<1>12. /\ o \in Owners /\ Owns(n, o) /\ Accounted(n, r2, {o.req})
       /\ \A k \in n.out : k < n.nreq
       /\ LiveShown(n, r2)
  BY <1>3, <1>4, <1>11, FirstRequest
<1>13. Sound(n, r2)
  BY <1>3, <1>7, <1>10, <1>11, <1>12 DEF Sound
<1>14. Pending(n, r2)
  <2>1. n.pend.gen = n.scope.gen /\ n.pend.target = i /\ n.pend.pos = m.pos
        /\ n.pend.entryScope = m.hist[i].scope
    BY <1>3, <1>4
  <2>2. IsAt(n.hist, i, n.scope, n.uri)
    BY <1>3, <1>6 DEF IsAt
  <2>3. /\ DOMAIN Original(n) = DOMAIN m.hist
        /\ \A j \in DOMAIN m.hist : /\ Original(n)[j].uri = m.hist[j].uri
                                    /\ Original(n)[j].scope = m.hist[j].scope
    <3> DEFINE g == n.hist
    <3>1. g \in Seq(Entries) /\ i \in DOMAIN g
      BY <1>6
    <3>2. Original(n) = [g EXCEPT ![i].scope = m.hist[i].scope]
      BY <2>1 DEF Original
    <3> HIDE DEF g
    <3>3. /\ DOMAIN Original(n) = DOMAIN g
          /\ \A j \in DOMAIN g : /\ Original(n)[j].uri = g[j].uri
                                 /\ Original(n)[j].scope = IF j = i THEN m.hist[i].scope ELSE g[j].scope
      BY <3>1, <3>2, <1>8, Rescoped
    <3> QED BY <3>3, <1>6 DEF g
  <2>4. (~r2.shifted /\ r2.shown.what = "page") =>
            IsAt(Original(n), n.pend.pos, r2.shown.scope, r2.shown.uri)
    BY <2>1, <2>3, <1>11 DEF Cursor, IsAt
  <2> QED BY <2>1, <2>2, <2>4, <1>9 DEF Pending
<1> HIDE DEF o
<1>15. a \in Effects /\ a.e = "ActivateCachedHistory" /\ a.o = o /\ a.x = e
  BY <1>5, <1>12, EffectOf, FxParts
<1> HIDE DEF a
<1>16. OneOK(n, r2, a)
  BY <1>3, <1>5, <1>11, <1>12, <1>14, <1>15 DEF OneOK, NavOK, NavSteps
<1>17. Good(n, r2, <<a>>)
  <2>1. InstalledBy(a) = {} /\ a.e # "ReleaseHistoryArtifact"
    BY <1>15 DEF InstalledBy
  <2>2. r2.arts = Ids(n.hist) \ InstalledBy(a)
    BY <2>1, <1>7, <1>11
  <2> QED BY <2>1, <2>2, <1>13, <1>15, <1>16, GoodSingle
<1>18. <<a>> \in Seq(Effects)
  BY <1>15
<1>19. InvOf(n, r, (Leaving(m, s.org) \o <<a>>) \o t)
  <2> DEFINE f == <<a>>
  <2>1. f \in Seq(Effects) /\ Good(n, Unheard(r, m.scope), f)
    BY <1>17, <1>18 DEF r2
  <2> HIDE DEF f
  <2>2. m.scope \in Scopes /\ n.retry = None
    BY <1>2, <1>3
  <2>3. InvOf(n, r, (Leaving(m, s.org) \o f) \o t)
    BY <2>1, <2>2, LeaveGood
  <2> QED BY <2>3 DEF f
<1>20. Leaving(m, s.org) \o <<a>> \in Seq(Effects)
  <2> DEFINE f == <<a>>
             L == Leaving(m, s.org)
  <2>1. f \in Seq(Effects) /\ L \in Seq(Effects)
    BY <1>2, <1>18, LeavingType
  <2> HIDE DEF f, L
  <2>2. L \o f \in Seq(Effects)
    BY <2>1
  <2> QED BY <2>2 DEF f, L
<1> QED BY <1>1, <1>19, <1>20, RetParts

-----------------------------------------------------------------------------
(* Updates of the records: n is m but for the fields F                     *)

\* n is m but for the fields F.
Else(m, n, F) == /\ DOMAIN n = ModelFields
                 /\ \A f \in ModelFields \ F : n[f] = m[f]

\* The same, field by field.
LEMMA ElseParts ==
    ASSUME NEW m, NEW n, NEW F, Else(m, n, F)
    PROVE  /\ DOMAIN n = ModelFields
           /\ "phase" \notin F => n.phase = m.phase
           /\ "scope" \notin F => n.scope = m.scope
           /\ "uri" \notin F => n.uri = m.uri
           /\ "conn" \notin F => n.conn = m.conn
           /\ "hist" \notin F => n.hist = m.hist
           /\ "pos" \notin F => n.pos = m.pos
           /\ "out" \notin F => n.out = m.out
           /\ "subs" \notin F => n.subs = m.subs
           /\ "psubs" \notin F => n.psubs = m.psubs
           /\ "gen" \notin F => n.gen = m.gen
           /\ "nreq" \notin F => n.nreq = m.nreq
           /\ "nhid" \notin F => n.nhid = m.nhid
           /\ "recon" \notin F => n.recon = m.recon
           /\ "commit" \notin F => n.commit = m.commit
           /\ "pend" \notin F => n.pend = m.pend
           /\ "pcommit" \notin F => n.pcommit = m.pcommit
           /\ "presize" \notin F => n.presize = m.presize
           /\ "retry" \notin F => n.retry = m.retry
<1>1. \A f \in ModelFields \ F : n[f] = m[f]
  BY DEF Else
<1>2. /\ "phase" \in ModelFields /\ "scope" \in ModelFields /\ "uri" \in ModelFields
      /\ "conn" \in ModelFields /\ "hist" \in ModelFields /\ "pos" \in ModelFields
      /\ "out" \in ModelFields /\ "subs" \in ModelFields /\ "psubs" \in ModelFields
      /\ "gen" \in ModelFields /\ "nreq" \in ModelFields /\ "nhid" \in ModelFields
      /\ "recon" \in ModelFields /\ "commit" \in ModelFields /\ "pend" \in ModelFields
      /\ "pcommit" \in ModelFields /\ "presize" \in ModelFields /\ "retry" \in ModelFields
  BY DEF ModelFields
<1> QED BY <1>1, <1>2 DEF Else

\* Two updates, one after the other.
LEMMA ElseTwice ==
    ASSUME NEW m, NEW n, NEW p, NEW F, NEW G, Else(m, n, F), Else(n, p, G)
    PROVE  Else(m, p, F \cup G)
  BY DEF Else

\* s is r but for the fields F.
ElseR(r, n, F) == /\ DOMAIN n = RuntimeFields
                  /\ \A f \in RuntimeFields \ F : n[f] = r[f]

\* The same, field by field.
LEMMA ElseRParts ==
    ASSUME NEW r, NEW n, NEW F, ElseR(r, n, F)
    PROVE  /\ DOMAIN n = RuntimeFields
           /\ "shown" \notin F => n.shown = r.shown
           /\ "fetched" \notin F => n.fetched = r.fetched
           /\ "parsed" \notin F => n.parsed = r.parsed
           /\ "nav" \notin F => n.nav = r.nav
           /\ "layout" \notin F => n.layout = r.layout
           /\ "artifact" \notin F => n.artifact = r.artifact
           /\ "activated" \notin F => n.activated = r.activated
           /\ "batch" \notin F => n.batch = r.batch
           /\ "pwasm" \notin F => n.pwasm = r.pwasm
           /\ "proposal" \notin F => n.proposal = r.proposal
           /\ "deferred" \notin F => n.deferred = r.deferred
           /\ "trust" \notin F => n.trust = r.trust
           /\ "arts" \notin F => n.arts = r.arts
           /\ "live" \notin F => n.live = r.live
           /\ "kept" \notin F => n.kept = r.kept
           /\ "lost" \notin F => n.lost = r.lost
           /\ "shifted" \notin F => n.shifted = r.shifted
           /\ "resumed" \notin F => n.resumed = r.resumed
<1>1. \A f \in RuntimeFields \ F : n[f] = r[f]
  BY DEF ElseR
<1>2. /\ "shown" \in RuntimeFields /\ "fetched" \in RuntimeFields
      /\ "parsed" \in RuntimeFields /\ "nav" \in RuntimeFields
      /\ "layout" \in RuntimeFields /\ "artifact" \in RuntimeFields
      /\ "activated" \in RuntimeFields /\ "batch" \in RuntimeFields
      /\ "pwasm" \in RuntimeFields /\ "proposal" \in RuntimeFields
      /\ "deferred" \in RuntimeFields /\ "trust" \in RuntimeFields
      /\ "arts" \in RuntimeFields /\ "live" \in RuntimeFields /\ "kept" \in RuntimeFields
      /\ "lost" \in RuntimeFields /\ "shifted" \in RuntimeFields
      /\ "resumed" \in RuntimeFields
  BY DEF RuntimeFields
<1> QED BY <1>1, <1>2 DEF ElseR

\* A record is itself but for any fields.
LEMMA ElseSelf ==
    /\ \A m : DOMAIN m = ModelFields => \A F : Else(m, m, F)
    /\ \A r : DOMAIN r = RuntimeFields => \A F : ElseR(r, r, F)
  BY DEF Else, ElseR

\* The fields of the model no stage of a navigation looks at.
Unseen == {"retry"}

\* The fields of the runtime no stage of a navigation looks at.
UnseenR == {"redirect", "cs", "live", "kept", "trust", "pinned", "cache", "arts"}

\* No condition of a stage is disturbed by a field it does not look at.
LEMMA Frames ==
    ASSUME NEW m, NEW n, Else(m, n, Unseen), NEW r, NEW s, ElseR(r, s, UnseenR)
    PROVE  /\ \A o : Owns(m, o) <=> Owns(n, o)
           /\ \A R : Settled(m, r, R) => Settled(n, s, R)
           /\ \A R : Accounted(m, r, R) => Accounted(n, s, R)
           /\ NoPage(r) => NoPage(s)
           /\ NoFrame(r) => NoFrame(s)
           /\ Drained(r) => Drained(s)
           /\ Pending(m, r) => Pending(n, s)
           /\ \A o : LayoutReady(m, r, o) => LayoutReady(n, s, o)
           /\ \A o : FrameReady(m, r, o) => FrameReady(n, s, o)
           /\ ReplacedId(n) = ReplacedId(m)
<1>1. /\ n.phase = m.phase /\ n.scope = m.scope /\ n.uri = m.uri /\ n.hist = m.hist
      /\ n.pos = m.pos /\ n.out = m.out /\ n.pend = m.pend /\ n.commit = m.commit
      /\ n.nhid = m.nhid
  BY ElseParts DEF Unseen
<1>2. /\ s.shown = r.shown /\ s.fetched = r.fetched /\ s.parsed = r.parsed
      /\ s.nav = r.nav /\ s.layout = r.layout /\ s.artifact = r.artifact
      /\ s.batch = r.batch /\ s.pwasm = r.pwasm /\ s.deferred = r.deferred
      /\ s.lost = r.lost /\ s.shifted = r.shifted
  BY ElseRParts DEF UnseenR
<1>3. \A o : Owns(m, o) <=> Owns(n, o)
  BY <1>1 DEF Owns
<1>4. \A R : Accounted(m, r, R) => Accounted(n, s, R)
  BY <1>1, <1>2 DEF Accounted
<1>5. Cursor(m, r) => Cursor(n, s)
  BY <1>1, <1>2 DEF Cursor
<1>6. \A R : Settled(m, r, R) => Settled(n, s, R)
  BY <1>1, <1>4, <1>5 DEF Settled
<1>7. (NoPage(r) => NoPage(s)) /\ (NoFrame(r) => NoFrame(s)) /\ (Drained(r) => Drained(s))
  BY <1>2 DEF NoPage, NoFrame, Drained
<1>8. Pending(m, r) => Pending(n, s)
  BY <1>1, <1>2 DEF Pending, Original
<1>9. \A o : LayoutReady(m, r, o) => LayoutReady(n, s, o)
  BY <1>1, <1>2, <1>7, <1>8 DEF LayoutReady, Holds
<1>10. \A o : FrameReady(m, r, o) => FrameReady(n, s, o)
  BY <1>1, <1>2, <1>7 DEF FrameReady, Holds
<1>11. ReplacedId(n) = ReplacedId(m)
  BY <1>1 DEF ReplacedId
<1> QED BY <1>3, <1>4, <1>6, <1>7, <1>8, <1>9, <1>10, <1>11

\* Nor is what holds of an effect at the front.
LEMMA SameOne ==
    ASSUME NEW m, NEW n, Else(m, n, Unseen), NEW r, NEW s, ElseR(r, s, UnseenR),
           NEW a, OneOK(m, r, a)
    PROVE  OneOK(n, s, a)
<1>1. /\ n.phase = m.phase /\ n.scope = m.scope /\ n.uri = m.uri /\ n.hist = m.hist
      /\ n.pos = m.pos /\ n.out = m.out /\ n.pend = m.pend /\ n.commit = m.commit
      /\ n.subs = m.subs /\ n.psubs = m.psubs /\ n.recon = m.recon
      /\ n.presize = m.presize /\ n.pcommit = m.pcommit
  BY ElseParts DEF Unseen
<1>2. /\ s.fetched = r.fetched /\ s.parsed = r.parsed
      /\ s.nav = r.nav /\ s.layout = r.layout /\ s.artifact = r.artifact
      /\ s.batch = r.batch /\ s.pwasm = r.pwasm /\ s.deferred = r.deferred
      /\ s.proposal = r.proposal /\ s.activated = r.activated
      /\ s.resumed = r.resumed
  BY ElseRParts DEF UnseenR
<1>3. CASE ErrorOK(m, r, a)
  BY <1>1, <1>3, Frames DEF OneOK, ErrorOK
<1>4. CASE SoloOK(m, r, a)
  <2>1. SoloOK(n, s, a)
    BY <1>1, <1>2, <1>4, Frames DEF SoloOK, Holds
  <2> QED BY <2>1 DEF OneOK
<1>5. CASE NavOK(m, r, a)
  <2>1. NavOK(n, s, a)
    BY <1>1, <1>2, <1>5, Frames DEF NavOK, Holds
  <2> QED BY <2>1 DEF OneOK
<1> QED BY <1>3, <1>4, <1>5 DEF OneOK

\* Nor is the stage of a queue.
LEMMA SameStage ==
    ASSUME NEW m, NEW n, Else(m, n, Unseen), NEW r, NEW s, ElseR(r, s, UnseenR),
           NEW w, Stage(m, r, w)
    PROVE  Stage(n, s, w)
<1>1. /\ n.phase = m.phase /\ n.pend = m.pend /\ n.recon = m.recon
  BY ElseParts DEF Unseen
<1>2. s.pwasm = r.pwasm /\ s.activated = r.activated
  BY ElseRParts DEF UnseenR
<1>3. ASSUME NEW a, NEW b, PairOK(m, r, a, b) PROVE PairOK(n, s, a, b)
  BY <1>1, <1>2, <1>3, Frames DEF PairOK, Holds
<1>4. CASE AllTrivial(w) /\ Settled(m, r, {}) /\ Drained(r)
  BY <1>4, Frames DEF Stage
<1>5. CASE \E k \in DOMAIN w : Single(w, k) /\ OneOK(m, r, w[k])
  BY <1>5, SameOne DEF Stage
<1>6. CASE \E k \in DOMAIN w : Double(w, k) /\ PairOK(m, r, w[k], w[k + 1])
  BY <1>6, <1>3 DEF Stage
<1> QED BY <1>4, <1>5, <1>6 DEF Stage

-----------------------------------------------------------------------------
(* The front of the queue                                                  *)

\* What every state satisfies survives an update of the fields a request
\* or a slot takes up.
LEMMA SoundThen ==
    ASSUME NEW m, NEW r, Sound(m, r), NEW n, NEW s,
           Else(m, n, {"phase", "conn", "out", "psubs", "nreq", "recon", "pcommit",
                       "presize", "retry"}),
           n.phase # "ShuttingDown", n.conn \in Conns, n.nreq \in Nat,
           n.out \subseteq Nat, \A k \in n.out : k < n.nreq,
           ElseR(r, s, RuntimeFields \ {"lost", "shifted"}),
           s.live \subseteq r.live /\ s.kept \subseteq r.kept, s.trust \in Pages \cup {None},
           s.deferred # None => s.deferred.o \in Owners
    PROVE  Sound(n, s)
<1>1. /\ n.scope = m.scope /\ n.uri = m.uri /\ n.hist = m.hist
      /\ n.pos = m.pos /\ n.pend = m.pend /\ n.commit = m.commit
      /\ n.nhid = m.nhid /\ n.gen = m.gen /\ n.subs = m.subs /\ DOMAIN n = ModelFields
  BY ElseParts
<1>2. DOMAIN s = RuntimeFields /\ s.shifted = r.shifted
  BY ElseRParts DEF RuntimeFields
<1>3. ModelType(n)
  BY <1>1 DEF Sound, ModelType
<1>4. RuntimeType(s)
  BY <1>2 DEF Sound, RuntimeType
<1>5. LiveShown(n, s)
  BY <1>1 DEF Sound, LiveShown
<1> QED BY <1>1, <1>3, <1>4, <1>5 DEF Sound

\* The same, for the fields no stage looks at.
LEMMA SoundSame ==
    ASSUME NEW m, NEW r, Sound(m, r), NEW n, Else(m, n, Unseen),
           NEW s, ElseR(r, s, UnseenR),
           s.live \subseteq r.live /\ s.kept \subseteq r.kept, s.trust \in Pages \cup {None}
    PROVE  Sound(n, s)
<1>1. /\ n.phase = m.phase /\ n.conn = m.conn /\ n.nreq = m.nreq /\ n.out = m.out
  BY ElseParts DEF Unseen
<1>2. s.deferred = r.deferred
  BY ElseRParts DEF UnseenR
<1>3. Else(m, n, {"phase", "conn", "out", "psubs", "nreq", "recon", "pcommit",
                       "presize", "retry"})
  BY DEF Else, Unseen
<1>4. ElseR(r, s, RuntimeFields \ {"lost", "shifted"})
  BY DEF ElseR, UnseenR, RuntimeFields
<1> QED BY <1>1, <1>2, <1>3, <1>4, SoundThen DEF Sound, ModelType, RuntimeType

\* A good queue stays good when only unseen fields change.
LEMMA SameGood ==
    ASSUME NEW m, NEW r, NEW w, Good(m, r, w), NEW n, Else(m, n, Unseen),
           NEW s, ElseR(r, s, UnseenR), s.arts = r.arts,
           s.live \subseteq r.live /\ s.kept \subseteq r.kept, s.trust \in Pages \cup {None}
    PROVE  Good(n, s, w)
<1>1. n.hist = m.hist
  BY ElseParts DEF Unseen
<1>2. Sound(n, s) /\ Stage(n, s, w)
  BY SoundSame, SameStage DEF Good
<1> QED BY <1>1, <1>2 DEF Good, Projects

\* With all settled and drained the invariant holds, whether anything is
\* left to draw or not.
LEMMA RestGood ==
    ASSUME NEW m, NEW r, Sound(m, r), Settled(m, r, {}), Drained(r), r.arts = Ids(m.hist),
           m.retry = None, NEW t \in Seq(Effects), AllPlain(t)
    PROVE  InvOf(m, r, <<>> \o t) /\ InvOf(m, r, t) /\ InvOf(m, r, Render \o t)
<1>1. Good(m, r, <<>>)
  BY GoodEmpty
<1>2. <<>> \o t = t /\ Render \o t \in Seq(Effects) /\ AllPlain(Render \o t)
      /\ <<>> \o (Render \o t) = Render \o t
  BY Rendered, Assoc
<1>3. Good(m, r, <<>> \o t) /\ Good(m, r, <<>> \o (Render \o t))
  BY <1>1, <1>2, PlainBehind
<1> QED BY <1>2, <1>3 DEF InvOf, AsIs

\* A queue is its head before its tail.
LEMMA Parted ==
    ASSUME NEW w \in Seq(Effects), w # <<>>
    PROVE  w = <<Head(w)>> \o Tail(w) /\ Head(w) \in Effects /\ Tail(w) \in Seq(Effects)
<1> DEFINE g == <<Head(w)>> \o Tail(w)
<1>1. Head(w) \in Effects /\ Tail(w) \in Seq(Effects) /\ Len(w) \in Nat /\ Len(w) # 0
      /\ Head(w) = w[1]
  BY HeadTail
<1>2. g \in Seq(Effects) /\ Len(g) = Len(w)
  BY <1>1
<1>3. \A i \in 1 .. Len(w) : g[i] = w[i]
  BY <1>1
<1> HIDE DEF g
<1>4. g = w
  BY <1>2, <1>3, SeqEqual
<1> QED BY <1>1, <1>4 DEF g

\* An effect put back in front, with its conditions, makes a good queue.
LEMMA Again ==
    ASSUME NEW m, NEW r, Sound(m, r), NEW a \in Effects, OneOK(m, r, a),
           r.arts = Ids(m.hist) \ InstalledBy(a),
           NEW t \in Seq(Effects), AllPlain(t)
    PROVE  Good(m, r, <<a>> \o t)
<1>1. a.e # "ReleaseHistoryArtifact"
  BY DEF OneOK, ErrorOK, SoloOK, NavOK, NavSteps
<1> QED BY <1>1, GoodSingle, PlainBehind

\* The same, as the invariant.
LEMMA OnGood ==
    ASSUME NEW m, NEW r, Sound(m, r), NEW a \in Effects, OneOK(m, r, a), m.retry = None,
           r.arts = Ids(m.hist) \ InstalledBy(a),
           NEW t \in Seq(Effects), AllPlain(t)
    PROVE  InvOf(m, r, <<a>> \o t)
<1>1. Good(m, r, <<a>> \o t)
  BY Again
<1> QED BY <1>1 DEF InvOf, AsIs, Good

\* A pair put in front, with its conditions, keeps the invariant.
LEMMA PairGood ==
    ASSUME NEW m, NEW r, Sound(m, r), NEW a \in Effects, NEW b \in Effects,
           PairOK(m, r, a, b), m.retry = None, r.arts = Ids(m.hist),
           NEW t \in Seq(Effects), AllPlain(t)
    PROVE  InvOf(m, r, <<a, b>> \o t)
<1>1. Good(m, r, <<a, b>>)
  BY GoodDouble
<1> DEFINE f == <<a, b>>
<1> HIDE DEF f
<1>2. Good(m, r, f \o t)
  BY <1>1, PlainBehind DEF f
<1> QED BY <1>2 DEF InvOf, AsIs, Good, f

\* At a front that is neither trivial nor an eviction nor a retirement,
\* the queue is as the reducer returned it.
LEMMA AtHead ==
    ASSUME NEW m, NEW r, NEW w, InvOf(m, r, w), w # <<>>,
           Head(w).e \notin Trivial \cup Evicts \cup {"RetirePageWork", "RetireSubscriptions"}
    PROVE  /\ AsIs(m, r, w) /\ Sound(m, r) /\ m.retry = None
           /\ w \in Seq(Effects) /\ Head(w) \in Effects /\ Tail(w) \in Seq(Effects)
           /\ FrontOne(m, r, w) \/ FrontPair(m, r, w)
<1>1. w \in Seq(Effects)
  BY DEF InvOf
<1>2. ~Closing(m, r, w)
  BY <1>1, HeadTail DEF Closing, AllTrivial
<1>3. AsIs(m, r, w)
  BY <1>2 DEF InvOf, Evicting, RetiringWork, RetiringSubs
<1>4. Sound(m, r) /\ m.retry = None /\ Good(m, r, w)
  BY <1>3 DEF AsIs, Good
<1> QED BY <1>3, <1>4, Front

\* What the invariant says of the front, by the kind of effect.
LEMMA AtKind ==
    ASSUME NEW m, NEW r, NEW w, InvOf(m, r, w), w # <<>>,
           Head(w).e \notin Trivial \cup Evicts \cup {"RetirePageWork", "RetireSubscriptions"}
    PROVE  LET a == Head(w)
               calm == AllPlain(Tail(w)) /\ r.arts = Ids(m.hist)
           IN
           /\ a.e \in NavSteps \ {"ActivateLayout"} =>
                /\ NavOK(m, r, a) /\ AllPlain(Tail(w))
                /\ r.arts = Ids(m.hist) \ InstalledBy(a)
           /\ a.e \in {"ApplyUpdate", "ApplyPresentationAction", "ResumeNavigation",
                       "TickWasm", "Subscribe", "DeferNavigation",
                       "PrepareResizeProjection"} => SoloOK(m, r, a) /\ calm
           /\ a.e = "ActivateLayout" => (SoloOK(m, r, a) \/ NavOK(m, r, a)) /\ calm
           /\ a.e \in {"Connect", "ActivateWasm"} =>
                FrontPair(m, r, w) \/ (SoloOK(m, r, a) /\ calm)
           /\ a.e = "LoadWasm" => FrontPair(m, r, w)
           /\ a.e = "ActivateErrorPage" => ErrorOK(m, r, a) /\ calm
<1> DEFINE a == Head(w)
<1>1. FrontOne(m, r, w) \/ FrontPair(m, r, w)
  BY AtHead
<1>2. FrontPair(m, r, w) => a.e \in {"Connect", "LoadWasm", "ActivateWasm"}
  BY DEF FrontPair, PairOK
<1>3. FrontOne(m, r, w) => /\ ErrorOK(m, r, a) \/ SoloOK(m, r, a) \/ NavOK(m, r, a)
                           /\ AllPlain(Tail(w)) /\ r.arts = Ids(m.hist) \ InstalledBy(a)
  BY DEF FrontOne, OneOK
<1>4. a.e # "InstallHistoryArtifact" => InstalledBy(a) = {}
  BY DEF InstalledBy
<1>5. ErrorOK(m, r, a) => a.e = "ActivateErrorPage"
  BY DEF ErrorOK
<1>6. NavOK(m, r, a) => a.e \in NavSteps
  BY DEF NavOK
<1>7. SoloOK(m, r, a) => a.e \in {"ApplyUpdate", "ApplyPresentationAction",
            "EvictResource", "EvictHistory", "ResumeNavigation",
            "TickWasm", "ActivateWasm", "Subscribe", "DeferNavigation", "Connect",
            "PrepareResizeProjection", "ActivateLayout"}
  BY DEF SoloOK
<1> HIDE DEF a
<1>8. a.e \in {"Connect", "ActivateWasm", "LoadWasm", "ActivateErrorPage"} =>
         a.e \notin NavSteps
  BY DEF NavSteps
<1>9. a.e \in NavSteps \ {"ActivateLayout"} =>
                /\ NavOK(m, r, a) /\ AllPlain(Tail(w))
                /\ r.arts = Ids(m.hist) \ InstalledBy(a)
  BY <1>1, <1>2, <1>3, <1>5, <1>7, <1>8 DEF NavSteps
<1>10. a.e \in {"ApplyUpdate", "ApplyPresentationAction", "ResumeNavigation",
                       "TickWasm", "Subscribe", "DeferNavigation",
                       "PrepareResizeProjection"} =>
          SoloOK(m, r, a) /\ AllPlain(Tail(w)) /\ r.arts = Ids(m.hist)
  BY <1>1, <1>2, <1>3, <1>4, <1>5, <1>6 DEF NavSteps
<1>11. a.e = "ActivateLayout" =>
          (SoloOK(m, r, a) \/ NavOK(m, r, a)) /\ AllPlain(Tail(w)) /\ r.arts = Ids(m.hist)
  BY <1>1, <1>2, <1>3, <1>4, <1>5
<1>12. a.e \in {"Connect", "ActivateWasm"} =>
          FrontPair(m, r, w) \/ (SoloOK(m, r, a) /\ AllPlain(Tail(w)) /\ r.arts = Ids(m.hist))
  BY <1>1, <1>3, <1>4, <1>5, <1>6, <1>8
<1>13. a.e = "LoadWasm" => FrontPair(m, r, w)
  BY <1>1, <1>3, <1>5, <1>6, <1>7, <1>8
<1>14. a.e = "ActivateErrorPage" =>
          ErrorOK(m, r, a) /\ AllPlain(Tail(w)) /\ r.arts = Ids(m.hist)
  BY <1>1, <1>2, <1>3, <1>4, <1>6, <1>7, <1>8
<1> QED BY <1>9, <1>10, <1>11, <1>12, <1>13, <1>14 DEF a

-----------------------------------------------------------------------------
(* Effects that change nothing a navigation depends on                     *)

\* Carrying out a trivial effect keeps the invariant.
LEMMA TrivialGood ==
    ASSUME NEW m, NEW r, NEW w, InvOf(m, r, w), w # <<>>, Head(w).e \in Trivial,
           NEW s,
           RuntimeType(r) => /\ ElseR(r, s, {"cs", "live", "kept", "arts"})
                             /\ s.live \subseteq r.live /\ s.kept \subseteq r.kept
                             /\ s.arts \ Released(Tail(w)) = r.arts \ Released(w)
    PROVE  InvOf(m, s, <<>> \o Tail(w))
<1> DEFINE t == Tail(w)
<1>0. /\ w \in Seq(Effects) /\ t \in Seq(Effects)
      /\ \A i \in DOMAIN t : i + 1 \in DOMAIN w /\ t[i] = w[i + 1]
  BY HeadTail DEF InvOf
<1>1. <<>> \o t = t
  BY <1>0, Assoc
<1>2. CASE Closing(m, r, w)
  <2>1. AllTrivial(t)
    BY <1>0, <1>2 DEF Closing, AllTrivial
  <2> QED BY <2>1, <1>0, <1>1, <1>2 DEF Closing, InvOf
<1>3. CASE AsIs(m, r, w)
  <2>1. Good(m, r, w) /\ Sound(m, r) /\ Projects(m, r, w) /\ m.retry = None /\ RuntimeType(r)
        /\ DOMAIN m = ModelFields
    BY <1>3 DEF AsIs, Good, Sound, ModelType
  <2>2. Stage(m, r, t)
    <3>1. ~FrontPair(m, r, w)
      BY DEF FrontPair, PairOK, Trivial, Plain
    <3> QED BY <2>1, <3>1, Front
  <2>3. Else(m, m, Unseen) /\ ElseR(r, s, UnseenR) /\ s.trust = r.trust
    BY <2>1, ElseSelf, ElseRParts DEF ElseR, UnseenR
  <2>4. Stage(m, s, t)
    BY <2>2, <2>3, SameStage
  <2>5. Sound(m, s)
    BY <2>1, <2>3, SoundSame DEF RuntimeType
  <2>6. Installed(w) = Installed(t)
    BY <1>0, FrontBooks DEF InstalledBy, Trivial, Plain
  <2>7. Projects(m, s, t)
    BY <2>1, <2>6 DEF Projects
  <2>8. Good(m, s, t)
    BY <2>4, <2>5, <2>7, <1>0 DEF Good
  <2> QED BY <2>1, <2>8, <1>0, <1>1 DEF InvOf, AsIs
<1>4. ~Evicting(m, r, w) /\ ~RetiringWork(m, r, w) /\ ~RetiringSubs(m, r, w)
  BY DEF Evicting, RetiringWork, RetiringSubs, Evicts, Trivial, Plain
<1> QED BY <1>2, <1>3, <1>4 DEF InvOf

\* Closing the connection keeps the invariant.
LEMMA CloseKeeps == ASSUME Inv, ExecClose PROVE Inv'
<1> DEFINE s == [rt EXCEPT !.cs = None, !.live = {}, !.kept = {}]
<1>1. /\ q # <<>> /\ Head(q).e = "Close"
      /\ v' = v /\ rt' = s /\ q' = <<>> \o Tail(q)
  BY RetParts DEF ExecClose, Executing, Head1, Done
<1>2. RuntimeType(rt) => /\ ElseR(rt, s, {"cs", "live", "kept", "arts"})
                         /\ s.live \subseteq rt.live /\ s.kept \subseteq rt.kept
                         /\ s.arts = rt.arts
  <2> SUFFICES ASSUME RuntimeType(rt)
               PROVE /\ ElseR(rt, s, {"cs", "live", "kept", "arts"})
                     /\ s.live \subseteq rt.live /\ s.kept \subseteq rt.kept
                     /\ s.arts = rt.arts
    OBVIOUS
  <2>0. DOMAIN rt = RuntimeFields
    BY DEF RuntimeType
  <2>1. DOMAIN s = RuntimeFields
    BY <2>0, Zenon
  <2>2. \A f \in RuntimeFields \ {"cs", "live", "kept", "arts"} : s[f] = rt[f]
    BY <2>0, ZenonT(60)
  <2>3. s.live = {} /\ s.kept = {} /\ s.arts = rt.arts
    BY <2>0, SMT DEF RuntimeFields
  <2> QED BY <2>1, <2>2, <2>3 DEF ElseR
<1> HIDE DEF s
<1>3. Released(q) = Released(Tail(q))
  BY <1>1, FrontBooks DEF ReleasedBy, Inv, InvOf
<1>4. InvOf(v, s, <<>> \o Tail(q))
  BY <1>1, <1>2, <1>3, TrivialGood DEF Inv, Trivial
<1> QED BY <1>1, <1>4 DEF Inv

\* Releasing an artifact of the history keeps the invariant.
LEMMA ReleaseKeeps == ASSUME Inv, ExecReleaseHistoryArtifact PROVE Inv'
<1> DEFINE s == [rt EXCEPT !.arts = @ \ {Head(q).x}]
<1>1. /\ q # <<>> /\ Head(q).e = "ReleaseHistoryArtifact"
      /\ v' = v /\ rt' = s /\ q' = <<>> \o Tail(q)
  BY RetParts DEF ExecReleaseHistoryArtifact, Executing, Head1, Done
<1>2. RuntimeType(rt) => /\ ElseR(rt, s, {"cs", "live", "kept", "arts"})
                         /\ s.live \subseteq rt.live /\ s.kept \subseteq rt.kept
                         /\ s.arts = rt.arts \ {Head(q).x}
  <2> SUFFICES ASSUME RuntimeType(rt)
               PROVE /\ ElseR(rt, s, {"cs", "live", "kept", "arts"})
                     /\ s.live \subseteq rt.live /\ s.kept \subseteq rt.kept
                     /\ s.arts = rt.arts \ {Head(q).x}
    OBVIOUS
  <2>0. DOMAIN rt = RuntimeFields
    BY DEF RuntimeType
  <2>1. DOMAIN s = RuntimeFields
    BY <2>0, Zenon
  <2>2. \A f \in RuntimeFields \ {"cs", "live", "kept", "arts"} : s[f] = rt[f]
    BY <2>0, ZenonT(60)
  <2>3. s.live = rt.live /\ s.kept = rt.kept /\ s.arts = rt.arts \ {Head(q).x}
    BY <2>0, SMT DEF RuntimeFields
  <2> QED BY <2>1, <2>2, <2>3 DEF ElseR
<1> HIDE DEF s
<1>3. Released(q) = {Head(q).x} \cup Released(Tail(q))
  BY <1>1, FrontBooks DEF ReleasedBy, Inv, InvOf
<1>4. InvOf(v, s, <<>> \o Tail(q))
  BY <1>1, <1>2, <1>3, TrivialGood DEF Inv, Trivial
<1> QED BY <1>1, <1>4 DEF Inv

\* Drawing keeps the invariant.
LEMMA RenderKeeps == ASSUME Inv, ExecRender PROVE Inv'
<1>1. /\ q # <<>> /\ Head(q).e \in Plain
      /\ v' = v /\ rt' = rt /\ q' = <<>> \o Tail(q)
  BY RetParts DEF ExecRender, Head1, Done, Ignore, Plain
<1>2. Released(q) = Released(Tail(q))
  BY <1>1, FrontBooks DEF ReleasedBy, Inv, InvOf, Plain
<1>3. RuntimeType(rt) => ElseR(rt, rt, {"cs", "live", "kept", "arts"})
  BY ElseSelf DEF RuntimeType
<1>4. InvOf(v, rt, <<>> \o Tail(q))
  BY <1>1, <1>2, <1>3, TrivialGood DEF Inv, Trivial
<1> QED BY <1>1, <1>4 DEF Inv

\* Whether the server heard of it or not changes only what is left behind.
LEMMA HeldFields ==
    ASSUME NEW r, DOMAIN r = RuntimeFields, NEW s
    PROVE  LET n == Unheard(r, s)
               p == Heard(r, s)
           IN ElseR(n, p, {"kept"}) /\ p.live = n.live /\ p.kept \subseteq n.kept
              /\ p.arts = n.arts /\ p.trust = n.trust
<1> DEFINE n == Unheard(r, s)
           p == Heard(r, s)
<1>1. DOMAIN n = RuntimeFields /\ DOMAIN p = RuntimeFields
  BY Zenon DEF Heard, Unheard, RetireWork
<1>2. p.kept \subseteq n.kept
  BY SMT DEF Heard, Unheard, RetireWork, RuntimeFields
<1>3. /\ p.shown = n.shown /\ p.fetched = n.fetched /\ p.parsed = n.parsed
      /\ p.nav = n.nav /\ p.layout = n.layout /\ p.artifact = n.artifact
      /\ p.activated = n.activated
  BY SMT DEF Heard, Unheard, RetireWork, RuntimeFields
<1>4. /\ p.batch = n.batch /\ p.pwasm = n.pwasm /\ p.proposal = n.proposal
      /\ p.deferred = n.deferred /\ p.resumed = n.resumed /\ p.trust = n.trust
      /\ p.redirect = n.redirect
  BY SMT DEF Heard, Unheard, RetireWork, RuntimeFields
<1>5. /\ p.arts = n.arts /\ p.cache = n.cache /\ p.cs = n.cs /\ p.live = n.live
      /\ p.lost = n.lost /\ p.pinned = n.pinned /\ p.shifted = n.shifted
  BY SMT DEF Heard, Unheard, RetireWork, RuntimeFields
<1> HIDE DEF n, p
<1>6. \A f \in RuntimeFields \ {"kept"} : p[f] = n[f]
  BY <1>3, <1>4, <1>5 DEF RuntimeFields
<1>7. ElseR(n, p, {"kept"})
  BY <1>1, <1>6 DEF ElseR
<1>8. p.live = n.live /\ p.arts = n.arts /\ p.trust = n.trust
  BY <1>4, <1>5
<1> QED BY <1>2, <1>7, <1>8 DEF n, p

\* Retiring a scope's work keeps the invariant.
LEMMA RetireWorkKeeps == ASSUME Inv, ExecRetirePageWork PROVE Inv'
<1> DEFINE s == Unheard(rt, Head(q).x)
           p == Heard(rt, Head(q).x)
<1>1. /\ q # <<>> /\ Head(q).e = "RetirePageWork"
      /\ v' = v /\ rt' \in {s, p} /\ q' = <<>> \o Tail(q)
  BY RetParts DEF ExecRetirePageWork, Executing, Head1, Done, Heard, Unheard
<1>2. InvOf(v, rt, q) /\ q \in Seq(Effects)
  BY DEF Inv, InvOf
<1>3. ~Closing(v, rt, q)
  BY <1>1, <1>2, HeadTail DEF Closing, AllTrivial, Trivial, Plain
<1>4. ~AsIs(v, rt, q)
  BY <1>1, Front DEF AsIs, FrontOne, FrontPair, OneOK, ErrorOK, SoloOK, NavOK, NavSteps,
     PairOK, Trivial, Plain
<1>5. RetiringWork(v, rt, q)
  BY <1>1, <1>2, <1>3, <1>4 DEF InvOf, Evicting, RetiringSubs, Evicts
<1>6. Good(v, s, Tail(q)) /\ v.retry = None /\ Tail(q) \in Seq(Effects)
  BY <1>5 DEF RetiringWork, Good
<1>7. <<>> \o Tail(q) = Tail(q)
  BY <1>6, Assoc
<1>8. Good(v, p, Tail(q))
  <2>1. DOMAIN rt = RuntimeFields /\ DOMAIN v = ModelFields /\ s.trust \in Pages \cup {None}
    BY <1>6, Zenon DEF Good, Sound, RuntimeType, ModelType, Unheard, RetireWork
  <2>2. ElseR(s, p, {"kept"}) /\ p.live = s.live /\ p.kept \subseteq s.kept
        /\ p.arts = s.arts /\ p.trust = s.trust
    BY <2>1, HeldFields
  <2> HIDE DEF s, p
  <2>3. ElseR(s, p, UnseenR) /\ Else(v, v, Unseen)
    BY <2>1, <2>2, ElseSelf DEF ElseR, UnseenR
  <2> QED BY <1>6, <2>1, <2>2, <2>3, SameGood
<1> HIDE DEF s, p
<1>9. InvOf(v, s, <<>> \o Tail(q)) /\ InvOf(v, p, <<>> \o Tail(q))
  BY <1>6, <1>7, <1>8 DEF InvOf, AsIs
<1> QED BY <1>1, <1>9 DEF Inv

\* Dropping the subscriptions touches nothing else, and leaves behind at most
\* those there were.
LEMMA DroppedFields ==
    ASSUME NEW r, DOMAIN r = RuntimeFields
    PROVE  LET n == UnsubscribeTimesOut(r)
               p == [r EXCEPT !.live = {}, !.kept = {}]
           IN /\ ElseR(r, n, {"live", "kept"}) /\ n.live = {} /\ n.kept = r.kept \cup r.live
              /\ ElseR(n, p, {"live", "kept"}) /\ p.live = {} /\ p.kept = {}
<1> DEFINE n == UnsubscribeTimesOut(r)
           p == [r EXCEPT !.live = {}, !.kept = {}]
<1>1. DOMAIN n = RuntimeFields /\ DOMAIN p = RuntimeFields
  BY Zenon DEF UnsubscribeTimesOut
<1>2. \A f \in RuntimeFields \ {"live", "kept"} : n[f] = r[f] /\ p[f] = r[f]
  BY Zenon DEF UnsubscribeTimesOut
<1>3. n.live = {} /\ n.kept = r.kept \cup r.live /\ p.live = {} /\ p.kept = {}
  BY SMT DEF UnsubscribeTimesOut, RuntimeFields
<1> QED BY <1>1, <1>2, <1>3 DEF ElseR

\* Retiring a scope's subscriptions keeps the invariant.
LEMMA RetireSubsKeeps == ASSUME Inv, ExecRetireSubscriptions PROVE Inv'
<1> DEFINE s == UnsubscribeTimesOut(rt)
           p == [rt EXCEPT !.live = {}, !.kept = {}]
<1>1. /\ q # <<>> /\ Head(q).e = "RetireSubscriptions"
      /\ v' = v /\ q' = <<>> \o Tail(q)
      /\ v.scope = Head(q).x => rt' \in {s, p}
  BY RetParts DEF ExecRetireSubscriptions, Executing, Head1, Done, Ignore
<1>2. InvOf(v, rt, q) /\ q \in Seq(Effects)
  BY DEF Inv, InvOf
<1>3. ~Closing(v, rt, q)
  BY <1>1, <1>2, HeadTail DEF Closing, AllTrivial, Trivial, Plain
<1>4. ~AsIs(v, rt, q)
  BY <1>1, Front DEF AsIs, FrontOne, FrontPair, OneOK, ErrorOK, SoloOK, NavOK, NavSteps,
     PairOK, Trivial, Plain
<1>5. RetiringSubs(v, rt, q)
  BY <1>1, <1>2, <1>3, <1>4 DEF InvOf, Evicting, RetiringWork, Evicts
<1>6. Good(v, s, Tail(q)) /\ v.retry = None /\ Tail(q) \in Seq(Effects) /\ rt' \in {s, p}
  BY <1>1, <1>5 DEF RetiringSubs, Good
<1>7. <<>> \o Tail(q) = Tail(q)
  BY <1>6, Assoc
<1>8. Good(v, p, Tail(q))
  <2>1. DOMAIN rt = RuntimeFields /\ DOMAIN v = ModelFields /\ s.trust \in Pages \cup {None}
    BY <1>6, Zenon DEF Good, Sound, RuntimeType, ModelType, UnsubscribeTimesOut
  <2>2. ElseR(s, p, {"live", "kept"}) /\ p.live = {} /\ p.kept = {}
    BY <2>1, DroppedFields
  <2> HIDE DEF s, p
  <2>3. ElseR(s, p, UnseenR) /\ Else(v, v, Unseen) /\ p.arts = s.arts /\ p.trust = s.trust
    BY <2>1, <2>2, ElseSelf, ElseRParts DEF ElseR, UnseenR
  <2> QED BY <1>6, <2>1, <2>2, <2>3, SameGood
<1> HIDE DEF s, p
<1>9. InvOf(v, s, <<>> \o Tail(q)) /\ InvOf(v, p, <<>> \o Tail(q))
  BY <1>6, <1>7, <1>8 DEF InvOf, AsIs
<1> QED BY <1>1, <1>6, <1>9 DEF Inv

-----------------------------------------------------------------------------
(* Memory pressure                                                         *)

\* Setting an effect aside to try it again touches nothing else.
LEMMA RetryFields ==
    ASSUME NEW m, DOMAIN m = ModelFields, NEW x
    PROVE  LET n == [m EXCEPT !.retry = x] IN Else(m, n, Unseen) /\ n.retry = x
<1> DEFINE n == [m EXCEPT !.retry = x]
<1>1. DOMAIN n = ModelFields
  BY Zenon
<1>2. \A f \in ModelFields \ Unseen : n[f] = m[f]
  BY Zenon DEF Unseen
<1>3. n.retry = x
  BY SMT DEF ModelFields
<1> QED BY <1>1, <1>2, <1>3 DEF Else

\* An effect that runs out of memory keeps the invariant: it is set aside,
\* or given up when it was tried already.
LEMMA RejectedGood ==
    ASSUME NEW m, NEW r, NEW w, InvOf(m, r, w), w # <<>>, Head(w).e \in Rejectable
    PROVE  LET b == PresentationFailed(m, Head(w)) IN InvOf(b.v, r, b.fx \o Tail(w))
<1> DEFINE a == Head(w)
           t == Tail(w)
           n == [m EXCEPT !.retry = a]
           c == Fx("EvictResource", None, None)
<1>0. a.e \notin Trivial \cup Evicts \cup {"RetirePageWork", "RetireSubscriptions"}
  BY DEF Rejectable, Trivial, Plain, Evicts
<1>1. /\ Good(m, r, w) /\ Sound(m, r) /\ m.retry = None /\ a \in Effects /\ t \in Seq(Effects)
      /\ w \in Seq(Effects) /\ DOMAIN m = ModelFields /\ DOMAIN r = RuntimeFields
      /\ r.trust \in Pages \cup {None}
  BY <1>0, AtHead DEF AsIs, Good, Sound, ModelType, RuntimeType
<1>2. a # None
  BY <1>1, NoneAssumption
<1>3. CASE \/ ~BelongsTo(a, m.scope)
           \/ a.e = "PrepareResizeProjection" /\ m.presize # a.o
  <2>1. a.e # "PrepareResizeProjection" \/ m.presize = a.o
    BY <1>0, AtKind DEF SoloOK
  <2>2. a.e \in {"Parse", "ActivateCachedHistory", "PrepareLayout", "AdmitHistoryArtifact"}
            => Owns(m, a.o)
    BY <1>0, AtKind DEF NavSteps, NavOK
  <2>3. a.e \in {"TickWasm", "PrepareResizeProjection"} => Owns(m, a.o)
    BY <1>0, AtKind DEF SoloOK
  <2>4. a.e = "ApplyPresentationAction" => a.o = None
    BY <1>1, EffectParts
  <2>5. a.e = "ApplyUpdate"
    BY <1>3, <2>1, <2>2, <2>3, <2>4 DEF BelongsTo, Owns, Rejectable
  <2>6. PresentationFailed(m, a) = Ret(m, <<>>)
    BY <1>2, <1>3 DEF PresentationFailed
  <2>7. SoloOK(m, r, a) /\ AllPlain(t) /\ r.arts = Ids(m.hist)
    BY <1>0, <2>5, AtKind
  <2>8. Settled(m, r, {}) /\ Drained(r)
    BY <2>5, <2>7 DEF SoloOK
  <2>9. InvOf(m, r, <<>> \o t)
    BY <1>1, <2>7, <2>8, RestGood
  <2> QED BY <2>6, <2>9, RetParts
<1>4. CASE ~(\/ ~BelongsTo(a, m.scope)
             \/ a.e = "PrepareResizeProjection" /\ m.presize # a.o)
  <2>1. PresentationFailed(m, a) = Ret(n, <<c>>)
    BY <1>4 DEF PresentationFailed
  <2>2. Else(m, n, Unseen) /\ n.retry = a
    BY <1>1, RetryFields
  <2>3. ElseR(r, r, UnseenR)
    BY <1>1, ElseSelf
  <2> HIDE DEF n
  <2>4. Good(n, r, w)
    BY <1>1, <2>2, <2>3, SameGood
  <2>5. c \in Effects /\ c.e = "EvictResource"
    BY EffectOf, FxParts DEF Bare
  <2> HIDE DEF c
  <2>6. /\ <<c>> \o t \in Seq(Effects) /\ <<c>> \o t # <<>>
        /\ Head(<<c>> \o t) = c /\ Tail(<<c>> \o t) = t
    BY <1>1, <2>5, Cons
  <2>7. w = <<a>> \o t
    BY <1>1, Parted
  <2> DEFINE g == <<c>> \o t
  <2> HIDE DEF g
  <2>8. Evicting(n, r, g)
    BY <1>1, <2>2, <2>4, <2>5, <2>6, <2>7 DEF Evicting, Evicts, g
  <2>9. InvOf(n, r, g)
    BY <2>6, <2>8 DEF InvOf, g
  <2> QED BY <2>1, <2>9, RetParts DEF g
<1> QED BY <1>3, <1>4

\* Applying a live update keeps the invariant, rejected or not.
LEMMA UpdateKeeps == ASSUME Inv, ExecApplyUpdate PROVE Inv'
<1>1. q # <<>> /\ Head(q).e = "ApplyUpdate" /\ (Rejected \/ Ignore)
  BY DEF ExecApplyUpdate, Executing, Head1
<1>0. Head(q).e \notin Trivial \cup Evicts \cup {"RetirePageWork", "RetireSubscriptions"}
  BY <1>1 DEF Trivial, Plain, Evicts
<1>2. CASE Rejected
  <2>1. LET b == PresentationFailed(v, Head(q)) IN InvOf(b.v, rt, b.fx \o Tail(q))
    BY <1>1, RejectedGood DEF Inv, Rejectable
  <2> QED BY <1>2, <2>1 DEF Rejected, Done, Head1, Inv
<1>3. CASE Ignore
  <2>1. SoloOK(v, rt, Head(q)) /\ AllPlain(Tail(q)) /\ rt.arts = Ids(v.hist)
        /\ Sound(v, rt) /\ v.retry = None /\ Tail(q) \in Seq(Effects)
    BY <1>0, <1>1, AtKind, AtHead DEF Inv
  <2>2. Settled(v, rt, {}) /\ Drained(rt)
    BY <1>1, <2>1 DEF SoloOK
  <2>3. InvOf(v, rt, <<>> \o Tail(q))
    BY <2>1, <2>2, RestGood
  <2> QED BY <1>3, <2>3, RetParts DEF Ignore, Done, Inv
<1> QED BY <1>1, <1>2, <1>3

\* Applying a presentation action keeps the invariant, rejected or not.
LEMMA ActionKeeps == ASSUME Inv, ExecPresentationAction PROVE Inv'
<1> DEFINE s == [rt EXCEPT !.shown = [what |-> "overlay", scope |-> None, uri |-> None]]
<1>1. /\ q # <<>> /\ Head(q).e = "ApplyPresentationAction"
      /\ Rejected \/ Ignore \/ Done(Ret(v, <<>>), s)
  BY DEF ExecPresentationAction, Executing, Head1
<1>0. Head(q).e \notin Trivial \cup Evicts \cup {"RetirePageWork", "RetireSubscriptions"}
  BY <1>1 DEF Trivial, Plain, Evicts
<1>2. CASE Rejected
  <2>1. LET b == PresentationFailed(v, Head(q)) IN InvOf(b.v, rt, b.fx \o Tail(q))
    BY <1>1, RejectedGood DEF Inv, Rejectable
  <2> QED BY <1>2, <2>1 DEF Rejected, Done, Head1, Inv
<1>3. SoloOK(v, rt, Head(q)) /\ AllPlain(Tail(q)) /\ rt.arts = Ids(v.hist)
      /\ Sound(v, rt) /\ v.retry = None /\ Tail(q) \in Seq(Effects)
      /\ DOMAIN v = ModelFields /\ DOMAIN rt = RuntimeFields
  BY <1>0, <1>1, AtKind, AtHead DEF Inv, Sound, ModelType, RuntimeType
<1>4. Settled(v, rt, {}) /\ Drained(rt)
  BY <1>1, <1>3 DEF SoloOK
<1>5. CASE Ignore
  <2>1. InvOf(v, rt, <<>> \o Tail(q))
    BY <1>3, <1>4, RestGood
  <2> QED BY <1>5, <2>1, RetParts DEF Ignore, Done, Inv
<1>6. CASE Done(Ret(v, <<>>), s)
  <2>1. DOMAIN s = RuntimeFields
    BY <1>3, Zenon
  <2>2. \A f \in RuntimeFields \ {"shown"} : s[f] = rt[f]
    BY <1>3, Zenon
  <2>3. s.shown.what = "overlay"
    BY <1>3, SMT DEF RuntimeFields
  <2>4. v' = v /\ rt' = s /\ q' = <<>> \o Tail(q)
    BY <1>6, RetParts DEF Done
  <2> HIDE DEF s
  <2>5. ElseR(rt, s, {"shown"})
    BY <2>1, <2>2 DEF ElseR
  <2>6. /\ s.fetched = rt.fetched /\ s.parsed = rt.parsed /\ s.nav = rt.nav
        /\ s.layout = rt.layout /\ s.artifact = rt.artifact /\ s.batch = rt.batch
        /\ s.pwasm = rt.pwasm /\ s.deferred = rt.deferred /\ s.lost = rt.lost
        /\ s.arts = rt.arts /\ s.live = rt.live /\ s.kept = rt.kept /\ s.trust = rt.trust
      /\ s.shifted = rt.shifted
    BY <2>5, ElseRParts
  <2>7. Sound(v, s)
    BY <1>3, <2>1, <2>6 DEF Sound, RuntimeType, LiveShown
  <2>8. Settled(v, s, {}) /\ Drained(s)
    BY <1>4, <2>3, <2>6 DEF Settled, Drained, NoPage, NoFrame, Cursor, Accounted
  <2>9. InvOf(v, s, <<>> \o Tail(q))
    BY <1>3, <2>6, <2>7, <2>8, RestGood
  <2> QED BY <2>4, <2>9 DEF Inv
<1> QED BY <1>1, <1>2, <1>5, <1>6

\* What the error page sets once it is shown, field by field.
LEMMA ErrorPageFields ==
    ASSUME NEW m, DOMAIN m = ModelFields
    PROVE  LET n == ErrorPageActivated(m).v IN
           /\ ErrorPageActivated(m).fx = <<>>
           /\ Else(m, n, {"phase", "subs", "psubs", "out", "recon", "retry", "pcommit",
                          "presize"})
           /\ n.phase = "Failed" /\ n.subs = {} /\ n.out = {} /\ n.retry = None
<1> DEFINE n == [m EXCEPT !.phase = "Failed", !.subs = {}, !.psubs = {}, !.out = {},
                  !.recon = None, !.retry = None, !.pcommit = None,
                  !.presize = None]
<1>1. DOMAIN n = ModelFields
  BY Zenon
<1>2. \A f \in ModelFields \ {"phase", "subs", "psubs", "out", "recon", "retry",
                              "pcommit", "presize"} : n[f] = m[f]
  BY ZenonT(60)
<1>3. n.phase = "Failed" /\ n.subs = {} /\ n.out = {} /\ n.retry = None
  BY SMT DEF ModelFields
<1>4. ErrorPageActivated(m) = Ret(n, <<>>)
  BY DEF ErrorPageActivated
<1> HIDE DEF n
<1> QED BY <1>1, <1>2, <1>3, <1>4, RetParts DEF Else

\* Showing the error page keeps the invariant.
LEMMA ErrorPageKeeps == ASSUME Inv, ExecActivateErrorPage PROVE Inv'
<1> DEFINE s == [rt EXCEPT !.shown = [what |-> "error", scope |-> None, uri |-> v.uri]]
           n == ErrorPageActivated(v).v
<1>1. q # <<>> /\ Head(q).e = "ActivateErrorPage" /\ Done(ErrorPageActivated(v), s)
  BY DEF ExecActivateErrorPage, Executing, Head1
<1>0. Head(q).e \notin Trivial \cup Evicts \cup {"RetirePageWork", "RetireSubscriptions"}
  BY <1>1 DEF Trivial, Plain, Evicts
<1>2. /\ ErrorOK(v, rt, Head(q)) /\ AllPlain(Tail(q)) /\ rt.arts = Ids(v.hist)
      /\ Sound(v, rt) /\ Tail(q) \in Seq(Effects)
      /\ DOMAIN v = ModelFields /\ DOMAIN rt = RuntimeFields
  BY <1>0, <1>1, AtKind, AtHead DEF Inv, Sound, ModelType, RuntimeType
<1>3. /\ ErrorPageActivated(v).fx = <<>>
      /\ Else(v, n, {"phase", "subs", "psubs", "out", "recon", "retry", "pcommit",
                          "presize"})
      /\ n.phase = "Failed" /\ n.subs = {} /\ n.out = {} /\ n.retry = None
  BY <1>2, ErrorPageFields
<1>4. DOMAIN s = RuntimeFields
  BY <1>2, Zenon
<1>5. \A f \in RuntimeFields \ {"shown"} : s[f] = rt[f]
  BY <1>2, Zenon
<1>6. s.shown.what = "error"
  BY <1>2, SMT DEF RuntimeFields
<1>7. v' = n /\ rt' = s /\ q' = <<>> \o Tail(q)
  BY <1>1, <1>3 DEF Done
<1> HIDE DEF s, n
<1>8. ElseR(rt, s, {"shown"})
  BY <1>4, <1>5 DEF ElseR
<1>9. /\ s.fetched = rt.fetched /\ s.parsed = rt.parsed /\ s.nav = rt.nav
      /\ s.layout = rt.layout /\ s.artifact = rt.artifact /\ s.batch = rt.batch
      /\ s.pwasm = rt.pwasm /\ s.deferred = rt.deferred
      /\ s.arts = rt.arts /\ s.live = rt.live /\ s.kept = rt.kept /\ s.trust = rt.trust
      /\ s.shifted = rt.shifted
  BY <1>8, ElseRParts
<1>10. /\ n.scope = v.scope /\ n.uri = v.uri /\ n.hist = v.hist /\ n.conn = v.conn
       /\ n.pos = v.pos /\ n.pend = v.pend /\ n.commit = v.commit
       /\ n.nhid = v.nhid /\ n.gen = v.gen /\ n.nreq = v.nreq /\ DOMAIN n = ModelFields
  BY <1>3, ElseParts
<1>11. Sound(n, s)
  <2>1. ModelType(n)
    BY <1>2, <1>3, <1>10 DEF Sound, ModelType
  <2>2. RuntimeType(s)
    BY <1>2, <1>4, <1>9 DEF Sound, RuntimeType
  <2>3. LiveShown(n, s)
    BY <1>2, <1>9 DEF Sound, LiveShown, ErrorOK
  <2> QED BY <2>1, <2>2, <2>3, <1>2, <1>3, <1>10 DEF Sound
<1>12. Settled(n, s, {}) /\ Drained(s)
  BY <1>2, <1>3, <1>6, <1>9, <1>10
     DEF ErrorOK, Settled, Drained, NoPage, NoFrame, Cursor, Accounted
<1>13. InvOf(n, s, <<>> \o Tail(q))
  BY <1>2, <1>3, <1>9, <1>10, <1>11, <1>12, RestGood
<1> QED BY <1>7, <1>13 DEF Inv

\* A history with one entry taken out, place by place.
LEMMA Removed ==
    ASSUME NEW h \in Seq(Entries), NEW i \in DOMAIN h
    PROVE  LET g == RemoveAt(h, i) IN
           /\ g \in Seq(Entries) /\ Len(g) = Len(h) - 1 /\ Len(h) \in Nat /\ i \in Nat
           /\ DOMAIN h = 1 .. Len(h) /\ DOMAIN g = 1 .. Len(h) - 1
           /\ \A j \in DOMAIN h : /\ j < i => j \in DOMAIN g /\ g[j] = h[j]
                                  /\ j > i => j - 1 \in DOMAIN g /\ g[j - 1] = h[j]
           /\ \A j \in DOMAIN g : \/ j < i /\ j \in DOMAIN h /\ g[j] = h[j]
                                  \/ j >= i /\ j + 1 \in DOMAIN h /\ g[j] = h[j + 1]
<1> DEFINE n == Len(h)
           a == SubSeq(h, 1, i - 1)
           b == SubSeq(h, i + 1, n)
           g == a \o b
<1>1. n \in Nat /\ DOMAIN h = 1 .. n /\ i \in 1 .. n
  OBVIOUS
<1>2. /\ a \in Seq(Entries) /\ Len(a) = i - 1 /\ \A j \in 1 .. i - 1 : a[j] = h[j]
  BY <1>1
<1>3. /\ b \in Seq(Entries) /\ Len(b) = n - i /\ \A j \in 1 .. n - i : b[j] = h[i + j]
  BY <1>1
<1> HIDE DEF a, b
<1>4. g \in Seq(Entries) /\ Len(g) = n - 1 /\ DOMAIN g = 1 .. n - 1
  <2>1. g \in Seq(Entries) /\ Len(g) = Len(a) + Len(b)
    <3>1. a \in Seq(Entries) /\ b \in Seq(Entries)
      BY <1>2, <1>3
    <3> QED BY <3>1, ConcatProperties
  <2> HIDE DEF g, n
  <2>2. Len(g) = n - 1
    BY <2>1, <1>1, <1>2, <1>3
  <2> QED BY <2>1, <2>2, <1>1
<1>5. \A j \in 1 .. n - 1 : g[j] = IF j <= i - 1 THEN a[j] ELSE b[j - (i - 1)]
  BY <1>1, <1>2, <1>3
<1> HIDE DEF g, n
<1>6. ASSUME NEW j \in 1 .. n - 1 PROVE g[j] = IF j < i THEN h[j] ELSE h[j + 1]
  <2>1. CASE j < i
    BY <2>1, <1>1, <1>2, <1>5
  <2>2. CASE ~(j < i)
    <3>1. j - (i - 1) \in 1 .. n - i /\ i + (j - (i - 1)) = j + 1 /\ ~(j <= i - 1)
      BY <2>2, <1>1
    <3> QED BY <2>2, <3>1, <1>3, <1>5
  <2> QED BY <2>1, <2>2
<1>7. RemoveAt(h, i) = g
  BY DEF RemoveAt, g, a, b, n
<1>8. \A j \in 1 .. n : /\ j < i => j \in 1 .. n - 1 /\ g[j] = h[j]
                        /\ j > i => j - 1 \in 1 .. n - 1 /\ g[j - 1] = h[j]
  BY <1>1, <1>6
<1>9. \A j \in 1 .. n - 1 : \/ j < i /\ j \in 1 .. n /\ g[j] = h[j]
                            \/ j >= i /\ j + 1 \in 1 .. n /\ g[j] = h[j + 1]
  BY <1>1, <1>6
<1> DEFINE k == RemoveAt(h, i)
<1>10. k = g
  BY <1>7
<1> HIDE DEF k
<1>11. /\ k \in Seq(Entries) /\ Len(k) = Len(h) - 1 /\ Len(h) \in Nat /\ i \in Nat
       /\ DOMAIN h = 1 .. Len(h) /\ DOMAIN k = 1 .. Len(h) - 1
  <2>1. k \in Seq(Entries) /\ Len(k) = n - 1 /\ n \in Nat /\ i \in Nat
        /\ DOMAIN h = 1 .. n /\ DOMAIN k = 1 .. n - 1
    BY <1>1, <1>4, <1>10
  <2> QED BY <2>1 DEF n
<1>12. /\ \A j \in DOMAIN h : /\ j < i => j \in DOMAIN k /\ k[j] = h[j]
                              /\ j > i => j - 1 \in DOMAIN k /\ k[j - 1] = h[j]
       /\ \A j \in DOMAIN k : \/ j < i /\ j \in DOMAIN h /\ k[j] = h[j]
                              \/ j >= i /\ j + 1 \in DOMAIN h /\ k[j] = h[j + 1]
  BY <1>1, <1>4, <1>8, <1>9, <1>10
<1> QED BY <1>11, <1>12 DEF k

\* Where place p is once entry i is taken out.
Follow(p, i) == IF i < p THEN p - 1 ELSE p

\* An eviction keeps entries numbered and leads the cursor to the entry it
\* was at.
LEMMA RemovedKeeps ==
    ASSUME NEW h \in Seq(Entries), NEW i \in DOMAIN h, NEW n, Numbered(h, n),
           NEW p \in Nat, i # p
    PROVE  LET g == RemoveAt(h, i) IN
           /\ g \in Seq(Entries) /\ Numbered(g, n) /\ Ids(g) = Ids(h) \ {h[i].id}
           /\ Follow(p, i) \in Nat
           /\ p \in DOMAIN h => Follow(p, i) \in DOMAIN g /\ g[Follow(p, i)] = h[p]
           /\ p \notin DOMAIN h => Follow(p, i) \notin DOMAIN g
<1> DEFINE g == RemoveAt(h, i)
<1>1. /\ g \in Seq(Entries) /\ Len(h) \in Nat /\ i \in Nat
      /\ DOMAIN h = 1 .. Len(h) /\ DOMAIN g = 1 .. Len(h) - 1
      /\ \A j \in DOMAIN h : /\ j < i => j \in DOMAIN g /\ g[j] = h[j]
                             /\ j > i => j - 1 \in DOMAIN g /\ g[j - 1] = h[j]
      /\ \A j \in DOMAIN g : \/ j < i /\ j \in DOMAIN h /\ g[j] = h[j]
                             \/ j >= i /\ j + 1 \in DOMAIN h /\ g[j] = h[j + 1]
  BY Removed
<1> HIDE DEF g
<1>2. ASSUME NEW j \in DOMAIN g, NEW k \in DOMAIN g, g[j].id = g[k].id PROVE j = k
  <2>1. PICK j1 \in DOMAIN h : g[j] = h[j1] /\ j1 = IF j < i THEN j ELSE j + 1
    BY <1>1
  <2>2. PICK k1 \in DOMAIN h : g[k] = h[k1] /\ k1 = IF k < i THEN k ELSE k + 1
    BY <1>1
  <2>3. j1 = k1
    BY <1>2, <2>1, <2>2 DEF Numbered
  <2> QED BY <2>1, <2>2, <2>3, <1>1
<1>3. \A j \in DOMAIN g : g[j].id < n
  BY <1>1 DEF Numbered
<1>4. Ids(g) \subseteq Ids(h) \ {h[i].id}
  <2> SUFFICES ASSUME NEW j \in DOMAIN g PROVE g[j].id \in Ids(h) /\ g[j].id # h[i].id
    BY DEF Ids
  <2>1. PICK j1 \in DOMAIN h : g[j] = h[j1] /\ j1 = IF j < i THEN j ELSE j + 1
    BY <1>1
  <2>2. j1 # i
    BY <2>1, <1>1
  <2> QED BY <2>1, <2>2 DEF Numbered, Ids
<1>5. Ids(h) \ {h[i].id} \subseteq Ids(g)
  <2> SUFFICES ASSUME NEW j \in DOMAIN h, h[j].id # h[i].id PROVE h[j].id \in Ids(g)
    BY DEF Ids
  <2>1. j # i
    OBVIOUS
  <2>2. \E k \in DOMAIN g : g[k] = h[j]
    BY <2>1, <1>1
  <2> QED BY <2>2 DEF Ids
<1>6. Follow(p, i) \in Nat
  BY <1>1 DEF Follow
<1>7. p \in DOMAIN h => Follow(p, i) \in DOMAIN g /\ g[Follow(p, i)] = h[p]
  BY <1>1 DEF Follow
<1>8. p \notin DOMAIN h => Follow(p, i) \notin DOMAIN g
  BY <1>1 DEF Follow
<1> QED BY <1>1, <1>2, <1>3, <1>4, <1>5, <1>6, <1>7, <1>8 DEF Numbered, g

\* What the invariant says while room is being made.
LEMMA AtEvict ==
    ASSUME NEW m, NEW r, NEW w, InvOf(m, r, w), w # <<>>, Head(w).e \in Evicts
    PROVE  /\ Sound(m, r) /\ AllPlain(Tail(w)) /\ r.arts = Ids(m.hist)
           /\ Tail(w) \in Seq(Effects)
           /\ \/ m.retry = None /\ Settled(m, r, {}) /\ Drained(r)
              \/ m.retry \in Effects /\ m.retry.e \in Rejectable /\ m.retry # None
                 /\ OneOK(m, r, m.retry)
<1>0. w \in Seq(Effects) /\ Tail(w) \in Seq(Effects)
  BY HeadTail DEF InvOf
<1>1. ~Closing(m, r, w)
  BY <1>0, HeadTail DEF Closing, AllTrivial, Trivial, Plain, Evicts
<1>2. AsIs(m, r, w) \/ Evicting(m, r, w)
  BY <1>1 DEF InvOf, RetiringWork, RetiringSubs, Evicts
<1>3. CASE AsIs(m, r, w)
  <2>1. Good(m, r, w) /\ m.retry = None /\ Sound(m, r)
    BY <1>3 DEF AsIs, Good
  <2>2. Head(w).e \notin Trivial /\ ~FrontPair(m, r, w)
    BY DEF Evicts, Trivial, Plain, FrontPair, PairOK
  <2>3. FrontOne(m, r, w)
    BY <2>1, <2>2, Front
  <2>4. InstalledBy(Head(w)) = {}
    BY DEF InstalledBy, Evicts
  <2>5. Settled(m, r, {}) /\ Drained(r)
    BY <2>3 DEF FrontOne, OneOK, ErrorOK, SoloOK, NavOK, NavSteps, Evicts
  <2> QED BY <1>0, <2>1, <2>3, <2>4, <2>5 DEF FrontOne
<1>4. CASE Evicting(m, r, w)
  <2> DEFINE a == m.retry
             g == <<a>> \o Tail(w)
  <2>1. a \in Effects /\ a.e \in Rejectable /\ Good(m, r, g)
    BY <1>4 DEF Evicting
  <2>2. a # None
    BY <2>1, NoneAssumption
  <2>3. g # <<>> /\ Head(g) = a /\ Tail(g) = Tail(w)
    BY <1>0, <2>1, Cons
  <2> HIDE DEF g, a
  <2>4. Head(g).e \notin Trivial /\ ~FrontPair(m, r, g)
    BY <2>1, <2>3 DEF Rejectable, Trivial, Plain, FrontPair, PairOK
  <2>5. FrontOne(m, r, g)
    BY <2>1, <2>3, <2>4, Front
  <2>6. InstalledBy(a) = {}
    BY <2>1 DEF InstalledBy, Rejectable
  <2> QED BY <1>0, <2>1, <2>2, <2>3, <2>5, <2>6 DEF FrontOne, Good, a
<1> QED BY <1>2, <1>3, <1>4

\* The effect that was set aside, put back in front, keeps the invariant.
LEMMA RetriedGood ==
    ASSUME NEW m, NEW r, Sound(m, r), m.retry = None, r.arts = Ids(m.hist),
           NEW a \in Effects, a.e \in Rejectable, OneOK(m, r, a),
           NEW t \in Seq(Effects), AllPlain(t)
    PROVE  InvOf(m, r, (<<a>> \o Render) \o t)
<1>1. Render \in Seq(Effects) /\ Render \o t \in Seq(Effects) /\ AllPlain(Render \o t)
  BY Rendered
<1>2. InstalledBy(a) = {}
  BY DEF InstalledBy, Rejectable
<1>3. InvOf(m, r, <<a>> \o (Render \o t))
  BY <1>1, <1>2, OnGood
<1>4. <<a>> \in Seq(Effects)
  OBVIOUS
<1>5. (<<a>> \o Render) \o t = <<a>> \o (Render \o t)
  BY <1>1, <1>4, Assoc
<1> QED BY <1>3, <1>5

\* Evicting a cached resource keeps the invariant.
LEMMA EvictResourceKeeps == ASSUME Inv, ExecEvictResource PROVE Inv'
<1> DEFINE s == [rt EXCEPT !.cache = IF @ > 0 THEN @ - 1 ELSE 0]
           t == Tail(q)
           b == ResourceEvictionCompleted(v, rt.cache > 0)
           n == [v EXCEPT !.retry = None]
           c == Fx("EvictHistory", None, None)
<1>1. q # <<>> /\ Head(q).e = "EvictResource" /\ Done(b, s)
  BY DEF ExecEvictResource, Executing, Head1
<1>2. /\ Sound(v, rt) /\ AllPlain(t) /\ rt.arts = Ids(v.hist) /\ t \in Seq(Effects)
      /\ \/ v.retry = None /\ Settled(v, rt, {}) /\ Drained(rt)
         \/ v.retry \in Effects /\ v.retry.e \in Rejectable /\ v.retry # None
            /\ OneOK(v, rt, v.retry)
      /\ DOMAIN v = ModelFields /\ DOMAIN rt = RuntimeFields
  BY <1>1, AtEvict DEF Inv, Evicts, Sound, ModelType, RuntimeType
<1>3. ElseR(rt, s, {"cache"})
  <2>1. DOMAIN s = RuntimeFields
    BY <1>2, Zenon
  <2>2. \A f \in RuntimeFields \ {"cache"} : s[f] = rt[f]
    BY <1>2, Zenon
  <2> QED BY <2>1, <2>2 DEF ElseR
<1> HIDE DEF s
<1>4. ElseR(rt, s, UnseenR)
      /\ s.arts = rt.arts /\ s.live = rt.live /\ s.kept = rt.kept /\ s.trust = rt.trust
  BY <1>3, ElseRParts DEF ElseR, UnseenR
<1>5. Else(v, n, Unseen) /\ n.retry = None /\ Else(v, v, Unseen)
  BY <1>2, RetryFields, ElseSelf
<1> HIDE DEF n
<1>6. Sound(n, s) /\ Sound(v, s) /\ n.hist = v.hist
  BY <1>2, <1>4, <1>5, SoundSame, ElseParts DEF Sound, RuntimeType, Unseen
<1>7. /\ Settled(v, rt, {}) => Settled(n, s, {}) /\ Settled(v, s, {})
      /\ Drained(rt) => Drained(s)
      /\ OneOK(v, rt, v.retry) => OneOK(n, s, v.retry) /\ OneOK(v, s, v.retry)
  BY <1>4, <1>5, Frames, SameOne
<1>8. CASE rt.cache > 0
  <2>1. b = Ret(n, When(v.retry # None, <<v.retry>>) \o Render)
    BY <1>8 DEF ResourceEvictionCompleted, RetryEffects, n
  <2>2. CASE v.retry = None /\ Settled(v, rt, {}) /\ Drained(rt)
    <3>1. When(v.retry # None, <<v.retry>>) \o Render = Render
      <4>1. When(v.retry # None, <<v.retry>>) = <<>> /\ Render \in Seq(Effects)
        BY <2>2, <1>2, Rendered DEF When
      <4> QED BY <4>1, ConcatEmptySeq
    <3>2. InvOf(n, s, Render \o t)
      BY <2>2, <1>2, <1>4, <1>5, <1>6, <1>7, RestGood
    <3>3. b = Ret(n, Render)
      BY <2>1, <3>1
    <3> HIDE DEF b
    <3>4. b.v = n /\ b.fx = Render
      BY <3>3, RetParts
    <3> QED BY <3>2, <3>4, <1>1 DEF Done, Inv
  <2>3. CASE v.retry \in Effects /\ v.retry.e \in Rejectable /\ v.retry # None
            /\ OneOK(v, rt, v.retry)
    <3>1. When(v.retry # None, <<v.retry>>) = <<v.retry>>
      BY <2>3 DEF When
    <3>2. InvOf(n, s, (<<v.retry>> \o Render) \o t)
      <4> DEFINE a == v.retry
      <4> HIDE DEF a
      <4>1. InvOf(n, s, (<<a>> \o Render) \o t)
        BY <2>3, <1>2, <1>4, <1>5, <1>6, <1>7, RetriedGood DEF a
      <4> QED BY <4>1 DEF a
    <3> QED BY <2>1, <3>1, <3>2, <1>1, RetParts DEF Done, Inv
  <2> QED BY <2>2, <2>3, <1>2
<1>9. CASE ~(rt.cache > 0)
  <2>1. b = Ret(v, <<c>>)
    BY <1>9 DEF ResourceEvictionCompleted
  <2>2. c \in Effects /\ c.e = "EvictHistory"
    BY EffectOf, FxParts DEF Bare
  <2> HIDE DEF c
  <2>3. CASE v.retry = None /\ Settled(v, rt, {}) /\ Drained(rt)
    <3>1. OneOK(v, s, c) /\ InstalledBy(c) = {}
      BY <2>2, <2>3, <1>7 DEF OneOK, SoloOK, InstalledBy
    <3>2. InvOf(v, s, <<c>> \o t)
      BY <2>2, <2>3, <3>1, <1>2, <1>4, <1>6, OnGood
    <3> QED BY <2>1, <3>2, <1>1, RetParts DEF Done, Inv
  <2>4. CASE v.retry \in Effects /\ v.retry.e \in Rejectable /\ v.retry # None
            /\ OneOK(v, rt, v.retry)
    <3> DEFINE a == v.retry
               g == <<c>> \o t
    <3> HIDE DEF a
    <3>1. /\ g \in Seq(Effects) /\ g # <<>> /\ Head(g) = c /\ Tail(g) = t
      BY <2>2, <1>2, Cons
    <3>2. InstalledBy(a) = {}
      BY <2>4 DEF InstalledBy, Rejectable, a
    <3>3. Good(v, s, <<a>> \o t)
      BY <2>4, <3>2, <1>2, <1>4, <1>6, <1>7, Again DEF a
    <3> HIDE DEF g
    <3>4. Evicting(v, s, g)
      BY <2>2, <2>4, <3>1, <3>3 DEF Evicting, Evicts, a
    <3>5. InvOf(v, s, g)
      BY <3>1, <3>4 DEF InvOf
    <3> QED BY <2>1, <3>5, <1>1, RetParts DEF Done, Inv, g
  <2> QED BY <2>3, <2>4, <1>2
<1> QED BY <1>8, <1>9

\* Evicting an entry that is not under the cursor keeps everything a queue
\* depends on.
LEMMA EvictedOne ==
    ASSUME NEW m, NEW r, Sound(m, r), NEW i \in DOMAIN m.hist, i # m.pos,
           NEW n, Else(m, n, {"hist", "pos", "retry"}),
           n.hist = RemoveAt(m.hist, i), n.pos = Follow(m.pos, i),
           NEW s, ElseR(r, s, {"shifted"}), s.shifted = (r.shifted \/ m.pend # None)
    PROVE  /\ Sound(n, s) /\ Ids(n.hist) = Ids(m.hist) \ {m.hist[i].id}
           /\ Settled(m, r, {}) => Settled(n, s, {})
           /\ Drained(r) => Drained(s)
           /\ \A a : a.e \in Rejectable /\ OneOK(m, r, a) => OneOK(n, s, a)
<1>1. /\ m.hist \in Seq(Entries) /\ m.pos \in Nat /\ Numbered(m.hist, m.nhid)
      /\ RuntimeType(r) /\ LiveShown(m, r)
  BY DEF Sound, ModelType
<1>2. /\ n.hist \in Seq(Entries) /\ Numbered(n.hist, m.nhid)
      /\ Ids(n.hist) = Ids(m.hist) \ {m.hist[i].id} /\ n.pos \in Nat
      /\ m.pos \in DOMAIN m.hist => n.pos \in DOMAIN n.hist /\ n.hist[n.pos] = m.hist[m.pos]
      /\ m.pos \notin DOMAIN m.hist => n.pos \notin DOMAIN n.hist
  BY <1>1, RemovedKeeps
<1>3. /\ n.phase = m.phase /\ n.scope = m.scope /\ n.uri = m.uri /\ n.conn = m.conn
      /\ n.out = m.out /\ n.subs = m.subs /\ n.psubs = m.psubs /\ n.gen = m.gen
      /\ n.nreq = m.nreq /\ n.nhid = m.nhid /\ n.recon = m.recon /\ n.commit = m.commit
      /\ n.pend = m.pend /\ n.pcommit = m.pcommit /\ n.presize = m.presize
      /\ DOMAIN n = ModelFields
  BY ElseParts
<1>4. /\ s.shown = r.shown /\ s.fetched = r.fetched /\ s.parsed = r.parsed
      /\ s.nav = r.nav /\ s.layout = r.layout /\ s.artifact = r.artifact
      /\ s.activated = r.activated /\ s.batch = r.batch /\ s.pwasm = r.pwasm
      /\ s.proposal = r.proposal /\ s.deferred = r.deferred /\ s.trust = r.trust
      /\ s.live = r.live /\ s.kept = r.kept /\ s.lost = r.lost /\ DOMAIN s = RuntimeFields
  BY ElseRParts
<1>5. Sound(n, s)
  <2>1. ModelType(n)
    BY <1>2, <1>3 DEF Sound, ModelType
  <2>2. RuntimeType(s)
    BY <1>1, <1>4 DEF RuntimeType
  <2>3. LiveShown(n, s)
    BY <1>1, <1>3, <1>4 DEF LiveShown
  <2> QED BY <2>1, <2>2, <2>3, <1>2, <1>3 DEF Sound
<1>6. \A R : Accounted(m, r, R) => Accounted(n, s, R)
  BY <1>3, <1>4 DEF Accounted
<1>7. Cursor(m, r) => Cursor(n, s)
  BY <1>2, <1>4 DEF Cursor, IsAt
<1>8. \A R : Settled(m, r, R) => Settled(n, s, R)
  BY <1>3, <1>6, <1>7 DEF Settled
<1>9. (NoPage(r) => NoPage(s)) /\ (NoFrame(r) => NoFrame(s)) /\ (Drained(r) => Drained(s))
  BY <1>4 DEF NoPage, NoFrame, Drained
<1>10. Pending(m, r) => Pending(n, s)
  BY <1>3 DEF Pending
<1>11. \A o : LayoutReady(m, r, o) => LayoutReady(n, s, o)
  BY <1>3, <1>4, <1>9, <1>10 DEF LayoutReady, Holds
<1>12. \A o : FrameReady(m, r, o) => FrameReady(n, s, o)
  BY <1>3, <1>4, <1>9 DEF FrameReady, Holds
<1>13. ReplacedId(n) = ReplacedId(m)
  BY <1>2, <1>3 DEF ReplacedId
<1>14. ASSUME NEW a, a.e \in Rejectable, OneOK(m, r, a) PROVE OneOK(n, s, a)
  <2>1. ~ErrorOK(m, r, a)
    BY <1>14 DEF ErrorOK, Rejectable
  <2>2. CASE SoloOK(m, r, a)
    <3>1. SoloOK(n, s, a)
      BY <2>2, <1>14, <1>3, <1>4, <1>8, <1>9 DEF SoloOK, Owns, Rejectable
    <3> QED BY <3>1 DEF OneOK
  <2>3. CASE NavOK(m, r, a)
    <3>1. NavOK(n, s, a)
      BY <2>3, <1>14, <1>3, <1>4, <1>6, <1>9, <1>10, <1>11, <1>12, <1>13
         DEF NavOK, Owns, Holds, Rejectable
    <3> QED BY <3>1 DEF OneOK
  <2> QED BY <2>1, <2>2, <2>3, <1>14 DEF OneOK
<1> QED BY <1>2, <1>5, <1>8, <1>9, <1>14

\* What evicting an entry sets, field by field.
LEMMA VictimFields ==
    ASSUME NEW m, DOMAIN m = ModelFields, NEW i
    PROVE  LET n == [m EXCEPT !.hist = RemoveAt(@, i), !.retry = None,
                              !.pos = IF i < @ THEN @ - 1 ELSE @]
           IN /\ Else(m, n, {"hist", "pos", "retry"})
              /\ n.hist = RemoveAt(m.hist, i) /\ n.pos = Follow(m.pos, i) /\ n.retry = None
<1> DEFINE n == [m EXCEPT !.hist = RemoveAt(@, i), !.retry = None,
                              !.pos = IF i < @ THEN @ - 1 ELSE @]
<1>1. DOMAIN n = ModelFields
  BY Zenon
<1>2. \A f \in ModelFields \ {"hist", "pos", "retry"} : n[f] = m[f]
  BY Zenon
<1>3. n.hist = RemoveAt(m.hist, i) /\ n.pos = Follow(m.pos, i) /\ n.retry = None
  BY SMT DEF ModelFields, Follow
<1> QED BY <1>1, <1>2, <1>3 DEF Else

\* Giving the effect up after the last eviction gives its navigation up.
LEMMA ReducedFields ==
    ASSUME NEW m, DOMAIN m = ModelFields
    PROVE  LET n == [m EXCEPT !.retry = None, !.phase = "Failed",
                          !.conn = "Disconnected", !.subs = {}, !.psubs = {},
                          !.out = {}, !.recon = None, !.presize = None]
           IN FailsTo(m, n) /\ n.retry = None
<1> DEFINE n == [m EXCEPT !.retry = None, !.phase = "Failed",
                          !.conn = "Disconnected", !.subs = {}, !.psubs = {},
                          !.out = {}, !.recon = None, !.presize = None]
<1>1. DOMAIN n = ModelFields
  BY Zenon
<1>2. n.phase = "Failed" /\ n.conn = "Disconnected" /\ n.out = {} /\ n.subs = {}
      /\ n.retry = None
  BY SMT DEF ModelFields
<1>3. n.hist = m.hist /\ n.pos = m.pos /\ n.scope = m.scope /\ n.uri = m.uri
      /\ n.pend = m.pend
  BY SMT DEF ModelFields
<1>4. n.gen = m.gen /\ n.nreq = m.nreq /\ n.nhid = m.nhid /\ n.commit = m.commit
  BY SMT DEF ModelFields
<1> HIDE DEF n
<1>5. FailsTo(m, n)
  BY <1>1, <1>2, <1>3, <1>4 DEF FailsTo
<1> QED BY <1>2, <1>5 DEF n

\* A navigation given up at a rejected step leaves nothing staged outside
\* its scope.
LEMMA NavClears ==
    ASSUME NEW m, NEW r, NEW a, NavOK(m, r, a), a.e \in Rejectable
    PROVE  Clears(r, m.scope) /\ Owns(m, a.o) /\ (m.pend = None \/ Pending(m, r))
<1>1. Owns(m, a.o) /\ a.o.scope = m.scope
  BY DEF NavOK, Owns
<1>2. \A x : Holds(x, a.o) => ClearScope(x, m.scope) = None
  BY <1>1 DEF Holds, ClearScope, InScope
<1>3. ClearScope(None, m.scope) = None
  BY DEF ClearScope, InScope
<1>4. \/ Drained(r)
      \/ /\ Holds(r.fetched, a.o)
         /\ r.parsed = None /\ r.batch = None /\ NoFrame(r) /\ r.pwasm = None
      \/ LayoutReady(m, r, a.o) /\ r.pwasm = None
      \/ FrameReady(m, r, a.o) /\ Holds(r.artifact, a.o)
  BY DEF NavOK, Rejectable
<1>5. Clears(r, m.scope)
  BY <1>2, <1>3, <1>4 DEF Clears, Drained, NoPage, NoFrame, LayoutReady, FrameReady
<1>6. m.pend = None \/ Pending(m, r)
  BY DEF NavOK, Rejectable, LayoutReady
<1> QED BY <1>1, <1>5, <1>6

\* Two effects in a row.
LEMMA Two ==
    ASSUME NEW a \in Effects, NEW b \in Effects
    PROVE  <<a>> \o <<b>> = <<a, b>>
<1>1. <<a>> \in Seq(Effects) /\ <<b>> \in Seq(Effects) /\ <<a, b>> \in Seq(Effects)
      /\ Len(<<a>>) = 1 /\ Len(<<b>>) = 1 /\ Len(<<a, b>>) = 2
  OBVIOUS
<1> DEFINE g == <<a>> \o <<b>>
<1>2. g \in Seq(Effects) /\ Len(g) = 2
      /\ \A i \in 1 .. 2 : g[i] = IF i <= 1 THEN <<a>>[i] ELSE <<b>>[i - 1]
  <2> DEFINE x == <<a>>
             y == <<b>>
  <2> HIDE DEF x, y
  <2>1. /\ x \o y \in Seq(Effects) /\ Len(x \o y) = Len(x) + Len(y)
        /\ \A i \in 1 .. Len(x) + Len(y) : (x \o y)[i] = IF i <= Len(x) THEN x[i] ELSE y[i - Len(x)]
    BY <1>1, ConcatProperties DEF x, y
  <2> QED BY <2>1, <1>1 DEF x, y
<1> HIDE DEF g
<1>3. g[1] = a /\ g[2] = b
  BY <1>2
<1>4. \A i \in 1 .. 2 : g[i] = <<a, b>>[i]
  BY <1>3
<1> DEFINE h == <<a, b>>
<1>5. h \in Seq(Effects) /\ Len(h) = 2 /\ \A i \in 1 .. 2 : g[i] = h[i]
  BY <1>1, <1>4
<1> HIDE DEF h
<1>6. g = h
  BY <1>2, <1>5, SeqEqual
<1> QED BY <1>6 DEF g, h

\* With all settled a queue of drawing is at its end.
LEMMA StageRest ==
    ASSUME NEW m, NEW r, Settled(m, r, {}), Drained(r), NEW t, AllPlain(t)
    PROVE  Stage(m, r, t)
  BY DEF Stage, AllPlain, AllTrivial, Trivial

\* An effect put back in front, with its conditions, is a stage.
LEMMA StageAgain ==
    ASSUME NEW m, NEW r, NEW a \in Effects, OneOK(m, r, a),
           NEW t \in Seq(Effects), AllPlain(t)
    PROVE  Stage(m, r, <<a>> \o t)
<1> DEFINE g == <<a>> \o t
<1>1. g \in Seq(Effects) /\ g # <<>> /\ Head(g) = a /\ Tail(g) = t
  BY Cons
<1> HIDE DEF g
<1>2. g[1] = a /\ 1 \in DOMAIN g
      /\ \A i \in DOMAIN g : i # 1 => i \in Nat /\ i > 1 /\ i - 1 \in DOMAIN t /\ t[i - 1] = g[i]
  BY <1>1, HeadTail
<1>3. Single(g, 1)
  BY <1>2 DEF Single, AllPlain
<1> QED BY <1>2, <1>3 DEF Stage, g

\* An artifact released before the rest keeps the invariant when the books
\* balance without it.
LEMMA ReleaseFirst ==
    ASSUME NEW m, NEW r, Sound(m, r), m.retry = None, NEW id \in Nat,
           r.arts \ {id} = Ids(m.hist),
           NEW w \in Seq(Effects), Stage(m, r, w), Released(w) = {}, Installed(w) = {}
    PROVE  InvOf(m, r, <<Fx("ReleaseHistoryArtifact", None, id)>> \o w)
<1> DEFINE b == Fx("ReleaseHistoryArtifact", None, id)
<1>1. b \in Effects /\ b.e = "ReleaseHistoryArtifact" /\ b.x = id
  BY EffectOf, FxParts
<1> HIDE DEF b
<1>2. b.e \in Trivial /\ ReleasedBy(b) = {id}
  BY <1>1 DEF Trivial, ReleasedBy
<1>3. Good(m, r, <<b>> \o w)
  BY <1>1, <1>2, GoodBefore
<1> QED BY <1>3 DEF InvOf, AsIs, Good, b

\* Evicting an entry of the history keeps the invariant, whether the
\* effect set aside is tried again or given up.
LEMMA EvictHistoryKeeps == ASSUME Inv, ExecEvictHistory PROVE Inv'
<1> DEFINE s == [rt EXCEPT !.shifted = @ \/ (v.pend # None /\ EvictableEntries(v) # {})]
           t == Tail(q)
           b == HistoryEvictionRequested(v)
<1>1. q # <<>> /\ Head(q).e = "EvictHistory" /\ Done(b, s)
  BY DEF ExecEvictHistory, Executing, Head1
<1>2. /\ Sound(v, rt) /\ AllPlain(t) /\ rt.arts = Ids(v.hist) /\ t \in Seq(Effects)
      /\ \/ v.retry = None /\ Settled(v, rt, {}) /\ Drained(rt)
         \/ v.retry \in Effects /\ v.retry.e \in Rejectable /\ v.retry # None
            /\ OneOK(v, rt, v.retry)
      /\ DOMAIN v = ModelFields /\ DOMAIN rt = RuntimeFields
      /\ v.hist \in Seq(Entries) /\ v.scope \in Scopes
  BY <1>1, AtEvict DEF Inv, Evicts, Sound, ModelType, RuntimeType
<1>3. ElseR(rt, s, {"shifted"})
      /\ s.shifted = (rt.shifted \/ (v.pend # None /\ EvictableEntries(v) # {}))
  <2>1. DOMAIN s = RuntimeFields
    BY <1>2, Zenon
  <2>2. \A f \in RuntimeFields \ {"shifted"} : s[f] = rt[f]
    BY <1>2, Zenon
  <2>3. s.shifted = (rt.shifted \/ (v.pend # None /\ EvictableEntries(v) # {}))
    <3>1. "shifted" \in DOMAIN rt
      BY <1>2 DEF RuntimeFields
    <3> QED BY <3>1, Zenon
  <2> QED BY <2>1, <2>2, <2>3 DEF ElseR
<1> HIDE DEF s
<1>4. s.arts = rt.arts /\ s.live = rt.live /\ s.kept = rt.kept /\ s.trust = rt.trust
  BY <1>3, ElseRParts
<1>5. Render \in Seq(Effects) /\ Render \o t \in Seq(Effects) /\ AllPlain(Render \o t)
      /\ <<>> \o Render = Render
  BY <1>2, Rendered, ConcatEmptySeq
<1>6. CASE EvictableEntries(v) # {}
  <2> DEFINE i == CHOOSE i \in EvictableEntries(v) : \A j \in EvictableEntries(v) : i <= j
             n == [v EXCEPT !.hist = RemoveAt(@, i), !.retry = None,
                            !.pos = IF i < @ THEN @ - 1 ELSE @]
             id == v.hist[i].id
             c == Fx("ReleaseHistoryArtifact", None, id)
  <2>1. i \in DOMAIN v.hist /\ i # v.pos
    <3>1. EvictableEntries(v) \in SUBSET Nat
      BY <1>2 DEF EvictableEntries
    <3>2. i \in EvictableEntries(v)
      BY <1>6, <3>1, LeastNat
    <3> QED BY <3>2 DEF EvictableEntries
  <2>2. b = Ret(n, <<c>> \o RetryEffects(v))
    BY <1>6 DEF HistoryEvictionRequested
  <2> HIDE DEF i, b
  <2>3. /\ Else(v, n, {"hist", "pos", "retry"})
        /\ n.hist = RemoveAt(v.hist, i) /\ n.pos = Follow(v.pos, i) /\ n.retry = None
    BY <1>2, VictimFields
  <2> HIDE DEF n
  <2>4. s.shifted = (rt.shifted \/ v.pend # None)
    BY <1>3, <1>6
  <2>5. /\ Sound(n, s) /\ Ids(n.hist) = Ids(v.hist) \ {id}
        /\ Settled(v, rt, {}) => Settled(n, s, {})
        /\ Drained(rt) => Drained(s)
        /\ \A a : a.e \in Rejectable /\ OneOK(v, rt, a) => OneOK(n, s, a)
    BY <1>2, <1>3, <2>1, <2>3, <2>4, EvictedOne
  <2>6. id \in Nat
    <3>1. v.hist[i] \in Entries
      BY <1>2, <2>1
    <3> QED BY <3>1 DEF Entries
  <2>7. s.arts \ {id} = Ids(n.hist)
    BY <1>2, <1>4, <2>5
  <2>8. c \in Effects
    BY <2>6, EffectOf
  <2>9. ASSUME NEW f \in Seq(Effects), RetryEffects(v) = f,
               Stage(n, s, f \o t), Released(f \o t) = {}, Installed(f \o t) = {}
        PROVE  Inv'
    <3>1. f \o t \in Seq(Effects)
      BY <1>2, ConcatProperties
    <3>2. InvOf(n, s, <<c>> \o (f \o t))
      BY <2>3, <2>5, <2>6, <2>7, <2>9, <3>1, ReleaseFirst
    <3>3. <<c>> \in Seq(Effects)
      BY <2>8
    <3> HIDE DEF c
    <3>4. (<<c>> \o f) \o t = <<c>> \o (f \o t)
      BY <3>3, <1>2, Assoc
    <3>5. b.v = n /\ b.fx = <<c>> \o f
      BY <2>2, <2>9, RetParts
    <3> QED BY <1>1, <3>2, <3>4, <3>5 DEF Done, Inv
  <2>10. CASE v.retry = None /\ Settled(v, rt, {}) /\ Drained(rt)
    <3>1. RetryEffects(v) = Render
      BY <2>10, <1>5 DEF RetryEffects, When
    <3>2. Stage(n, s, Render \o t)
      BY <1>5, <2>5, <2>10, StageRest
    <3>3. Released(Render \o t) = {} /\ Installed(Render \o t) = {}
      BY <1>5, NothingIn
    <3> QED BY <2>9, <3>1, <3>2, <3>3, <1>5
  <2>11. CASE v.retry \in Effects /\ v.retry.e \in Rejectable /\ v.retry # None
            /\ OneOK(v, rt, v.retry)
    <3> DEFINE a == v.retry
               p == Render \o t
               f == <<a>> \o Render
    <3>1. RetryEffects(v) = f
      BY <2>11 DEF RetryEffects, When
    <3>2. OneOK(n, s, a)
      BY <2>5, <2>11
    <3>3. ReleasedBy(a) = {} /\ InstalledBy(a) = {}
      BY <2>11 DEF ReleasedBy, InstalledBy, Rejectable
    <3>4. a \in Effects
      BY <2>11
    <3> HIDE DEF a
    <3>5. <<a>> \in Seq(Effects)
      BY <3>4
    <3>6. f \in Seq(Effects) /\ f \o t = <<a>> \o p
      BY <3>5, <1>2, <1>5, Assoc, ConcatProperties
    <3> HIDE DEF f
    <3>7. Stage(n, s, <<a>> \o p)
      BY <3>2, <3>4, <1>5, StageAgain
    <3>8. Released(p) = {} /\ Installed(p) = {} /\ p \in Seq(Effects)
      BY <1>5, NothingIn
    <3> HIDE DEF p
    <3>9. <<a>> \o p \in Seq(Effects) /\ <<a>> \o p # <<>> /\ Head(<<a>> \o p) = a /\ Tail(<<a>> \o p) = p
      BY <3>4, <3>8, Cons
    <3> DEFINE g == <<a>> \o p
    <3> HIDE DEF g
    <3>10. Released(g) = {} /\ Installed(g) = {}
      BY <3>3, <3>8, <3>9, FrontBooks DEF g
    <3>11. f \o t = g
      BY <3>6 DEF g
    <3> QED BY <2>9, <3>1, <3>6, <3>7, <3>10, <3>11 DEF g
  <2> QED BY <2>10, <2>11, <1>2
<1>7. CASE EvictableEntries(v) = {}
  <2>1. ElseR(rt, s, UnseenR)
    <3>1. "shifted" \in DOMAIN rt /\ s.shifted = rt.shifted
      BY <1>2, <1>3, <1>7 DEF RuntimeFields, Sound, RuntimeType
    <3> QED BY <1>3, <3>1 DEF ElseR
  <2>2. CASE v.retry # None /\ v.retry.e \in {"Parse", "PrepareLayout",
                             "AdmitHistoryArtifact", "ActivateCachedHistory"}
    <3> DEFINE n == [v EXCEPT !.retry = None]
               a == v.retry
    <3>1. b = fail_owned_operation(n, a.o)
      BY <1>7, <2>2 DEF HistoryEvictionRequested
    <3> HIDE DEF b, a
    <3>2. Else(v, n, Unseen) /\ n.retry = None
      BY <1>2, RetryFields
    <3> HIDE DEF n
    <3>3. OneOK(n, s, a) /\ Sound(n, s) /\ n.hist = v.hist
      BY <1>2, <1>4, <2>1, <2>2, <3>2, SameOne, SoundSame, ElseParts
         DEF Sound, RuntimeType, Unseen, a
    <3>4. NavOK(n, s, a) /\ a.e \in Rejectable
      BY <2>2, <3>3 DEF OneOK, ErrorOK, SoloOK, Rejectable, a
    <3>5. Clears(s, n.scope) /\ Owns(n, a.o) /\ (n.pend = None \/ Pending(n, s))
      BY <3>4, NavClears
    <3>6. LET f == fail_owned_operation(n, a.o) IN InvOf(f.v, s, f.fx \o t)
      BY <1>2, <1>4, <3>2, <3>3, <3>5, FailGood
    <3> QED BY <1>1, <3>1, <3>6 DEF Done, Inv
  <2>3. CASE ~(v.retry # None /\ v.retry.e \in {"Parse", "PrepareLayout",
                             "AdmitHistoryArtifact", "ActivateCachedHistory"})
    <3> DEFINE n == [v EXCEPT !.retry = None, !.phase = "Failed",
                          !.conn = "Disconnected", !.subs = {}, !.psubs = {},
                          !.out = {}, !.recon = None, !.presize = None]
               x == Fx("RetirePageWork", None, v.scope)
               a == Fx("ActivateErrorPage", None, None)
    <3>1. b = Ret(n, When(v.scope # None, <<x>>) \o <<a>> \o Render)
      BY <1>7, <2>3 DEF HistoryEvictionRequested
    <3> HIDE DEF b
    <3>2. FailsTo(v, n) /\ n.retry = None
      BY <1>2, ReducedFields
    <3> HIDE DEF n
    <3>3. v.pend = None /\ Drained(rt)
      <4>1. CASE v.retry = None /\ Settled(v, rt, {}) /\ Drained(rt)
        BY <4>1 DEF Settled
      <4>2. CASE v.retry \in Effects /\ v.retry.e \in Rejectable /\ v.retry # None
            /\ OneOK(v, rt, v.retry)
        <5>1. v.retry.e \in {"PrepareResizeProjection", "TickWasm", "ApplyUpdate",
                             "ApplyPresentationAction"}
          BY <2>3, <4>2 DEF Rejectable
        <5> QED BY <4>2, <5>1 DEF OneOK, ErrorOK, NavOK, NavSteps, SoloOK, Settled
      <4> QED BY <4>1, <4>2, <1>2
    <3>4. Else(v, v, Unseen)
      BY <1>2, ElseSelf
    <3>5. Drained(s) /\ Sound(v, s)
      BY <1>2, <1>4, <2>1, <3>3, <3>4, Frames, SoundSame DEF Sound, RuntimeType
    <3>6. Clears(s, v.scope)
      BY <3>5, DrainedClears
    <3>7. InvOf(n, s, (<<x, a>> \o Render) \o t)
      BY <1>2, <1>4, <3>2, <3>3, <3>5, <3>6, FailsGood
    <3>8. When(v.scope # None, <<x>>) \o <<a>> \o Render = <<x, a>> \o Render
      <4>1. When(v.scope # None, <<x>>) = <<x>>
        BY <1>2, NoneAssumption DEF When
      <4>2. x \in Effects /\ a \in Effects
        BY <1>2, EffectOf DEF Bare
      <4> HIDE DEF x, a
      <4>3. <<x>> \o <<a>> = <<x, a>>
        BY <4>2, Two
      <4> QED BY <4>1, <4>3
    <3> HIDE DEF x, a
    <3>9. b.v = n /\ b.fx = <<x, a>> \o Render
      BY <3>1, <3>8, RetParts
    <3> QED BY <1>1, <3>7, <3>9 DEF Done, Inv
  <2> QED BY <2>2, <2>3
<1> QED BY <1>6, <1>7

-----------------------------------------------------------------------------
(* Connections and answers                                                 *)

\* The fields of the model that a request in flight may change.
Work == {"conn", "out", "recon", "subs", "psubs", "presize", "nreq", "retry"}

\* The fields of the runtime that the answer to a request may change.
WorkR == RuntimeFields \ {"shown", "deferred", "lost", "shifted"}

\* A settled viewer stays settled when a request is answered.
LEMMA SettledThen ==
    ASSUME NEW m, NEW r, NEW R, Settled(m, r, R), NEW n, Else(m, n, Work),
           NEW s, ElseR(r, s, WorkR), NEW Q,
           \A k \in n.out : k \in Q \/ (k \in m.out /\ k \notin R)
    PROVE  Settled(n, s, Q)
<1>1. n.phase = m.phase /\ n.pend = m.pend /\ n.hist = m.hist /\ n.pos = m.pos
  BY ElseParts DEF Work
<1>2. s.shown = r.shown /\ s.deferred = r.deferred /\ s.lost = r.lost
      /\ s.shifted = r.shifted
  BY ElseRParts DEF WorkR, RuntimeFields
<1>3. Accounted(n, s, Q)
  BY <1>2 DEF Settled, Accounted
<1>4. Cursor(n, s)
  BY <1>1, <1>2 DEF Settled, Cursor
<1> QED BY <1>1, <1>3, <1>4 DEF Settled

\* A request that is answered is no longer outstanding.
LEMMA DropFields ==
    ASSUME NEW m, DOMAIN m = ModelFields, NEW o
    PROVE  Else(m, Drop(m, o), {"out"}) /\ Drop(m, o).out = m.out \ {o.req}
<1> DEFINE n == Drop(m, o)
<1>1. DOMAIN n = ModelFields
  BY Zenon DEF Drop
<1>2. \A f \in ModelFields \ {"out"} : n[f] = m[f]
  BY Zenon DEF Drop
<1>3. n.out = m.out \ {o.req}
  BY SMT DEF Drop, ModelFields
<1> QED BY <1>1, <1>2, <1>3 DEF Else

\* The answer to the only queued request leaves the viewer at rest.
LEMMA DropGood ==
    ASSUME NEW m, NEW r, Sound(m, r), m.retry = None, NEW o, Settled(m, r, {o.req}),
           Drained(r), r.arts = Ids(m.hist), NEW n, Else(m, n, Work \ {"subs", "retry"}),
           n.out \subseteq m.out \ {o.req}, n.conn \in Conns, n.nreq = m.nreq,
           NEW t \in Seq(Effects), AllPlain(t)
    PROVE  InvOf(n, r, <<>> \o t) /\ InvOf(n, r, Render \o t)
<1>1. DOMAIN r = RuntimeFields /\ ModelType(m) /\ RuntimeType(r)
  BY DEF Sound, RuntimeType
<1>2. ElseR(r, r, WorkR) /\ Else(m, n, Work)
  BY <1>1, ElseSelf DEF Else, Work
<1>3. Settled(n, r, {})
  BY <1>2, SettledThen
<1>4. n.hist = m.hist /\ n.retry = None
  BY ElseParts DEF Work
<1>5. Sound(n, r)
  <2>1. Else(m, n, {"phase", "conn", "out", "psubs", "nreq", "recon", "pcommit",
                       "presize", "retry"})
    BY DEF Else, Work
  <2>2. ElseR(r, r, RuntimeFields \ {"lost", "shifted"})
    BY <1>1, ElseSelf
  <2>3. n.phase # "ShuttingDown"
    BY <1>3 DEF Settled
  <2>4. n.nreq \in Nat /\ n.out \subseteq Nat /\ \A k \in n.out : k < n.nreq
    BY <1>1 DEF Sound, ModelType
  <2>5. r.live \subseteq r.live /\ r.kept \subseteq r.kept /\ r.trust \in Pages \cup {None}
        /\ (r.deferred # None => r.deferred.o \in Owners)
    BY <1>1 DEF RuntimeType
  <2> QED BY <2>1, <2>2, <2>3, <2>4, <2>5, SoundThen
<1> QED BY <1>3, <1>4, <1>5, RestGood

\* The model once a reconnection has ended, well or not.
Reconnected(m, o, c) == Drop([m EXCEPT !.conn = c, !.recon = None], o)

\* The same, field by field.
LEMMA ReconnectedFields ==
    ASSUME NEW m, DOMAIN m = ModelFields, NEW o, NEW c
    PROVE  LET n == Reconnected(m, o, c) IN
           Else(m, n, {"conn", "recon", "out"}) /\ n.conn = c /\ n.out = m.out \ {o.req}
<1> DEFINE p == [m EXCEPT !.conn = c, !.recon = None]
<1>1. DOMAIN p = ModelFields
  BY Zenon
<1>2. \A f \in ModelFields \ {"conn", "recon"} : p[f] = m[f]
  BY Zenon
<1>3. p.conn = c /\ p.out = m.out
  BY SMT DEF ModelFields
<1> HIDE DEF p
<1>4. Else(m, p, {"conn", "recon"})
  BY <1>1, <1>2 DEF Else
<1>5. Else(p, Drop(p, o), {"out"}) /\ Drop(p, o).out = p.out \ {o.req}
  BY <1>1, DropFields
<1>6. Drop(p, o).conn = c
  BY <1>3, <1>5, ElseParts
<1>7. Else(m, Drop(p, o), {"conn", "recon", "out"})
  BY <1>4, <1>5 DEF Else
<1>8. Reconnected(m, o, c) = Drop(p, o)
  BY DEF Reconnected, p
<1> QED BY <1>3, <1>5, <1>6, <1>7, <1>8

\* A connection for a navigation leads on to the fetch.
LEMMA ConnectedFields ==
    ASSUME NEW m, DOMAIN m = ModelFields
    PROVE  LET n == [m EXCEPT !.conn = "Connected", !.phase = "Fetching"] IN
           Else(m, n, {"conn", "phase"}) /\ n.conn = "Connected" /\ n.phase = "Fetching"
<1> DEFINE n == [m EXCEPT !.conn = "Connected", !.phase = "Fetching"]
<1>1. DOMAIN n = ModelFields
  BY Zenon
<1>2. \A f \in ModelFields \ {"conn", "phase"} : n[f] = m[f]
  BY Zenon
<1>3. n.conn = "Connected" /\ n.phase = "Fetching"
  BY SMT DEF ModelFields
<1> QED BY <1>1, <1>2, <1>3 DEF Else

\* The second of a pair is the front of the rest.
LEMMA SecondOf ==
    ASSUME NEW m, NEW r, NEW w \in Seq(Effects), w # <<>>, FrontPair(m, r, w)
    PROVE  LET b == Head(Tail(w)) IN
           /\ b \in Effects /\ Tail(Tail(w)) \in Seq(Effects)
           /\ Tail(w) = <<b>> \o Tail(Tail(w)) /\ Tail(w) \in Seq(Effects)
           /\ AllPlain(Tail(Tail(w))) /\ r.arts = Ids(m.hist)
           /\ PairOK(m, r, Head(w), b)
<1>1. Tail(w) \in Seq(Effects) /\ Tail(w) # <<>>
  BY HeadTail DEF FrontPair
<1> QED BY <1>1, Parted DEF FrontPair

\* Connecting keeps the invariant, for a navigation or a reconnection,
\* whether it succeeds or not.
LEMMA ConnectKeeps == ASSUME Inv, ExecConnect PROVE Inv'
<1> DEFINE o == Head(q).o
           t == Tail(q)
<1>1. /\ q # <<>> /\ Head(q).e = "Connect"
      /\ \/ v.phase = "Connecting" /\ Done(Connected(v, o), rt)
         \/ v.phase # "Connecting" /\ Done(Connected(v, o), rt)
         \/ v.phase # "Connecting" /\ Done(ConnectionFailed(v, o), rt)
  BY DEF ExecConnect, Executing, Head1, o1
<1>0. Head(q).e \notin Trivial \cup Evicts \cup {"RetirePageWork", "RetireSubscriptions"}
  BY <1>1 DEF Trivial, Plain, Evicts
<1>2. /\ FrontPair(v, rt, q) \/ (SoloOK(v, rt, Head(q)) /\ AllPlain(t) /\ rt.arts = Ids(v.hist))
      /\ Sound(v, rt) /\ v.retry = None /\ t \in Seq(Effects) /\ Head(q) \in Effects
      /\ q \in Seq(Effects)
      /\ DOMAIN v = ModelFields /\ DOMAIN rt = RuntimeFields
  BY <1>0, <1>1, AtKind, AtHead DEF Inv, Sound, ModelType, RuntimeType
<1>3. o \in Owners /\ o.req \in Nat /\ o.scope \in Scopes
  BY <1>1, <1>2, EffectParts, OwnerIs DEF OwnedBare
<1> HIDE DEF o
<1>4. CASE SoloOK(v, rt, Head(q)) /\ AllPlain(t) /\ rt.arts = Ids(v.hist)
  <2>1. Owns(v, o) /\ v.recon = o.req /\ Settled(v, rt, {o.req}) /\ Drained(rt)
    BY <1>1, <1>4 DEF SoloOK, o
  <2>2. ASSUME NEW c \in {"Connected", "Disconnected"}, NEW f \in {<<>>, Render},
               v' = Reconnected(v, o, c), q' = f \o t, rt' = rt
        PROVE  Inv'
    <3> DEFINE n == Reconnected(v, o, c)
    <3>1. Else(v, n, {"conn", "recon", "out"}) /\ n.conn = c /\ n.out = v.out \ {o.req}
      BY <1>2, ReconnectedFields
    <3> HIDE DEF n
    <3>2. Else(v, n, Work \ {"subs", "retry"}) /\ n.nreq = v.nreq
      BY <3>1, ElseParts DEF Else, Work
    <3>3. n.conn \in Conns
      BY <3>1 DEF Conns
    <3>4. InvOf(n, rt, <<>> \o t) /\ InvOf(n, rt, Render \o t)
      BY <1>2, <1>4, <2>1, <3>1, <3>2, <3>3, DropGood
    <3> QED BY <2>2, <3>4 DEF Inv, n
  <2>3. Connected(v, o) = Ret(Reconnected(v, o, "Connected"), <<>>)
    BY <2>1 DEF Connected, Reconnected
  <2>4. ConnectionFailed(v, o) =
          Ret(Reconnected(v, o, "Disconnected"), Render)
    BY <2>1 DEF ConnectionFailed, Reconnected
  <2>5. CASE Done(Connected(v, o), rt)
    BY <2>2, <2>3, <2>5, RetParts DEF Done
  <2>6. CASE Done(ConnectionFailed(v, o), rt)
    <3>1. ConnectionFailed(v, o).v = Reconnected(v, o, "Disconnected")
          /\ ConnectionFailed(v, o).fx = Render
      BY <2>4, RetParts
    <3>2. v' = Reconnected(v, o, "Disconnected") /\ q' = Render \o t /\ rt' = rt
      BY <2>6, <3>1 DEF Done
    <3> QED BY <2>2, <3>2
  <2> QED BY <1>1, <2>5, <2>6
<1>5. CASE FrontPair(v, rt, q)
  <2> DEFINE b == Head(t)
             n == [v EXCEPT !.conn = "Connected", !.phase = "Fetching"]
  <2>1. /\ b \in Effects /\ Tail(t) \in Seq(Effects) /\ t = <<b>> \o Tail(t)
        /\ AllPlain(Tail(t)) /\ rt.arts = Ids(v.hist) /\ PairOK(v, rt, Head(q), b)
    BY <1>1, <1>2, <1>5, SecondOf
  <2> HIDE DEF b
  <2>2. /\ b.e \in {"Fetch", "Submit"} /\ b.o = o /\ Owns(v, o)
        /\ v.phase = "Connecting" /\ v.recon = None
        /\ v.pend = None /\ Accounted(v, rt, {o.req}) /\ Drained(rt) /\ rt.activated = None
    BY <1>1, <2>1 DEF PairOK, o
  <2>3. v.recon # o.req
    BY <1>3, <2>2, NoneAssumption
  <2>4. Connected(v, o) = Ret(n, <<>>)
    BY <2>2, <2>3 DEF Connected
  <2>5. Else(v, n, {"conn", "phase"}) /\ n.conn = "Connected" /\ n.phase = "Fetching"
    BY <1>2, ConnectedFields
  <2> HIDE DEF n
  <2>6. n.out = v.out /\ n.scope = v.scope /\ n.pend = v.pend /\ n.hist = v.hist
        /\ n.nreq = v.nreq /\ n.retry = None
    BY <1>2, <2>5, ElseParts
  <2>7. Sound(n, rt)
    <3>1. Else(v, n, {"phase", "conn", "out", "psubs", "nreq", "recon", "pcommit",
                       "presize", "retry"})
      BY <2>5 DEF Else
    <3>2. ElseR(rt, rt, RuntimeFields \ {"lost", "shifted"})
      BY <1>2, ElseSelf
    <3> QED BY <1>2, <2>5, <2>6, <3>1, <3>2, SoundThen
         DEF Sound, ModelType, RuntimeType, Conns
  <2>8. OneOK(n, rt, b) /\ InstalledBy(b) = {}
    BY <2>2, <2>6 DEF OneOK, NavOK, NavSteps, Owns, Accounted, InstalledBy
  <2>9. InvOf(n, rt, <<b>> \o Tail(t))
    BY <2>1, <2>6, <2>7, <2>8, OnGood
  <2>10. <<>> \o t = t
    BY <1>2, Assoc
  <2>11. Done(Ret(n, <<>>), rt)
    BY <1>1, <2>2, <2>4
  <2> QED BY <2>1, <2>9, <2>10, <2>11, RetParts DEF Done, Inv
<1> QED BY <1>2, <1>4, <1>5

-----------------------------------------------------------------------------
(* Fetching a page                                                         *)

\* Activating a scope changes what the transport holds and nothing else.
LEMMA ActivateFields ==
    ASSUME NEW r, DOMAIN r = RuntimeFields, NEW s
    PROVE  LET n == activate_page_scope(r, s) IN
           ElseR(r, n, {"cs", "live", "kept"})
           /\ n.live \subseteq r.live /\ n.kept \subseteq r.kept
<1> DEFINE n == activate_page_scope(r, s)
<1>1. DOMAIN n = RuntimeFields
  BY Zenon DEF activate_page_scope
<1>2. \A f \in RuntimeFields \ {"cs", "live", "kept"} : n[f] = r[f]
  BY Zenon DEF activate_page_scope
<1>3. n.live \subseteq r.live /\ n.kept \subseteq r.kept
  BY SMT DEF RuntimeFields, activate_page_scope
<1> QED BY <1>1, <1>2, <1>3 DEF ElseR

\* The runtime after a request went out on a connection.
Asked(r, s, depth) == [activate_page_scope(r, s) EXCEPT !.redirect = depth]

\* The same, field by field.
LEMMA AskedFields ==
    ASSUME NEW r, DOMAIN r = RuntimeFields, NEW s, NEW depth
    PROVE  LET n == Asked(r, s, depth) IN
           ElseR(r, n, {"redirect", "cs", "live", "kept"})
           /\ n.live \subseteq r.live /\ n.kept \subseteq r.kept
<1> DEFINE p == activate_page_scope(r, s)
           n == [p EXCEPT !.redirect = depth]
<1>1. ElseR(r, p, {"cs", "live", "kept"}) /\ p.live \subseteq r.live /\ p.kept \subseteq r.kept
  BY ActivateFields
<1> HIDE DEF p
<1>2. DOMAIN p = RuntimeFields
  BY <1>1 DEF ElseR
<1>3. DOMAIN n = RuntimeFields
  BY <1>2, Zenon
<1>4. \A f \in RuntimeFields \ {"redirect"} : n[f] = p[f]
  BY <1>2, Zenon
<1> HIDE DEF n
<1>5. ElseR(r, n, {"redirect", "cs", "live", "kept"})
  BY <1>1, <1>3, <1>4 DEF ElseR
<1>6. n.live = p.live /\ n.kept = p.kept
  BY <1>4 DEF RuntimeFields
<1>7. Asked(r, s, depth) = n
  BY DEF Asked, n, p
<1> QED BY <1>1, <1>5, <1>6, <1>7

\* The runtime with the page of an answer staged.
GotPage(r, o, page) == [Asked(r, o.scope, 0) EXCEPT !.fetched = Slot(o, page)]

\* The same, field by field.
LEMMA GotPageFields ==
    ASSUME NEW r, DOMAIN r = RuntimeFields, NEW o, NEW page
    PROVE  LET n == GotPage(r, o, page) IN
           /\ ElseR(r, n, {"redirect", "cs", "live", "kept", "fetched"})
           /\ n.live \subseteq r.live /\ n.kept \subseteq r.kept
           /\ n.fetched = Slot(o, page)
<1> DEFINE p == Asked(r, o.scope, 0)
           n == [p EXCEPT !.fetched = Slot(o, page)]
<1>1. ElseR(r, p, {"redirect", "cs", "live", "kept"})
      /\ p.live \subseteq r.live /\ p.kept \subseteq r.kept
  BY AskedFields
<1> HIDE DEF p
<1>2. DOMAIN p = RuntimeFields
  BY <1>1 DEF ElseR
<1>3. DOMAIN n = RuntimeFields
  BY <1>2, Zenon
<1>4. \A f \in RuntimeFields \ {"fetched"} : n[f] = p[f]
  BY <1>2, Zenon
<1>5. n.fetched = Slot(o, page)
  BY <1>2, SMT DEF RuntimeFields
<1> HIDE DEF n
<1>6. ElseR(r, n, {"redirect", "cs", "live", "kept", "fetched"})
  BY <1>1, <1>3, <1>4 DEF ElseR
<1>7. n.live = p.live /\ n.kept = p.kept
  BY <1>4 DEF RuntimeFields
<1>8. GotPage(r, o, page) = n
  BY DEF GotPage, n, p
<1> QED BY <1>1, <1>5, <1>6, <1>7, <1>8

\* The runtime after a request failed, with or without a certificate to be
\* pinned.
Refused(r, trust, pinned) == [r EXCEPT !.trust = trust, !.pinned = pinned]

\* The same, field by field.
LEMMA RefusedFields ==
    ASSUME NEW r, DOMAIN r = RuntimeFields, NEW trust, NEW pinned
    PROVE  LET n == Refused(r, trust, pinned) IN
           ElseR(r, n, {"trust", "pinned"}) /\ n.trust = trust
<1> DEFINE n == Refused(r, trust, pinned)
<1>1. DOMAIN n = RuntimeFields
  BY Zenon DEF Refused
<1>2. \A f \in RuntimeFields \ {"trust", "pinned"} : n[f] = r[f]
  BY Zenon DEF Refused
<1>3. n.trust = trust
  BY SMT DEF RuntimeFields, Refused
<1> QED BY <1>1, <1>2, <1>3 DEF ElseR

\* Failing the current operation keeps the invariant whatever the
\* transport did before.
LEMMA FailSame ==
    ASSUME NEW m, NEW r, NEW o, Sound(m, r), m.retry = None, Owns(m, o),
           Clears(r, m.scope), r.arts = Ids(m.hist), m.pend = None \/ Pending(m, r),
           NEW t \in Seq(Effects), AllPlain(t),
           NEW s, ElseR(r, s, UnseenR), s.arts = r.arts,
           s.live \subseteq r.live /\ s.kept \subseteq r.kept, s.trust \in Pages \cup {None}
    PROVE  LET f == fail_owned_operation(m, o) IN InvOf(f.v, s, f.fx \o t)
<1>1. DOMAIN m = ModelFields
  BY DEF Sound, ModelType
<1>2. Else(m, m, Unseen)
  BY <1>1, ElseSelf
<1>3. Sound(m, s)
  BY <1>2, SoundSame
<1>4. Clears(s, m.scope)
  BY ElseRParts DEF Clears, UnseenR
<1>5. m.pend = None \/ Pending(m, s)
  BY <1>2, Frames
<1> QED BY <1>3, <1>4, <1>5, FailGood

\* What holds when a request for a page is at the front.
AtFetch(m, r, a, t) ==
    /\ a \in Effects /\ a.o \in Owners /\ t \in Seq(Effects) /\ AllPlain(t)
    /\ Owns(m, a.o) /\ Accounted(m, r, {a.o.req}) /\ r.activated = None
    /\ Drained(r) /\ m.pend = None /\ r.arts = Ids(m.hist) /\ m.retry = None
    /\ Sound(m, r) /\ DOMAIN m = ModelFields /\ DOMAIN r = RuntimeFields
    /\ m.commit \in CommitKinds

\* A page that arrives keeps the invariant.
LEMMA FetchPageKeeps ==
    ASSUME AtFetch(v, rt, Head(q), Tail(q)), NEW page \in Pages, FetchPage(page)
    PROVE  Inv'
<1> DEFINE o == Head(q).o
           t == Tail(q)
           n == [v EXCEPT !.phase = "Parsing"]
           b == Fx("Parse", o, None)
           s == GotPage(rt, o, page)
<1>1. rt.fetched = None /\ o \in Owners
  BY DEF AtFetch, Drained, NoPage
<1>2. Done(FetchCompleted(v, o), s)
  BY <1>1 DEF FetchPage, o1, Head1, GotPage, Asked
<1> HIDE DEF o
<1>3. FetchCompleted(v, o) = Ret(n, <<b>>)
  BY DEF FetchCompleted, AtFetch, o
<1>4. /\ b \in Effects /\ b.e = "Parse" /\ b.o = o
  BY <1>1, EffectOf, FxParts DEF OwnedBare
<1>5. Slot(o, page) # None /\ Holds(Slot(o, page), o) /\ Slot(o, page).x = page
  BY <1>1, SlotThere, SlotParts
<1>6. Else(v, n, {"phase"}) /\ n.phase = "Parsing"
  <2>1. DOMAIN n = ModelFields
    BY Zenon DEF AtFetch
  <2>2. \A f \in ModelFields \ {"phase"} : n[f] = v[f]
    BY Zenon DEF AtFetch
  <2>3. n.phase = "Parsing"
    BY SMT DEF ModelFields, AtFetch
  <2> QED BY <2>1, <2>2, <2>3 DEF Else
<1>7. ElseR(rt, s, {"redirect", "cs", "live", "kept", "fetched"})
      /\ s.live \subseteq rt.live /\ s.kept \subseteq rt.kept /\ s.fetched = Slot(o, page)
  BY GotPageFields DEF AtFetch
<1>8. v' = n /\ rt' = s /\ q' = <<b>> \o t
  BY <1>2, <1>3, RetParts DEF Done
<1> HIDE DEF n, b, s
<1>9. /\ n.scope = v.scope /\ n.hist = v.hist /\ n.out = v.out /\ n.pend = v.pend
      /\ n.conn = v.conn /\ n.nreq = v.nreq /\ n.retry = v.retry
  BY <1>6, ElseParts
<1>10. /\ s.parsed = rt.parsed /\ s.nav = rt.nav /\ s.layout = rt.layout
       /\ s.artifact = rt.artifact /\ s.batch = rt.batch /\ s.pwasm = rt.pwasm
       /\ s.deferred = rt.deferred /\ s.lost = rt.lost /\ s.arts = rt.arts
       /\ s.trust = rt.trust /\ s.activated = rt.activated
  BY <1>7, ElseRParts
<1>11. Sound(n, s)
  <2>1. Else(v, n, {"phase", "conn", "out", "psubs", "nreq", "recon", "pcommit",
                       "presize", "retry"})
    BY <1>6 DEF Else
  <2>2. ElseR(rt, s, RuntimeFields \ {"lost", "shifted"})
    BY <1>7 DEF ElseR, RuntimeFields
  <2>3. n.phase # "ShuttingDown" /\ n.conn \in Conns /\ n.nreq \in Nat
        /\ n.out \subseteq Nat /\ \A k \in n.out : k < n.nreq
    BY <1>6, <1>9 DEF AtFetch, Sound, ModelType
  <2>4. s.live \subseteq rt.live /\ s.kept \subseteq rt.kept /\ s.trust \in Pages \cup {None}
        /\ (s.deferred # None => s.deferred.o \in Owners)
    BY <1>7, <1>10 DEF AtFetch, Sound, RuntimeType
  <2> QED BY <2>1, <2>2, <2>3, <2>4, SoundThen DEF AtFetch
<1>12. NavOK(n, s, b)
  <2>1. Owns(n, b.o) /\ Accounted(n, s, {b.o.req}) /\ s.activated = None /\ n.pend = None
    BY <1>4, <1>9, <1>10 DEF AtFetch, Owns, Accounted, o
  <2>2. s.parsed = None /\ s.batch = None /\ NoFrame(s) /\ s.pwasm = None
    BY <1>10 DEF AtFetch, Drained, NoPage, NoFrame
  <2>3. Holds(s.fetched, b.o) /\ s.fetched.x \in Pages
    BY <1>4, <1>5, <1>7
  <2> QED BY <1>4, <2>1, <2>2, <2>3 DEF NavOK, NavSteps
<1>13. s.arts = Ids(n.hist) \ InstalledBy(b)
  BY <1>4, <1>9, <1>10 DEF InstalledBy, AtFetch
<1>14. InvOf(n, s, <<b>> \o t)
  BY <1>4, <1>9, <1>11, <1>12, <1>13, OnGood DEF OneOK, AtFetch
<1> QED BY <1>8, <1>14 DEF Inv

\* A redirect that is followed keeps the invariant: it starts a navigation
\* of its own.
LEMMA FetchRedirectKeeps ==
    ASSUME AtFetch(v, rt, Head(q), Tail(q)), NEW page \in Pages, FetchRedirect(page)
    PROVE  Inv'
<1> DEFINE o == Head(q).o
           t == Tail(q)
           d == rt.redirect + 1
           c == v.commit
           s0 == Asked(rt, o.scope, 0)
           s1 == Asked(rt, o.scope, d)
<1>1. \/ Done(fail_owned_operation(v, o), s0)
      \/ /\ v' = begin_navigation(v, page, c).v /\ rt' = s1
         /\ q' = begin_navigation(v, page, c).fx \o t
  BY DEF FetchRedirect, Redirect, o1, Head1, Asked
<1> HIDE DEF d, o, c
<1>2. ElseR(rt, s0, {"redirect", "cs", "live", "kept"})
      /\ s0.live \subseteq rt.live /\ s0.kept \subseteq rt.kept
  BY AskedFields DEF AtFetch
<1>3. ElseR(rt, s1, {"redirect", "cs", "live", "kept"})
      /\ s1.live \subseteq rt.live /\ s1.kept \subseteq rt.kept
  BY AskedFields DEF AtFetch
<1> HIDE DEF s0, s1
<1>4. ElseR(rt, s0, UnseenR) /\ ElseR(rt, s1, UnseenR)
  BY <1>2, <1>3 DEF ElseR, UnseenR
<1>5. s0.arts = rt.arts /\ s1.arts = rt.arts /\ s0.trust = rt.trust /\ s1.trust = rt.trust
      /\ s1.activated = rt.activated
  BY <1>2, <1>3, ElseRParts
<1>6. rt.trust \in Pages \cup {None}
  BY DEF AtFetch, Sound, RuntimeType
<1>7. CASE Done(fail_owned_operation(v, o), s0)
  <2>1. LET f == fail_owned_operation(v, o) IN InvOf(f.v, s0, f.fx \o t)
    BY <1>2, <1>4, <1>5, <1>6, DrainedClears, FailSame DEF AtFetch, o
  <2> QED BY <1>7, <2>1 DEF Done, Inv
<1>8. CASE /\ v' = begin_navigation(v, page, c).v /\ rt' = s1
           /\ q' = begin_navigation(v, page, c).fx \o t
  <2>1. Else(v, v, Unseen)
    BY ElseSelf DEF AtFetch
  <2>2. Sound(v, s1)
    BY <1>3, <1>4, <1>5, <1>6, <2>1, SoundSame DEF AtFetch
  <2>3. Drained(s1)
    BY <1>4, <2>1, Frames DEF AtFetch
  <2>4. LET b == begin_navigation(v, page, c) IN InvOf(b.v, s1, b.fx \o t)
    BY <1>5, <2>2, <2>3, NavigateGood DEF AtFetch, c
  <2> QED BY <1>8, <2>4 DEF Inv
<1> QED BY <1>1, <1>7, <1>8

\* A request that fails keeps the invariant.
LEMMA FetchFailedKeeps ==
    ASSUME AtFetch(v, rt, Head(q), Tail(q)), NEW trust \in Pages \cup {None},
           FetchFailed(trust)
    PROVE  Inv'
<1> DEFINE o == Head(q).o
           t == Tail(q)
           pins(r) == IF trust = None THEN r.pinned ELSE r.pinned \cup {Origin(trust)}
<1>1. PICK r \in {rt, activate_page_scope(rt, o.scope)} :
         Done(fail_owned_operation(v, o), Refused(r, trust, pins(r)))
  BY DEF FetchFailed, o1, Head1, Refused
<1> DEFINE s == Refused(r, trust, pins(r))
<1>2. DOMAIN rt = RuntimeFields
  BY DEF AtFetch
<1>3. ElseR(rt, r, {"cs", "live", "kept"}) /\ r.live \subseteq rt.live /\ r.kept \subseteq rt.kept
  BY <1>1, <1>2, ActivateFields, ElseSelf
<1> HIDE DEF o, pins
<1>4. ElseR(r, s, {"trust", "pinned"}) /\ s.trust = trust
  BY <1>3, RefusedFields DEF ElseR
<1> HIDE DEF s
<1>5. ElseR(rt, s, UnseenR)
  BY <1>3, <1>4 DEF ElseR, UnseenR
<1>6. s.arts = rt.arts /\ s.live \subseteq rt.live /\ s.kept \subseteq rt.kept
  BY <1>3, <1>4, ElseRParts
<1>7. LET f == fail_owned_operation(v, o) IN InvOf(f.v, s, f.fx \o t)
  BY <1>4, <1>5, <1>6, DrainedClears, FailSame DEF AtFetch, o
<1> QED BY <1>1, <1>7 DEF Done, Inv, s

\* Fetching or submitting keeps the invariant, whatever the answer.
LEMMA FetchKeeps == ASSUME Inv, ExecFetch \/ ExecSubmit PROVE Inv'
<1>1. q # <<>> /\ Head(q).e \in {"Fetch", "Submit"}
  BY DEF ExecFetch, ExecSubmit, Executing, Head1
<1>0. Head(q).e \notin Trivial \cup Evicts \cup {"RetirePageWork", "RetireSubscriptions"}
  BY <1>1 DEF Trivial, Plain, Evicts
<1>2. /\ Sound(v, rt) /\ v.retry = None /\ Tail(q) \in Seq(Effects) /\ Head(q) \in Effects
      /\ NavOK(v, rt, Head(q)) /\ AllPlain(Tail(q))
      /\ rt.arts = Ids(v.hist) \ InstalledBy(Head(q))
  BY <1>0, <1>1, AtKind, AtHead DEF Inv, NavSteps
<1>3. Head(q).o \in Owners /\ Head(q).x \in Pages
  BY <1>1, <1>2, EffectParts
<1>4. AtFetch(v, rt, Head(q), Tail(q))
  BY <1>1, <1>2, <1>3 DEF AtFetch, NavOK, InstalledBy, Sound, ModelType, RuntimeType
<1>5. \/ \E p \in Pages : FetchPage(p) \/ FetchRedirect(p)
      \/ \E trust \in Pages \cup {None} : FetchFailed(trust)
  BY <1>3 DEF ExecFetch, ExecSubmit, Head1
<1> QED BY <1>4, <1>5, FetchPageKeeps, FetchRedirectKeeps, FetchFailedKeeps

-----------------------------------------------------------------------------
(* Storing a parsed page                                                   *)

\* What the reducer returns once a page is parsed and its modules are
\* known.
Stored(m, o, deps) ==
    LET d == WasmDependenciesDiscovered(m, o, deps)
        p == ParseCompleted(d.v, o)
    IN Ret(p.v, d.fx \o p.fx)

\* The runtime with a parsed page staged.
StoredIn(r, o, page, cached, deps) ==
    [r EXCEPT !.batch = Slot(o, deps), !.parsed = Slot(o, [uri |-> page, cached |-> cached])]

\* The same, field by field.
LEMMA StoredInFields ==
    ASSUME NEW r, DOMAIN r = RuntimeFields, NEW o, NEW page, NEW cached, NEW deps
    PROVE  LET n == StoredIn(r, o, page, cached, deps) IN
           ElseR(r, n, {"batch", "parsed"}) /\ n.batch = Slot(o, deps)
           /\ n.parsed = Slot(o, [uri |-> page, cached |-> cached])
<1> DEFINE x == Slot(o, deps)
           y == Slot(o, [uri |-> page, cached |-> cached])
           n == [r EXCEPT !.batch = x, !.parsed = y]
<1>0. StoredIn(r, o, page, cached, deps) = n
  BY DEF StoredIn
<1> HIDE DEF x, y
<1>1. DOMAIN n = RuntimeFields
  BY Zenon
<1>2. \A f \in RuntimeFields \ {"batch", "parsed"} : n[f] = r[f]
  BY Zenon
<1>3. n.batch = x /\ n.parsed = y
  BY SMT DEF RuntimeFields
<1> HIDE DEF n
<1>4. ElseR(r, n, {"batch", "parsed"})
  BY <1>1, <1>2 DEF ElseR
<1> QED BY <1>0, <1>3, <1>4 DEF x, y

\* A change of phase touches nothing else.
LEMMA PhaseFields ==
    ASSUME NEW m, DOMAIN m = ModelFields, NEW p
    PROVE  LET n == [m EXCEPT !.phase = p] IN Else(m, n, {"phase"}) /\ n.phase = p
<1> DEFINE n == [m EXCEPT !.phase = p]
<1>1. DOMAIN n = ModelFields
  BY Zenon
<1>2. \A f \in ModelFields \ {"phase"} : n[f] = m[f]
  BY Zenon
<1>3. n.phase = p
  BY SMT DEF ModelFields
<1> QED BY <1>1, <1>2, <1>3 DEF Else

\* The model with n module requests of its own outstanding.
Loading(m, n) == [m EXCEPT !.out = @ \cup (m.nreq .. m.nreq + n - 1), !.nreq = @ + n]

\* The effects of those requests.
Loads(m, o, n) == [k \in 1..n |-> Fx("LoadWasm", Owner(o.scope, m.nreq + k - 1), k)]

\* One module request is outstanding after it.
LEMMA LoadingFields ==
    ASSUME NEW m, DOMAIN m = ModelFields, m.nreq \in Nat
    PROVE  LET n == Loading(m, 1) IN
           Else(m, n, {"out", "nreq"}) /\ n.nreq = m.nreq + 1
           /\ n.out = m.out \cup {m.nreq}
<1> DEFINE n == Loading(m, 1)
<1>1. DOMAIN n = ModelFields
  BY Zenon DEF Loading
<1>2. \A f \in ModelFields \ {"out", "nreq"} : n[f] = m[f]
  BY Zenon DEF Loading
<1>3. n.nreq = m.nreq + 1 /\ n.out = m.out \cup (m.nreq .. m.nreq + 1 - 1)
  BY SMT DEF ModelFields, Loading
<1>4. m.nreq .. m.nreq + 1 - 1 = {m.nreq}
  OBVIOUS
<1> HIDE DEF n
<1>5. n.out = m.out \cup {m.nreq}
  BY <1>3, <1>4
<1>6. Else(m, n, {"out", "nreq"})
  BY <1>1, <1>2 DEF Else
<1> QED BY <1>3, <1>5, <1>6 DEF n

\* The effect of that one request.
LEMMA LoadsOne ==
    ASSUME NEW m, m.nreq \in Nat, NEW o \in Owners
    PROVE  LET a == Fx("LoadWasm", Owner(o.scope, m.nreq), 1) IN
           /\ Loads(m, o, 1) = <<a>>
           /\ a \in Effects /\ a.e = "LoadWasm" /\ a.o.scope = o.scope /\ a.o.req = m.nreq
           /\ a.o \in Owners
<1> DEFINE a == Fx("LoadWasm", Owner(o.scope, m.nreq), 1)
           c == Owner(o.scope, m.nreq)
<1>1. c \in Owners /\ c.scope = o.scope /\ c.req = m.nreq
  BY OwnerIs, OwnerParts
<1>2. a = Fx("LoadWasm", c, 1)
  OBVIOUS
<1> HIDE DEF c
<1>3. a \in Effects /\ a.e = "LoadWasm" /\ a.o = c
  BY <1>1, <1>2, EffectOf, FxParts
<1>4. Loads(m, o, 1) = [k \in 1..1 |-> a]
  <2>1. \A k \in 1..1 : Fx("LoadWasm", Owner(o.scope, m.nreq + k - 1), k) = a
    <3> TAKE k \in 1..1
    <3>1. k = 1 /\ m.nreq + k - 1 = m.nreq
      OBVIOUS
    <3> QED BY <3>1
  <2> HIDE DEF a
  <2> QED BY <2>1 DEF Loads
<1>5. [k \in 1..1 |-> a] = <<a>>
  <2> HIDE DEF a
  <2> QED OBVIOUS
<1> QED BY <1>1, <1>3, <1>4, <1>5

\* What holds when a page is about to be stored, from the network or from
\* the cache.
StoreReady(m, r, o, page, cached) ==
    /\ Sound(m, r) /\ m.retry = None /\ Owns(m, o) /\ Accounted(m, r, {o.req})
    /\ Drained(r) /\ r.activated = None /\ r.arts = Ids(m.hist)
    /\ o \in Owners /\ page \in Pages /\ cached \in BOOLEAN
    /\ \/ ~cached /\ m.pend = None
       \/ cached /\ page = m.uri /\ Pending(m, r)

\* A stored page is ready for its layout.
LEMMA StoredReady ==
    ASSUME NEW m, NEW r, NEW o, NEW page, NEW cached, StoreReady(m, r, o, page, cached),
           NEW deps \in Nat, NEW n, Else(m, n, {"phase", "out", "nreq"}),
           o.req \in n.out, NEW R, \A k \in n.out : k \in m.out \/ k \in R, o.req \in R,
           n.phase # "ShuttingDown", n.nreq \in Nat, n.out \subseteq Nat,
           \A k \in n.out : k < n.nreq
    PROVE  LET s == StoredIn(r, o, page, cached, deps) IN
           /\ Sound(n, s) /\ LayoutReady(n, s, o) /\ s.pwasm = None /\ s.activated = None
           /\ Owns(n, o) /\ Accounted(n, s, R) /\ s.arts = Ids(n.hist) /\ n.retry = None
<1> DEFINE s == StoredIn(r, o, page, cached, deps)
           x == [uri |-> page, cached |-> cached]
<1>0. DOMAIN m = ModelFields /\ DOMAIN r = RuntimeFields
  BY DEF StoreReady, Sound, ModelType, RuntimeType
<1>1. ElseR(r, s, {"batch", "parsed"}) /\ s.batch = Slot(o, deps) /\ s.parsed = Slot(o, x)
  BY <1>0, StoredInFields
<1>2. x \in Prepared /\ x.uri = page /\ x.cached = cached
  BY DEF StoreReady, Prepared
<1> HIDE DEF s, x
<1>3. Holds(s.batch, o) /\ Holds(s.parsed, o) /\ s.parsed.x = x
  BY <1>1, <1>2, SlotThere, SlotParts DEF StoreReady
<1>4. /\ n.scope = m.scope /\ n.uri = m.uri /\ n.hist = m.hist /\ n.pend = m.pend
      /\ n.conn = m.conn /\ n.retry = m.retry
  BY ElseParts
<1>5. /\ s.fetched = r.fetched /\ s.nav = r.nav /\ s.layout = r.layout
      /\ s.artifact = r.artifact /\ s.pwasm = r.pwasm /\ s.activated = r.activated
      /\ s.deferred = r.deferred /\ s.lost = r.lost /\ s.arts = r.arts
      /\ s.live = r.live /\ s.kept = r.kept
      /\ s.trust = r.trust /\ s.shown = r.shown /\ s.shifted = r.shifted
  BY <1>1, ElseRParts
<1>6. Sound(n, s)
  <2>1. Else(m, n, {"phase", "conn", "out", "psubs", "nreq", "recon", "pcommit",
                       "presize", "retry"})
    BY DEF Else
  <2>2. ElseR(r, s, RuntimeFields \ {"lost", "shifted"})
    BY <1>1 DEF ElseR, RuntimeFields
  <2>3. n.conn \in Conns
    BY <1>4 DEF StoreReady, Sound, ModelType
  <2>4. s.live \subseteq r.live /\ s.kept \subseteq r.kept /\ s.trust \in Pages \cup {None}
        /\ (s.deferred # None => s.deferred.o \in Owners)
    BY <1>5 DEF StoreReady, Sound, RuntimeType
  <2> QED BY <2>1, <2>2, <2>3, <2>4, SoundThen DEF StoreReady
<1>7. LayoutReady(n, s, o)
  <2>1. s.fetched = None /\ NoFrame(s)
    BY <1>5 DEF StoreReady, Drained, NoPage, NoFrame
  <2>2. s.parsed.x \in Prepared /\ s.parsed.x.uri # None
    BY <1>2, <1>3, NoneAssumption DEF StoreReady
  <2>3. Pending(m, r) => Pending(n, s)
    BY <1>4, <1>5 DEF Pending, Original
  <2>4. \/ ~s.parsed.x.cached /\ n.pend = None
        \/ s.parsed.x.cached /\ s.parsed.x.uri = n.uri /\ Pending(n, s)
    BY <1>2, <1>3, <1>4, <2>3 DEF StoreReady
  <2> QED BY <1>3, <2>1, <2>2, <2>4 DEF LayoutReady
<1>8. Owns(n, o) /\ Accounted(n, s, R)
  BY <1>4, <1>5 DEF StoreReady, Owns, Accounted
<1> QED BY <1>4, <1>5, <1>6, <1>7, <1>8 DEF StoreReady, Drained, s

\* A stored page without modules goes on to its layout.
LEMMA StoredAlone ==
    ASSUME NEW m, NEW r, NEW o, NEW page, NEW cached, StoreReady(m, r, o, page, cached),
           NEW t \in Seq(Effects), AllPlain(t)
    PROVE  LET b == Stored(m, o, 0) IN
           InvOf(b.v, StoredIn(r, o, page, cached, 0), b.fx \o t)
<1> DEFINE n == [m EXCEPT !.phase = "Layout"]
           b == Fx("PrepareLayout", o, None)
           s == StoredIn(r, o, page, cached, 0)
<1>0. Owns(m, o) /\ o \in Owners
  BY DEF StoreReady
<1>1. WasmDependenciesDiscovered(m, o, 0) = Ret(m, <<>>)
  BY DEF WasmDependenciesDiscovered
<1>2. ParseCompleted(m, o) = Ret(n, <<b>>)
  BY <1>0 DEF ParseCompleted
<1>3. Else(m, n, {"phase"}) /\ n.phase = "Layout"
  BY PhaseFields DEF StoreReady, Sound, ModelType
<1>4. b \in Effects /\ b.e = "PrepareLayout" /\ b.o = o
  BY <1>0, EffectOf, FxParts DEF OwnedBare
<1> HIDE DEF n, b
<1>5. <<b>> \in Seq(Effects)
  BY <1>4
<1>6. <<>> \o <<b>> = <<b>>
  BY <1>5, Assoc
<1>7. Stored(m, o, 0) = Ret(n, <<b>>)
  <2>1. WasmDependenciesDiscovered(m, o, 0).v = m
        /\ WasmDependenciesDiscovered(m, o, 0).fx = <<>>
    BY <1>1, RetParts
  <2>2. ParseCompleted(m, o).v = n /\ ParseCompleted(m, o).fx = <<b>>
    BY <1>2, RetParts
  <2> QED BY <1>6, <2>1, <2>2 DEF Stored
<1>8. Else(m, n, {"phase", "out", "nreq"}) /\ n.out = m.out /\ n.nreq = m.nreq
  BY <1>3, ElseParts DEF Else
<1>9. /\ Sound(n, s) /\ LayoutReady(n, s, o) /\ s.pwasm = None /\ s.activated = None
      /\ Owns(n, o) /\ Accounted(n, s, {o.req}) /\ s.arts = Ids(n.hist) /\ n.retry = None
  <2>1. o.req \in n.out /\ n.nreq \in Nat /\ n.out \subseteq Nat
        /\ (\A k \in n.out : k < n.nreq) /\ n.phase # "ShuttingDown"
    BY <1>3, <1>8 DEF StoreReady, Owns, Sound, ModelType
  <2>2. \A k \in n.out : k \in m.out \/ k \in {o.req}
    BY <1>8
  <2> QED BY <1>8, <2>1, <2>2, StoredReady
<1> HIDE DEF s
<1>10. NavOK(n, s, b) /\ InstalledBy(b) = {}
  BY <1>4, <1>9 DEF NavOK, NavSteps, InstalledBy
<1>11. InvOf(n, s, <<b>> \o t)
  BY <1>4, <1>9, <1>10, OnGood DEF OneOK
<1> QED BY <1>7, <1>11, RetParts DEF s

\* Failing an operation leaves no request outstanding.
LEMMA FailAnswer ==
    ASSUME NEW m, NEW r, NEW o, ModelType(m), Owns(m, o), o \in Owners,
           m.pend = None \/ Pending(m, r)
    PROVE  LET f == fail_owned_operation(m, o) IN f.v.out = {} /\ f.fx \in Seq(Effects)
<1>0. DOMAIN m = ModelFields /\ o.scope \in Scopes /\ m.scope = o.scope
  BY OwnerIs DEF ModelType, Owns
<1>1. Fx("RetirePageWork", None, o.scope) \in Effects
      /\ Fx("ActivateErrorPage", None, None) \in Effects
      /\ Fx("RenderTerminal", None, None) \in Effects
  BY <1>0, EffectOf DEF Bare
<1>2. CASE m.pend = None
  <2> DEFINE g == [m EXCEPT !.phase = "Failed", !.conn = "Disconnected", !.out = {},
                       !.recon = None, !.subs = {}, !.psubs = {},
                       !.pcommit = None, !.presize = None]
             x == <<Fx("RetirePageWork", None, o.scope),
                    Fx("ActivateErrorPage", None, None)>> \o Render
  <2>1. fail_owned_operation(m, o) = Ret(g, x)
    BY <1>2 DEF fail_owned_operation
  <2>2. FailsTo(m, g)
    BY <1>0, FailedFields
  <2>3. g.out = {}
    BY <2>2 DEF FailsTo
  <2>4. x \in Seq(Effects)
    BY <1>1 DEF Render
  <2> HIDE DEF g, x
  <2> QED BY <2>1, <2>3, <2>4, RetParts
<1>3. CASE m.pend # None
  <2> DEFINE n == RestoredFromPending(m)
             x == <<Fx("RetirePageWork", None, o.scope)>> \o Render
  <2>1. fail_owned_operation(m, o) = Ret(n, x)
    BY <1>0, <1>3 DEF fail_owned_operation, Pending
  <2>2. n.out = {}
    BY <1>0, <1>3, RestoredFields
  <2>3. x \in Seq(Effects)
    BY <1>1 DEF Render
  <2> HIDE DEF n, x
  <2> QED BY <2>1, <2>2, <2>3, RetParts
<1> QED BY <1>2, <1>3

\* A stored page with a module goes on to the module and then to its
\* layout.
LEMMA StoredWith ==
    ASSUME NEW m, NEW r, NEW o, NEW page, NEW cached, StoreReady(m, r, o, page, cached),
           NEW t \in Seq(Effects), AllPlain(t)
    PROVE  LET b == Stored(m, o, 1) IN
           InvOf(b.v, StoredIn(r, o, page, cached, 1), b.fx \o t)
<1> DEFINE d == WasmDependenciesDiscovered(m, o, 1)
           s == StoredIn(r, o, page, cached, 1)
           f == fail_owned_operation(m, o)
           l == Loading(m, 1)
           n == [l EXCEPT !.phase = "Layout"]
           a == Fx("LoadWasm", Owner(o.scope, m.nreq), 1)
           b == Fx("PrepareLayout", o, None)
<1>0. /\ Owns(m, o) /\ o \in Owners /\ Sound(m, r) /\ ModelType(m) /\ RuntimeType(r)
      /\ DOMAIN m = ModelFields /\ m.nreq \in Nat /\ (m.pend = None \/ Pending(m, r)) /\ m.retry = None
      /\ o.scope = m.scope /\ o.req \in m.out /\ DOMAIN r = RuntimeFields
      /\ \A k \in m.out : k \in Nat /\ k < m.nreq
  BY DEF StoreReady, Sound, ModelType, RuntimeType, Owns
<1>1. d = f \/ d = Ret(l, Loads(m, o, 1))
  BY <1>0 DEF WasmDependenciesDiscovered, Loading, Loads
<1>2. CASE d = f
  <2>1. f.v.out = {} /\ f.fx \in Seq(Effects)
    BY <1>0, FailAnswer
  <2> HIDE DEF f
  <2>2. ParseCompleted(f.v, o) = Ret(f.v, <<>>)
    BY <2>1 DEF ParseCompleted, Owns
  <2>3. ParseCompleted(f.v, o).v = f.v /\ ParseCompleted(f.v, o).fx = <<>>
    BY <2>2, RetParts
  <2>4. Stored(m, o, 1) = Ret(f.v, f.fx \o <<>>)
    BY <1>2, <2>3 DEF Stored
  <2>5. Sound(m, s)
    <3>1. Else(m, m, {"phase", "out", "nreq"})
      BY <1>0, ElseSelf
    <3>2. \A k \in m.out : k \in m.out \/ k \in {o.req}
      OBVIOUS
    <3>3. m.phase # "ShuttingDown" /\ m.out \subseteq Nat /\ \A k \in m.out : k < m.nreq
      BY <1>0 DEF Sound, ModelType
    <3>4. LET x == StoredIn(r, o, page, cached, 1) IN Sound(m, x)
      BY <1>0, <3>1, <3>2, <3>3, StoredReady
    <3> QED BY <3>4
  <2>6. ElseR(r, s, {"batch", "parsed"}) /\ s.batch = Slot(o, 1)
        /\ s.parsed = Slot(o, [uri |-> page, cached |-> cached])
    <3>1. LET x == StoredIn(r, o, page, cached, 1) IN
          ElseR(r, x, {"batch", "parsed"}) /\ x.batch = Slot(o, 1)
          /\ x.parsed = Slot(o, [uri |-> page, cached |-> cached])
      BY <1>0, StoredInFields
    <3> QED BY <3>1
  <2> DEFINE named == [uri |-> page, cached |-> cached]
  <2> HIDE DEF named
  <2>7. s.parsed = Slot(o, named)
    BY <2>6 DEF named
  <2> HIDE DEF s
  <2>8. /\ s.fetched = r.fetched /\ s.nav = r.nav /\ s.layout = r.layout
        /\ s.artifact = r.artifact /\ s.pwasm = r.pwasm /\ s.arts = r.arts
    BY <2>6, ElseRParts
  <2>9. Clears(s, m.scope)
    <3>1. \A y : ClearScope(Slot(o, y), m.scope) = None
      BY <1>0, SlotParts DEF ClearScope, InScope
    <3>2. ClearScope(None, m.scope) = None
      BY DEF ClearScope, InScope
    <3> QED BY <2>6, <2>7, <2>8, <3>1, <3>2
         DEF Clears, StoreReady, Drained, NoPage, NoFrame
  <2>10. s.arts = Ids(m.hist)
    BY <2>8 DEF StoreReady
  <2>11. m.pend = None \/ Pending(m, s)
    <3>1. s.shown = r.shown /\ s.deferred = r.deferred /\ s.shifted = r.shifted
          /\ s.lost = r.lost
      BY <2>6, ElseRParts
    <3> QED BY <1>0, <3>1 DEF Pending
  <2>12. LET g == fail_owned_operation(m, o) IN InvOf(g.v, s, g.fx \o t)
    BY <1>0, <2>5, <2>9, <2>10, <2>11, FailGood
  <2>13. f.fx \o <<>> = f.fx
    BY <2>1
  <2>14. Stored(m, o, 1).v = f.v /\ Stored(m, o, 1).fx = f.fx
    BY <2>4, <2>13, RetParts
  <2> QED BY <2>12, <2>14 DEF s, f
<1>3. CASE d = Ret(l, Loads(m, o, 1))
  <2>1. Else(m, l, {"out", "nreq"}) /\ l.nreq = m.nreq + 1 /\ l.out = m.out \cup {m.nreq}
    BY <1>0, LoadingFields
  <2> HIDE DEF l
  <2>2. Else(l, n, {"phase"}) /\ n.phase = "Layout"
    BY <2>1, PhaseFields DEF Else
  <2>3. Loads(m, o, 1) = <<a>> /\ a \in Effects /\ a.e = "LoadWasm" /\ a.o.scope = o.scope
        /\ a.o.req = m.nreq /\ a.o \in Owners
    BY <1>0, LoadsOne
  <2>4. b \in Effects /\ b.e = "PrepareLayout" /\ b.o = o
    BY <1>0, EffectOf, FxParts DEF OwnedBare
  <2>5. l.scope = m.scope
    BY <2>1, ElseParts
  <2>6. ParseCompleted(l, o) = Ret(n, <<b>>)
    BY <1>0, <2>1, <2>5 DEF ParseCompleted, Owns
  <2> HIDE DEF n, a, b
  <2>7. d.v = l /\ d.fx = <<a>>
    BY <1>3, <2>3, RetParts
  <2>8. ParseCompleted(l, o).v = n /\ ParseCompleted(l, o).fx = <<b>>
    BY <2>6, RetParts
  <2>9. Stored(m, o, 1) = Ret(n, <<a, b>>)
    BY <2>3, <2>4, <2>7, <2>8, Two DEF Stored
  <2>10. n.out = l.out /\ n.nreq = l.nreq
    BY <2>2, ElseParts
  <2>11. Else(m, n, {"phase", "out", "nreq"})
    BY <2>1, <2>2 DEF Else
  <2> DEFINE R == {a.o.req, b.o.req}
  <2>12. /\ Sound(n, s) /\ LayoutReady(n, s, o) /\ s.pwasm = None /\ s.activated = None
         /\ Owns(n, o) /\ Accounted(n, s, R) /\ s.arts = Ids(n.hist) /\ n.retry = None
    <3>1. o.req \in n.out /\ n.nreq \in Nat /\ n.out \subseteq Nat
          /\ (\A k \in n.out : k < n.nreq) /\ n.phase # "ShuttingDown"
      BY <1>0, <2>1, <2>2, <2>10
    <3>2. (\A k \in n.out : k \in m.out \/ k \in R) /\ o.req \in R
      BY <2>1, <2>3, <2>4, <2>10
    <3> HIDE DEF R
    <3>3. LET x == StoredIn(r, o, page, cached, 1) IN
            /\ Sound(n, x) /\ LayoutReady(n, x, o) /\ x.pwasm = None /\ x.activated = None
            /\ Owns(n, o) /\ Accounted(n, x, R) /\ x.arts = Ids(n.hist) /\ n.retry = None
      BY <2>11, <3>1, <3>2, StoredReady
    <3> QED BY <3>3
  <2> HIDE DEF s
  <2>13. PairOK(n, s, a, b)
    <3>1. Owns(n, a.o) /\ a.o.req # b.o.req
      BY <1>0, <2>1, <2>3, <2>4, <2>10, <2>12 DEF Owns
    <3> QED BY <2>3, <2>4, <2>12, <3>1 DEF PairOK
  <2>14. InvOf(n, s, <<a, b>> \o t)
    BY <2>3, <2>4, <2>12, <2>13, PairGood
  <2> QED BY <2>9, <2>14, RetParts DEF s
<1> QED BY <1>1, <1>2, <1>3

\* Storing a page keeps the invariant.
LEMMA StoreDone ==
    ASSUME NEW m, NEW r, NEW o, NEW page, NEW cached, StoreReady(m, r, o, page, cached),
           NEW deps \in 0..1,
           NEW t \in Seq(Effects), AllPlain(t)
    PROVE  LET b == Stored(m, o, deps) IN
           InvOf(b.v, StoredIn(r, o, page, cached, deps), b.fx \o t)
<1>1. CASE deps = 0
  BY <1>1, StoredAlone
<1>2. CASE deps = 1
  BY <1>2, StoredWith
<1> QED BY <1>1, <1>2

\* The runtime with the fetched page taken.
Unfetched(r) == [r EXCEPT !.fetched = None]

\* The same, field by field.
LEMMA UnfetchedFields ==
    ASSUME NEW r, DOMAIN r = RuntimeFields
    PROVE  ElseR(r, Unfetched(r), {"fetched"}) /\ Unfetched(r).fetched = None
<1> DEFINE n == Unfetched(r)
<1>1. DOMAIN n = RuntimeFields
  BY Zenon DEF Unfetched
<1>2. \A f \in RuntimeFields \ {"fetched"} : n[f] = r[f]
  BY Zenon DEF Unfetched
<1>3. n.fetched = None
  BY SMT DEF RuntimeFields, Unfetched
<1> QED BY <1>1, <1>2, <1>3 DEF ElseR

\* Parsing keeps the invariant: a page, a failure, or memory that ran out.
LEMMA ParseKeeps == ASSUME Inv, ExecParse PROVE Inv'
<1> DEFINE o == Head(q).o
           t == Tail(q)
           r == Unfetched(rt)
           page == rt.fetched.x
<1>1. q # <<>> /\ Head(q).e = "Parse"
  BY DEF ExecParse, Executing, Head1
<1>0. Head(q).e \notin Trivial \cup Evicts \cup {"RetirePageWork", "RetireSubscriptions"}
  BY <1>1 DEF Trivial, Plain, Evicts
<1>2. /\ Sound(v, rt) /\ v.retry = None /\ t \in Seq(Effects) /\ Head(q) \in Effects
      /\ NavOK(v, rt, Head(q)) /\ AllPlain(t)
      /\ rt.arts = Ids(v.hist) \ InstalledBy(Head(q))
      /\ DOMAIN v = ModelFields /\ DOMAIN rt = RuntimeFields
  BY <1>0, <1>1, AtKind, AtHead DEF Inv, NavSteps, Sound, ModelType, RuntimeType
<1>3. /\ Holds(rt.fetched, o) /\ page \in Pages /\ rt.parsed = None /\ rt.batch = None
      /\ NoFrame(rt) /\ rt.pwasm = None /\ v.pend = None
      /\ Owns(v, o) /\ Accounted(v, rt, {o.req}) /\ rt.activated = None
  BY <1>1, <1>2 DEF NavOK
<1>4. rt.arts = Ids(v.hist) /\ o \in Owners
  BY <1>1, <1>2, EffectParts DEF InstalledBy, OwnedBare
<1>5. ElseR(rt, r, {"fetched"}) /\ r.fetched = None
  BY <1>2, UnfetchedFields
<1> DEFINE s(n) == StoredIn(r, o, page, FALSE, n)
<1>6. \/ Rejected
      \/ Done(fail_owned_operation(v, o), r)
      \/ \E n \in 0..1 : StoreParsed(o, page, FALSE, r, n)
  BY <1>3 DEF ExecParse, o1, Head1, Unfetched
<1> HIDE DEF o, r, page
<1>7. /\ r.parsed = rt.parsed /\ r.batch = rt.batch /\ r.nav = rt.nav /\ r.layout = rt.layout
      /\ r.artifact = rt.artifact /\ r.pwasm = rt.pwasm /\ r.activated = rt.activated
      /\ r.deferred = rt.deferred /\ r.lost = rt.lost /\ r.arts = rt.arts
      /\ r.live = rt.live /\ r.kept = rt.kept /\ r.trust = rt.trust
  BY <1>5, ElseRParts
<1>8. Sound(v, r)
  <2>1. Else(v, v, {"phase", "conn", "out", "psubs", "nreq", "recon", "pcommit",
                       "presize", "retry"})
    BY <1>2, ElseSelf
  <2>2. ElseR(rt, r, RuntimeFields \ {"lost", "shifted"})
    BY <1>5 DEF ElseR, RuntimeFields
  <2>3. v.phase # "ShuttingDown" /\ v.conn \in Conns /\ v.nreq \in Nat
        /\ v.out \subseteq Nat /\ \A k \in v.out : k < v.nreq
    BY <1>2 DEF Sound, ModelType
  <2>4. r.live \subseteq rt.live /\ r.kept \subseteq rt.kept /\ r.trust \in Pages \cup {None}
        /\ (r.deferred # None => r.deferred.o \in Owners)
    BY <1>2, <1>7 DEF Sound, RuntimeType
  <2> QED BY <1>2, <2>1, <2>2, <2>3, <2>4, SoundThen
<1>9. Drained(r)
  BY <1>3, <1>5, <1>7 DEF Drained, NoPage, NoFrame
<1>10. CASE Rejected
  <2>1. LET b == PresentationFailed(v, Head(q)) IN InvOf(b.v, rt, b.fx \o Tail(q))
    BY <1>1, RejectedGood DEF Inv, Rejectable
  <2> QED BY <1>10, <2>1 DEF Rejected, Done, Head1, Inv
<1>11. CASE Done(fail_owned_operation(v, o), r)
  <2>1. LET f == fail_owned_operation(v, o) IN InvOf(f.v, r, f.fx \o t)
    BY <1>2, <1>3, <1>4, <1>7, <1>8, <1>9, DrainedClears, FailGood
  <2> QED BY <1>11, <2>1 DEF Done, Inv
<1>12. ASSUME NEW n \in 0..1, StoreParsed(o, page, FALSE, r, n) PROVE Inv'
  <2>1. Done(Stored(v, o, n), s(n))
    BY <1>3, <1>7, <1>12 DEF StoreParsed, Stored, StoredIn
  <2>2. StoreReady(v, r, o, page, FALSE)
    BY <1>2, <1>3, <1>4, <1>7, <1>8, <1>9 DEF StoreReady, Accounted
  <2>3. LET b == Stored(v, o, n) IN InvOf(b.v, s(n), b.fx \o t)
    BY <1>2, <2>2, StoreDone
  <2> QED BY <2>1, <2>3 DEF Done, Inv
<1> QED BY <1>6, <1>10, <1>11, <1>12

\* The end of the only request, with everything staged for it gone, leaves
\* the viewer at rest.
LEMMA SettleGood ==
    ASSUME NEW m, NEW r, Sound(m, r), m.retry = None, NEW k, Settled(m, r, {k}),
           NEW n, Else(m, n, Work \ {"subs", "retry"}), n.out \subseteq m.out \ {k},
           n.conn \in Conns, n.nreq = m.nreq,
           NEW s, ElseR(r, s, WorkR), s.live \subseteq r.live /\ s.kept \subseteq r.kept,
           s.trust \in Pages \cup {None}, Drained(s), s.arts = Ids(m.hist),
           NEW t \in Seq(Effects), AllPlain(t)
    PROVE  InvOf(n, s, <<>> \o t) /\ InvOf(n, s, Render \o t)
<1>1. Else(m, n, Work)
  BY DEF Else, Work
<1>2. Settled(n, s, {})
  BY <1>1, SettledThen
<1>3. n.hist = m.hist /\ n.retry = None
  BY ElseParts DEF Work
<1>4. s.deferred = r.deferred
  BY ElseRParts DEF WorkR, RuntimeFields
<1>5. Sound(n, s)
  <2>1. Else(m, n, {"phase", "conn", "out", "psubs", "nreq", "recon", "pcommit",
                       "presize", "retry"})
    BY DEF Else, Work
  <2>2. ElseR(r, s, RuntimeFields \ {"lost", "shifted"})
    BY DEF ElseR, WorkR
  <2>3. n.phase # "ShuttingDown"
    BY <1>2 DEF Settled
  <2>4. n.nreq \in Nat /\ n.out \subseteq Nat /\ \A j \in n.out : j < n.nreq
    BY DEF Sound, ModelType
  <2>5. s.deferred # None => s.deferred.o \in Owners
    BY <1>4 DEF Sound, RuntimeType
  <2> QED BY <2>1, <2>2, <2>3, <2>4, <2>5, SoundThen
<1> QED BY <1>2, <1>3, <1>5, RestGood

\* Restoring an entry from the cache keeps the invariant: shown, failed,
\* or memory that ran out.
LEMMA CachedKeeps == ASSUME Inv, ExecActivateCachedHistory PROVE Inv'
<1> DEFINE o == Head(q).o
           t == Tail(q)
           page == Head(q).x.uri
           r == activate_page_scope(rt, o.scope)
           s(n) == StoredIn(r, o, page, TRUE, n)
<1>1. q # <<>> /\ Head(q).e = "ActivateCachedHistory"
  BY DEF ExecActivateCachedHistory, Executing, Head1
<1>0. Head(q).e \notin Trivial \cup Evicts \cup {"RetirePageWork", "RetireSubscriptions"}
  BY <1>1 DEF Trivial, Plain, Evicts
<1>2. /\ Sound(v, rt) /\ v.retry = None /\ t \in Seq(Effects) /\ Head(q) \in Effects
      /\ NavOK(v, rt, Head(q)) /\ AllPlain(t)
      /\ rt.arts = Ids(v.hist) \ InstalledBy(Head(q))
      /\ DOMAIN v = ModelFields /\ DOMAIN rt = RuntimeFields
  BY <1>0, <1>1, AtKind, AtHead DEF Inv, NavSteps, Sound, ModelType, RuntimeType
<1>3. /\ Drained(rt) /\ Pending(v, rt) /\ page = v.uri
      /\ Owns(v, o) /\ Accounted(v, rt, {o.req}) /\ rt.activated = None
  BY <1>1, <1>2 DEF NavOK
<1>4. rt.arts = Ids(v.hist) /\ o \in Owners /\ page \in Pages
  BY <1>1, <1>2, EffectParts DEF InstalledBy, Entries
<1>5. rt.parsed = None /\ rt.batch = None
  BY <1>3 DEF Drained, NoPage
<1>6. \/ Rejected
      \/ Done(fail_owned_operation(v, o), rt)
      \/ \E n \in 0..1 : StoreParsed(o, page, TRUE, r, n)
  BY <1>3, <1>5 DEF ExecActivateCachedHistory, o1, Head1
<1> HIDE DEF o, page
<1>8. ElseR(rt, r, {"cs", "live", "kept"}) /\ r.live \subseteq rt.live /\ r.kept \subseteq rt.kept
  BY <1>2, ActivateFields
<1> HIDE DEF r
<1>9. CASE Rejected
  <2>1. LET b == PresentationFailed(v, Head(q)) IN InvOf(b.v, rt, b.fx \o Tail(q))
    BY <1>1, RejectedGood DEF Inv, Rejectable
  <2> QED BY <1>9, <2>1 DEF Rejected, Done, Head1, Inv
<1>10. CASE Done(fail_owned_operation(v, o), rt)
  <2>1. LET f == fail_owned_operation(v, o) IN InvOf(f.v, rt, f.fx \o t)
    BY <1>2, <1>3, <1>4, DrainedClears, FailGood
  <2> QED BY <1>10, <2>1 DEF Done, Inv
<1>11. ASSUME NEW n \in 0..1, StoreParsed(o, page, TRUE, r, n) PROVE Inv'
  <2>1. ElseR(rt, r, UnseenR)
    BY <1>8 DEF ElseR, UnseenR
  <2>2. Else(v, v, Unseen)
    BY <1>2, ElseSelf
  <2>3. r.parsed = None /\ r.batch = None /\ r.activated = None /\ r.arts = rt.arts
        /\ r.trust = rt.trust
    BY <1>3, <1>5, <1>8, ElseRParts
  <2>4. Sound(v, r)
    BY <1>2, <1>8, <2>1, <2>2, <2>3, SoundSame DEF Sound, RuntimeType
  <2>5. Drained(r) /\ Pending(v, r) /\ Accounted(v, r, {o.req})
    BY <1>3, <2>1, <2>2, Frames
  <2>6. Done(Stored(v, o, n), s(n))
    BY <2>3, <1>11 DEF StoreParsed, Stored, StoredIn
  <2>7. PICK cached \in BOOLEAN : cached = TRUE
    OBVIOUS
  <2>8. StoreReady(v, r, o, page, cached)
    BY <1>2, <1>3, <1>4, <2>3, <2>4, <2>5, <2>7 DEF StoreReady
  <2>9. LET b == Stored(v, o, n) IN InvOf(b.v, StoredIn(r, o, page, cached, n), b.fx \o t)
    BY <1>2, <2>8, StoreDone
  <2> HIDE DEF s
  <2>10. s(n) = StoredIn(r, o, page, cached, n)
    BY <2>7 DEF s
  <2> QED BY <2>6, <2>9, <2>10 DEF Done, Inv
<1> QED BY <1>6, <1>9, <1>10, <1>11

-----------------------------------------------------------------------------
(* Laying a page out                                                       *)

\* The runtime with a page laid out.
LaidOut(r, o, page) ==
    [r EXCEPT !.parsed = None, !.layout = Slot(o, page),
              !.batch = ClearScope(@, o.scope), !.nav = Slot(o, page)]

\* The same, field by field.
LEMMA LaidOutFields ==
    ASSUME NEW r, DOMAIN r = RuntimeFields, NEW o, NEW page
    PROVE  LET n == LaidOut(r, o, page) IN
           /\ ElseR(r, n, {"parsed", "layout", "batch", "nav"})
           /\ n.parsed = None /\ n.layout = Slot(o, page) /\ n.nav = Slot(o, page)
           /\ n.batch = ClearScope(r.batch, o.scope)
<1> DEFINE n == LaidOut(r, o, page)
<1>1. DOMAIN n = RuntimeFields
  BY Zenon DEF LaidOut
<1>2. \A f \in RuntimeFields \ {"parsed", "layout", "batch", "nav"} : n[f] = r[f]
  BY Zenon DEF LaidOut
<1>3. /\ n.parsed = None /\ n.layout = Slot(o, page) /\ n.nav = Slot(o, page)
      /\ n.batch = ClearScope(r.batch, o.scope)
  BY SMT DEF RuntimeFields, LaidOut
<1> QED BY <1>1, <1>2, <1>3 DEF ElseR

\* The runtime with a laid out page that asks for its place in the
\* history.
Asking(r, o, page) == [LaidOut(r, o, page) EXCEPT !.artifact = Slot(o, 0)]

\* The same, field by field.
LEMMA AskingFields ==
    ASSUME NEW r, DOMAIN r = RuntimeFields, NEW o, NEW page
    PROVE  LET n == Asking(r, o, page) IN
           /\ ElseR(r, n, {"parsed", "layout", "batch", "nav", "artifact"})
           /\ n.parsed = None /\ n.layout = Slot(o, page) /\ n.nav = Slot(o, page)
           /\ n.batch = ClearScope(r.batch, o.scope) /\ n.artifact = Slot(o, 0)
<1> DEFINE p == LaidOut(r, o, page)
           n == [p EXCEPT !.artifact = Slot(o, 0)]
<1>1. /\ ElseR(r, p, {"parsed", "layout", "batch", "nav"})
      /\ p.parsed = None /\ p.layout = Slot(o, page) /\ p.nav = Slot(o, page)
      /\ p.batch = ClearScope(r.batch, o.scope)
  BY LaidOutFields
<1> HIDE DEF p
<1>2. DOMAIN p = RuntimeFields
  BY <1>1 DEF ElseR
<1>3. DOMAIN n = RuntimeFields
  BY <1>2, Zenon
<1>4. \A f \in RuntimeFields \ {"artifact"} : n[f] = p[f]
  BY <1>2, Zenon
<1>5. n.artifact = Slot(o, 0)
  BY <1>2, SMT DEF RuntimeFields
<1> HIDE DEF n
<1>6. ElseR(r, n, {"parsed", "layout", "batch", "nav", "artifact"})
  BY <1>1, <1>3, <1>4 DEF ElseR
<1>7. n.parsed = p.parsed /\ n.layout = p.layout /\ n.nav = p.nav /\ n.batch = p.batch
  BY <1>4 DEF RuntimeFields
<1>8. Asking(r, o, page) = n
  BY DEF Asking, n, p
<1> QED BY <1>1, <1>5, <1>6, <1>7, <1>8

\* The model with the commit of a page written down.
Admitting(m, o, page, id) ==
    [m EXCEPT !.uri = page,
              !.pcommit = [o |-> o, id |-> id, uri |-> page, commit |-> m.commit]]

\* The same, field by field.
LEMMA AdmittingFields ==
    ASSUME NEW m, DOMAIN m = ModelFields, NEW o, NEW page, NEW id
    PROVE  LET n == Admitting(m, o, page, id) IN
           /\ Else(m, n, {"uri", "pcommit"}) /\ n.uri = page
           /\ n.pcommit.o = o /\ n.pcommit.id = id /\ n.pcommit.uri = page
           /\ n.pcommit.commit = m.commit
           /\ n.pcommit = [o |-> o, id |-> id, uri |-> page, commit |-> m.commit]
<1> DEFINE x == [o |-> o, id |-> id, uri |-> page, commit |-> m.commit]
           n == [m EXCEPT !.uri = page, !.pcommit = x]
<1>0. Admitting(m, o, page, id) = n
  BY DEF Admitting
<1>1. x.o = o /\ x.id = id /\ x.uri = page /\ x.commit = m.commit
  OBVIOUS
<1> HIDE DEF x
<1>2. DOMAIN n = ModelFields
  BY Zenon
<1>3. \A f \in ModelFields \ {"uri", "pcommit"} : n[f] = m[f]
  BY Zenon
<1>4. n.uri = page /\ n.pcommit = x
  BY SMT DEF ModelFields
<1> HIDE DEF n
<1>5. Else(m, n, {"uri", "pcommit"})
  BY <1>2, <1>3 DEF Else
<1> QED BY <1>0, <1>1, <1>4, <1>5 DEF x

\* What holds when the layout of a page is at the front.
AtLayout(m, r, a, t) ==
    /\ a \in Effects /\ a.o \in Owners /\ t \in Seq(Effects) /\ AllPlain(t)
    /\ Owns(m, a.o) /\ Accounted(m, r, {a.o.req}) /\ r.activated = None
    /\ LayoutReady(m, r, a.o) /\ r.pwasm = None /\ r.arts = Ids(m.hist) /\ m.retry = None
    /\ Sound(m, r) /\ DOMAIN m = ModelFields /\ DOMAIN r = RuntimeFields

\* A page that is laid out is staged and nothing else is.
LEMMA LaidOutHolds ==
    ASSUME NEW m, NEW r, NEW a, NEW t, AtLayout(m, r, a, t), NEW s,
           NEW F, F \subseteq {"parsed", "layout", "batch", "nav", "artifact"},
           ElseR(r, s, F), s.parsed = None,
           s.layout = Slot(a.o, r.parsed.x), s.nav = Slot(a.o, r.parsed.x),
           s.batch = ClearScope(r.batch, a.o.scope)
    PROVE  /\ NoPage(s) /\ s.pwasm = None /\ s.activated = None /\ s.arts = Ids(m.hist)
           /\ Holds(s.nav, a.o) /\ Holds(s.layout, a.o) /\ s.layout.x = r.parsed.x
           /\ Sound(m, s) /\ Accounted(m, s, {a.o.req})
           /\ Pending(m, r) => Pending(m, s)
<1>1. r.parsed.x \in Prepared
  BY DEF AtLayout, LayoutReady
<1>2. /\ Holds(s.nav, a.o) /\ Holds(s.layout, a.o) /\ s.layout.x = r.parsed.x
  BY <1>1, SlotThere, SlotParts DEF AtLayout
<1>3. /\ s.fetched = r.fetched /\ s.pwasm = r.pwasm /\ s.activated = r.activated
      /\ s.deferred = r.deferred /\ s.lost = r.lost /\ s.arts = r.arts
      /\ s.live = r.live /\ s.kept = r.kept
      /\ s.trust = r.trust /\ s.shown = r.shown /\ s.shifted = r.shifted
  BY ElseRParts
<1>4. s.batch = None /\ s.fetched = None
  BY <1>3 DEF AtLayout, LayoutReady, Holds, ClearScope, InScope
<1>5. Sound(m, s)
  <2>1. Else(m, m, {"phase", "conn", "out", "psubs", "nreq", "recon", "pcommit",
                       "presize", "retry"})
    BY ElseSelf DEF AtLayout
  <2>2. ElseR(r, s, RuntimeFields \ {"lost", "shifted"})
    BY DEF ElseR, RuntimeFields
  <2>3. m.phase # "ShuttingDown" /\ m.conn \in Conns /\ m.nreq \in Nat
        /\ m.out \subseteq Nat /\ \A k \in m.out : k < m.nreq
    BY DEF AtLayout, Sound, ModelType
  <2>4. s.live \subseteq r.live /\ s.kept \subseteq r.kept /\ s.trust \in Pages \cup {None}
        /\ (s.deferred # None => s.deferred.o \in Owners)
    BY <1>3 DEF AtLayout, Sound, RuntimeType
  <2> QED BY <2>1, <2>2, <2>3, <2>4, SoundThen DEF AtLayout
<1>6. Accounted(m, s, {a.o.req}) /\ (Pending(m, r) => Pending(m, s))
  BY <1>3 DEF AtLayout, Accounted, Pending
<1> QED BY <1>2, <1>3, <1>4, <1>5, <1>6 DEF AtLayout, NoPage

\* A restored page that is laid out goes on to the screen.
LEMMA CachedLayout ==
    ASSUME NEW m, NEW r, NEW a, NEW t, AtLayout(m, r, a, t), r.parsed.x.cached
    PROVE  LET b == LayoutPrepared(m, a.o) IN
           InvOf(b.v, LaidOut(r, a.o, r.parsed.x), b.fx \o t)
<1> DEFINE page == r.parsed.x
           o == a.o
           s == LaidOut(r, o, page)
           c == Fx("ActivateLayout", o, None)
<1>1. /\ ElseR(r, s, {"parsed", "layout", "batch", "nav"})
      /\ s.parsed = None /\ s.layout = Slot(o, page) /\ s.nav = Slot(o, page)
      /\ s.batch = ClearScope(r.batch, o.scope)
  BY LaidOutFields DEF AtLayout
<1> HIDE DEF s
<1>2. /\ NoPage(s) /\ s.pwasm = None /\ s.activated = None /\ s.arts = Ids(m.hist)
      /\ Holds(s.nav, o) /\ Holds(s.layout, o) /\ s.layout.x = page
      /\ Sound(m, s) /\ Accounted(m, s, {o.req})
      /\ Pending(m, r) => Pending(m, s)
  BY <1>1, LaidOutHolds
<1>3. LayoutPrepared(m, o) = Ret(m, <<c>>)
  BY DEF LayoutPrepared, AtLayout
<1>4. c \in Effects /\ c.e = "ActivateLayout" /\ c.o = o
  BY EffectOf, FxParts DEF OwnedBare, AtLayout
<1> HIDE DEF c
<1>5. s.artifact = None
  <2>1. s.artifact = r.artifact
    BY <1>1, ElseRParts
  <2> QED BY <2>1 DEF AtLayout, LayoutReady, NoFrame
<1>6. page.uri = m.uri /\ Pending(m, r) /\ Owns(m, o)
  BY DEF AtLayout, LayoutReady
<1>7. NavOK(m, s, c) /\ InstalledBy(c) = {}
  BY <1>2, <1>4, <1>5, <1>6 DEF NavOK, NavSteps, FrameReady, InstalledBy
<1>8. InvOf(m, s, <<c>> \o t)
  BY <1>2, <1>4, <1>7, OnGood DEF OneOK, AtLayout
<1> QED BY <1>3, <1>8, RetParts DEF s

\* A new page that is laid out asks for its place in the history.
LEMMA AskedLayout ==
    ASSUME NEW m, NEW r, NEW a, NEW t, AtLayout(m, r, a, t), ~r.parsed.x.cached
    PROVE  LET b == HistoryAdmissionRequested(m, a.o, r.parsed.x.uri) IN
           InvOf(b.v, Asking(r, a.o, r.parsed.x), b.fx \o t)
<1> DEFINE page == r.parsed.x
           o == a.o
           s == Asking(r, o, page)
           id == ReplacedId(m)
           replacing == m.commit = "ReplaceCurrent" /\ m.pos \in DOMAIN m.hist
           n == Admitting(m, o, page.uri, id)
           c == Fx("AdmitHistoryArtifact", o, [id |-> id, replacing |-> replacing])
           f == fail_owned_operation(m, o)
<1>1. /\ ElseR(r, s, {"parsed", "layout", "batch", "nav", "artifact"})
      /\ s.parsed = None /\ s.layout = Slot(o, page) /\ s.nav = Slot(o, page)
      /\ s.batch = ClearScope(r.batch, o.scope) /\ s.artifact = Slot(o, 0)
  BY AskingFields DEF AtLayout
<1> HIDE DEF s
<1>2. /\ NoPage(s) /\ s.pwasm = None /\ s.activated = None /\ s.arts = Ids(m.hist)
      /\ Holds(s.nav, o) /\ Holds(s.layout, o) /\ s.layout.x = page
      /\ Sound(m, s) /\ Accounted(m, s, {o.req})
  BY <1>1, LaidOutHolds
<1>3. page.uri \in Pages /\ m.pend = None /\ Owns(m, o) /\ o.scope = m.scope /\ o \in Owners
  BY DEF AtLayout, LayoutReady, Prepared, Owns
<1>4. Holds(s.artifact, o)
  BY <1>1, <1>3, SlotThere
<1>5. id \in Nat
  <2>1. m.hist \in Seq(Entries) /\ m.nhid \in Nat
    BY DEF AtLayout, Sound, ModelType
  <2>2. \A i \in DOMAIN m.hist : m.hist[i] \in Entries
    BY <2>1
  <2>3. \A i \in DOMAIN m.hist : m.hist[i].id \in Nat
    BY <2>2 DEF Entries
  <2> QED BY <2>1, <2>3 DEF ReplacedId
<1>6. HistoryAdmissionRequested(m, o, page.uri) = f
      \/ HistoryAdmissionRequested(m, o, page.uri) = Ret(n, <<c>>)
  BY <1>3 DEF HistoryAdmissionRequested, ReplacedId, Admitting
<1>7. CASE HistoryAdmissionRequested(m, o, page.uri) = f
  <2>1. Clears(s, m.scope)
    BY <1>2, <1>3, <1>4 DEF Clears, ClearScope, InScope, Holds, NoPage
  <2>2. LET g == fail_owned_operation(m, o) IN InvOf(g.v, s, g.fx \o t)
    BY <1>2, <1>3, <2>1, FailGood DEF AtLayout
  <2> QED BY <1>7, <2>2 DEF s
<1>8. CASE HistoryAdmissionRequested(m, o, page.uri) = Ret(n, <<c>>)
  <2> HIDE DEF id
  <2>1. replacing \in BOOLEAN
    OBVIOUS
  <2> HIDE DEF replacing
  <2> DEFINE x == [id |-> id, replacing |-> replacing]
  <2>2. x \in [id : Nat, replacing : BOOLEAN] /\ x.id = id
    BY <1>5, <2>1
  <2>3. c = Fx("AdmitHistoryArtifact", o, x)
    OBVIOUS
  <2> HIDE DEF x, c
  <2>4. c \in Effects /\ c.e = "AdmitHistoryArtifact" /\ c.o = o /\ c.x.id = id
    BY <1>3, <2>2, <2>3, EffectOf, FxParts
  <2>5. /\ Else(m, n, {"uri", "pcommit"}) /\ n.uri = page.uri
        /\ n.pcommit.o = o /\ n.pcommit.id = id /\ n.pcommit.uri = page.uri
        /\ n.pcommit.commit = m.commit
        /\ n.pcommit = [o |-> o, id |-> id, uri |-> page.uri, commit |-> m.commit]
    BY AdmittingFields DEF AtLayout
  <2> HIDE DEF n
  <2>6. n.pcommit # None
    <3>1. n.pcommit \in Commits
      BY <1>3, <1>5, <2>5 DEF Commits, AtLayout, Sound, ModelType
    <3> QED BY <3>1, NoneAssumption
  <2>7. /\ n.phase = m.phase /\ n.scope = m.scope /\ n.hist = m.hist /\ n.pos = m.pos
        /\ n.out = m.out /\ n.pend = m.pend /\ n.commit = m.commit /\ n.nhid = m.nhid
        /\ n.conn = m.conn /\ n.gen = m.gen /\ n.nreq = m.nreq /\ n.retry = m.retry
        /\ n.subs = m.subs /\ DOMAIN n = ModelFields
    BY <2>5, ElseParts
  <2>8. Sound(n, s)
    <3>1. ModelType(n)
      BY <1>2, <1>3, <2>5, <2>7 DEF Sound, ModelType
    <3> QED BY <1>2, <2>7, <3>1 DEF Sound, LiveShown
  <2>9. id = ReplacedId(n)
    BY <2>7 DEF ReplacedId, id
  <2>10. NavOK(n, s, c) /\ InstalledBy(c) = {}
    <3>1. Owns(n, c.o) /\ Accounted(n, s, {c.o.req}) /\ n.pend = None
      BY <1>2, <1>3, <2>4, <2>7 DEF Owns, Accounted
    <3>2. FrameReady(n, s, c.o)
      BY <1>2, <2>4, <2>5 DEF FrameReady
    <3> QED BY <1>2, <1>4, <2>4, <2>5, <2>6, <2>7, <2>9, <3>1, <3>2
         DEF NavOK, NavSteps, InstalledBy
  <2>11. InvOf(n, s, <<c>> \o t)
    BY <1>2, <2>4, <2>7, <2>8, <2>10, OnGood DEF OneOK, AtLayout
  <2> QED BY <1>8, <2>11, RetParts DEF s
<1> QED BY <1>6, <1>7, <1>8

\* Laying a page out keeps the invariant: done, failed, or memory that ran
\* out.
LEMMA PrepareLayoutKeeps == ASSUME Inv, ExecPrepareLayout PROVE Inv'
<1> DEFINE a == Head(q)
           o == a.o
           t == Tail(q)
           page == rt.parsed.x
<1>1. q # <<>> /\ a.e = "PrepareLayout"
  BY DEF ExecPrepareLayout, Executing, Head1
<1>0. a.e \notin Trivial \cup Evicts \cup {"RetirePageWork", "RetireSubscriptions"}
  BY <1>1 DEF Trivial, Plain, Evicts
<1>2. /\ Sound(v, rt) /\ v.retry = None /\ t \in Seq(Effects) /\ a \in Effects
      /\ NavOK(v, rt, a) /\ AllPlain(t)
      /\ rt.arts = Ids(v.hist) \ InstalledBy(a)
      /\ DOMAIN v = ModelFields /\ DOMAIN rt = RuntimeFields
  BY <1>0, <1>1, AtKind, AtHead DEF Inv, NavSteps, Sound, ModelType, RuntimeType
<1>3. AtLayout(v, rt, a, t) /\ Holds(rt.parsed, o) /\ rt.nav = None
  BY <1>1, <1>2, EffectParts DEF NavOK, AtLayout, InstalledBy, OwnedBare, LayoutReady, NoFrame
<1>4. \/ Rejected
      \/ page.cached /\ Done(LayoutPrepared(v, o), LaidOut(rt, o, page))
      \/ ~page.cached /\ Done(HistoryAdmissionRequested(v, o, page.uri), Asking(rt, o, page))
  BY <1>3 DEF ExecPrepareLayout, o1, Head1, LaidOut, Asking
<1>5. CASE Rejected
  <2>1. LET b == PresentationFailed(v, Head(q)) IN InvOf(b.v, rt, b.fx \o Tail(q))
    BY <1>1, RejectedGood DEF Inv, Rejectable
  <2> QED BY <1>5, <2>1 DEF Rejected, Done, Head1, Inv
<1> HIDE DEF a
<1>6. CASE page.cached /\ Done(LayoutPrepared(v, o), LaidOut(rt, o, page))
  <2>1. LET b == LayoutPrepared(v, o) IN InvOf(b.v, LaidOut(rt, o, page), b.fx \o t)
    BY <1>3, <1>6, CachedLayout
  <2> QED BY <1>6, <2>1 DEF Done, Inv
<1>7. CASE ~page.cached /\ Done(HistoryAdmissionRequested(v, o, page.uri), Asking(rt, o, page))
  <2>1. LET b == HistoryAdmissionRequested(v, o, page.uri)
        IN InvOf(b.v, Asking(rt, o, page), b.fx \o t)
    BY <1>3, <1>7, AskedLayout
  <2> QED BY <1>7, <2>1 DEF Done, Inv
<1> QED BY <1>4, <1>5, <1>6, <1>7

-----------------------------------------------------------------------------
(* Showing what was laid out                                               *)

\* The model once a page is on the screen.
Shown(m, o) ==
    LET mine == m.pend # None /\ m.pend.gen = o.scope.gen
    IN Drop([m EXCEPT !.phase = "Ready",
                      !.pos = IF mine THEN m.pend.target ELSE @,
                      !.pend = IF mine THEN None ELSE @], o)

\* The same, field by field: a restore that is shown moves the cursor to
\* its target.
LEMMA ShownFields ==
    ASSUME NEW m, DOMAIN m = ModelFields, NEW o
    PROVE  LET n == Shown(m, o)
               mine == m.pend # None /\ m.pend.gen = o.scope.gen IN
           /\ Else(m, n, {"phase", "pos", "pend", "out"})
           /\ n.phase = "Ready" /\ n.out = m.out \ {o.req}
           /\ mine => n.pos = m.pend.target /\ n.pend = None
           /\ ~mine => n.pos = m.pos /\ n.pend = m.pend
<1> DEFINE mine == m.pend # None /\ m.pend.gen = o.scope.gen
           x == IF mine THEN m.pend.target ELSE m.pos
           y == IF mine THEN None ELSE m.pend
           p == [m EXCEPT !.phase = "Ready", !.pos = x, !.pend = y]
<1>0. Shown(m, o) = Drop(p, o)
  BY DEF Shown
<1> HIDE DEF x, y
<1>1. DOMAIN p = ModelFields
  BY Zenon
<1>2. \A f \in ModelFields \ {"phase", "pos", "pend"} : p[f] = m[f]
  BY Zenon
<1>3. p.phase = "Ready" /\ p.pos = x /\ p.pend = y
  BY SMT DEF ModelFields
<1> HIDE DEF p
<1>4. p.out = m.out
  BY <1>2 DEF ModelFields
<1>5. Else(p, Drop(p, o), {"out"}) /\ Drop(p, o).out = p.out \ {o.req}
  BY <1>1, DropFields
<1>6. /\ Drop(p, o).phase = "Ready" /\ Drop(p, o).pos = x /\ Drop(p, o).pend = y
  BY <1>3, <1>5, ElseParts
<1>7. Else(m, Drop(p, o), {"phase", "pos", "pend", "out"})
  BY <1>1, <1>2, <1>5 DEF Else
<1> QED BY <1>0, <1>4, <1>5, <1>6, <1>7 DEF x, y

\* The runtime once a frame is on the screen.
Showing(r, what, page, named) ==
    [r EXCEPT !.layout = None, !.shown = what,
              !.activated = IF named THEN r.nav ELSE @,
              !.nav = IF named THEN None ELSE @]

\* The same, field by field.
LEMMA ShowingFields ==
    ASSUME NEW r, DOMAIN r = RuntimeFields, NEW what, NEW page, NEW named
    PROVE  LET n == Showing(r, what, page, named) IN
           /\ ElseR(r, n, {"layout", "shown", "activated", "nav"})
           /\ n.layout = None /\ n.shown = what
           /\ n.nav = IF named THEN None ELSE r.nav
<1> DEFINE n == Showing(r, what, page, named)
<1>1. DOMAIN n = RuntimeFields
  BY Zenon DEF Showing
<1>2. \A f \in RuntimeFields \ {"layout", "shown", "activated", "nav"} : n[f] = r[f]
  BY Zenon DEF Showing
<1>3. n.layout = None /\ n.shown = what /\ n.nav = IF named THEN None ELSE r.nav
  BY SMT DEF RuntimeFields, Showing
<1> QED BY <1>1, <1>2, <1>3 DEF ElseR

\* Showing a frame keeps the invariant, of a page or of a resize.
LEMMA ActivateLayoutKeeps == ASSUME Inv, ExecActivateLayout PROVE Inv'
<1> DEFINE a == Head(q)
           o == a.o
           t == Tail(q)
           page == rt.layout.x
           named == Holds(rt.nav, o)
           what == IF page.uri # None
                   THEN [what |-> "page", scope |-> o.scope, uri |-> page.uri]
                   ELSE rt.shown
           s == Showing(rt, what, page, named)
           n == Shown(v, o)
<1>1. q # <<>> /\ a.e = "ActivateLayout"
  BY DEF ExecActivateLayout, Executing, Head1
<1>0. a.e \notin Trivial \cup Evicts \cup {"RetirePageWork", "RetireSubscriptions"}
  BY <1>1 DEF Trivial, Plain, Evicts
<1>2. /\ Sound(v, rt) /\ v.retry = None /\ t \in Seq(Effects) /\ a \in Effects
      /\ SoloOK(v, rt, a) \/ NavOK(v, rt, a)
      /\ AllPlain(t) /\ rt.arts = Ids(v.hist)
      /\ DOMAIN v = ModelFields /\ DOMAIN rt = RuntimeFields
  BY <1>0, <1>1, AtKind, AtHead DEF Inv, Sound, ModelType, RuntimeType
<1>3. o \in Owners
  BY <1>1, <1>2, EffectParts DEF OwnedBare
<1>5. /\ Owns(v, o) /\ Holds(rt.layout, o) /\ rt.activated = None
      /\ NoPage(rt) /\ rt.pwasm = None /\ rt.artifact = None
      /\ v.scope = o.scope
  BY <1>1, <1>2 DEF SoloOK, NavOK, FrameReady, Owns
<1>6. Done(LayoutActivated(v, o), s)
  BY <1>5 DEF ExecActivateLayout, o1, Head1, Showing
<1>7. LayoutActivated(v, o) = Ret(n, Render)
  BY <1>5 DEF LayoutActivated, Shown
<1>8. v' = n /\ rt' = s /\ q' = Render \o t
  BY <1>6, <1>7, RetParts DEF Done
<1>9. \/ /\ page.uri = None /\ rt.nav = None /\ Settled(v, rt, {o.req})
      \/ /\ page.uri = v.uri /\ Holds(rt.nav, o) /\ Accounted(v, rt, {o.req})
         /\ \/ v.pend = None /\ IsAt(v.hist, v.pos, v.scope, v.uri)
            \/ Pending(v, rt)
  BY <1>1, <1>2 DEF SoloOK, NavOK, FrameReady
<1> HIDE DEF a, o, page, named, what
<1>10. /\ ElseR(rt, s, {"layout", "shown", "activated", "nav"})
       /\ s.layout = None /\ s.shown = what
       /\ s.nav = IF named THEN None ELSE rt.nav
  BY <1>2, ShowingFields
<1>11. /\ Else(v, n, {"phase", "pos", "pend", "out"})
       /\ n.phase = "Ready" /\ n.out = v.out \ {o.req}
       /\ (v.pend # None /\ v.pend.gen = o.scope.gen) => n.pos = v.pend.target /\ n.pend = None
       /\ ~(v.pend # None /\ v.pend.gen = o.scope.gen) => n.pos = v.pos /\ n.pend = v.pend
  BY <1>2, ShownFields
<1> HIDE DEF s, n
<1>12. /\ s.fetched = rt.fetched /\ s.parsed = rt.parsed /\ s.batch = rt.batch
       /\ s.artifact = rt.artifact /\ s.pwasm = rt.pwasm
       /\ s.deferred = rt.deferred /\ s.lost = rt.lost /\ s.arts = rt.arts
       /\ s.live = rt.live /\ s.kept = rt.kept /\ s.trust = rt.trust /\ s.shifted = rt.shifted
       /\ DOMAIN s = RuntimeFields
  BY <1>10, ElseRParts
<1>13. /\ n.scope = v.scope /\ n.uri = v.uri /\ n.hist = v.hist /\ n.conn = v.conn
       /\ n.commit = v.commit /\ n.nhid = v.nhid /\ n.gen = v.gen /\ n.nreq = v.nreq
       /\ n.subs = v.subs /\ n.retry = v.retry /\ DOMAIN n = ModelFields
  BY <1>11, ElseParts
<1>14. n.pend = None /\ s.nav = None
  BY <1>9, <1>10, <1>11, <1>5 DEF Settled, Pending, named
<1>15. n.pos \in Nat
  <2>1. v.pend # None => v.pend.target \in Nat
    BY <1>2 DEF Sound, ModelType, Pendings
  <2> QED BY <1>2, <1>11, <2>1 DEF Sound, ModelType
<1>16. Cursor(n, s)
  <2>1. CASE page.uri = None /\ rt.nav = None /\ Settled(v, rt, {o.req})
    <3>1. n.pos = v.pos /\ what = rt.shown
      BY <2>1, <1>11 DEF Settled, what
    <3> QED BY <2>1, <3>1, <1>10, <1>12, <1>13 DEF Settled, Cursor
  <2>2. CASE /\ page.uri = v.uri
             /\ \/ v.pend = None /\ IsAt(v.hist, v.pos, v.scope, v.uri)
                \/ Pending(v, rt)
    <3>1. v.uri # None
      BY <1>2, NoneAssumption DEF Sound, ModelType
    <3>2. what.what = "page" /\ what.scope = o.scope /\ what.uri = v.uri
      BY <2>2, <3>1 DEF what
    <3>3. CASE v.pend = None /\ IsAt(v.hist, v.pos, v.scope, v.uri)
      BY <3>2, <3>3, <1>5, <1>10, <1>11, <1>13 DEF Cursor
    <3>4. CASE Pending(v, rt)
      BY <3>2, <3>4, <1>5, <1>10, <1>11, <1>12, <1>13 DEF Cursor, Pending
    <3> QED BY <2>2, <3>3, <3>4
  <2> QED BY <1>9, <2>1, <2>2
<1>17. Accounted(n, s, {})
  <2>1. Accounted(v, rt, {o.req})
    BY <1>9 DEF Settled
  <2> QED BY <2>1, <1>11, <1>12 DEF Accounted
<1>18. Settled(n, s, {}) /\ Drained(s)
  BY <1>5, <1>10, <1>11, <1>12, <1>14, <1>16, <1>17
     DEF Settled, Drained, NoPage, NoFrame
<1>19. Sound(n, s)
  <2>1. ModelType(n)
    BY <1>2, <1>11, <1>13, <1>14, <1>15 DEF Sound, ModelType
  <2>2. RuntimeType(s)
    BY <1>2, <1>12 DEF Sound, RuntimeType
  <2>3. n.phase # "ShuttingDown"
    BY <1>11
  <2>4. LiveShown(n, s) /\ \A k \in n.out : k < n.nreq
    BY <1>2, <1>11, <1>12, <1>13 DEF Sound, LiveShown
  <2>5. Numbered(n.hist, n.nhid)
    BY <1>2, <1>13 DEF Sound
  <2> QED BY <2>1, <2>2, <2>3, <2>4, <2>5 DEF Sound
<1>20. InvOf(n, s, Render \o t)
  BY <1>2, <1>12, <1>13, <1>18, <1>19, RestGood
<1> QED BY <1>8, <1>20 DEF Inv

\* The runtime with a frame staged.
WithLayout(r, x) == [r EXCEPT !.layout = x]

\* The runtime with a module staged.
WithWasm(r, x) == [r EXCEPT !.pwasm = x]

\* Neither touches anything else.
LEMMA OneSlot ==
    ASSUME NEW r, DOMAIN r = RuntimeFields, NEW x
    PROVE  /\ ElseR(r, WithLayout(r, x), {"layout"}) /\ WithLayout(r, x).layout = x
           /\ ElseR(r, WithWasm(r, x), {"pwasm"}) /\ WithWasm(r, x).pwasm = x
<1>1. DOMAIN WithLayout(r, x) = RuntimeFields /\ DOMAIN WithWasm(r, x) = RuntimeFields
  BY Zenon DEF WithLayout, WithWasm
<1>2. \A f \in RuntimeFields \ {"layout"} : WithLayout(r, x)[f] = r[f]
  BY Zenon DEF WithLayout
<1>3. \A f \in RuntimeFields \ {"pwasm"} : WithWasm(r, x)[f] = r[f]
  BY Zenon DEF WithWasm
<1>4. WithLayout(r, x).layout = x /\ WithWasm(r, x).pwasm = x
  BY SMT DEF RuntimeFields, WithLayout, WithWasm
<1> QED BY <1>1, <1>2, <1>3, <1>4 DEF ElseR

\* Forgetting a resize touches nothing else.
LEMMA ResizedFields ==
    ASSUME NEW m, DOMAIN m = ModelFields, NEW x
    PROVE  LET n == [m EXCEPT !.presize = x] IN Else(m, n, {"presize"}) /\ n.presize = x
<1> DEFINE n == [m EXCEPT !.presize = x]
<1>1. DOMAIN n = ModelFields
  BY Zenon
<1>2. \A f \in ModelFields \ {"presize"} : n[f] = m[f]
  BY Zenon
<1>3. n.presize = x
  BY SMT DEF ModelFields
<1> QED BY <1>1, <1>2, <1>3 DEF Else

\* A viewer at rest but for one request stays so when its answer stages
\* something.
LEMMA SoloGood ==
    ASSUME NEW m, NEW r, Sound(m, r), m.retry = None, NEW k, Settled(m, r, {k}),
           NEW n, Else(m, n, Work \ {"retry", "subs"}), n.out \subseteq m.out,
           n.conn \in Conns, n.nreq = m.nreq,
           NEW s, ElseR(r, s, WorkR), s.live \subseteq r.live /\ s.kept \subseteq r.kept,
           s.trust \in Pages \cup {None}, s.arts = Ids(m.hist)
    PROVE  Sound(n, s) /\ Settled(n, s, {k}) /\ s.arts = Ids(n.hist) /\ n.retry = None
           /\ \A o : Owns(m, o) /\ o.req \in n.out => Owns(n, o)
<1>1. Else(m, n, Work)
  BY DEF Else, Work
<1>2. Settled(n, s, {k})
  BY <1>1, SettledThen
<1>3. n.hist = m.hist /\ n.retry = None /\ n.scope = m.scope
  BY ElseParts DEF Work
<1>4. s.deferred = r.deferred
  BY ElseRParts DEF WorkR, RuntimeFields
<1>5. Sound(n, s)
  <2>1. Else(m, n, {"phase", "conn", "out", "psubs", "nreq", "recon", "pcommit",
                       "presize", "retry"})
    BY DEF Else, Work
  <2>2. ElseR(r, s, RuntimeFields \ {"lost", "shifted"})
    BY DEF ElseR, WorkR
  <2>3. n.phase # "ShuttingDown"
    BY <1>2 DEF Settled
  <2>4. n.nreq \in Nat /\ n.out \subseteq Nat /\ \A j \in n.out : j < n.nreq
    BY DEF Sound, ModelType
  <2>5. s.deferred # None => s.deferred.o \in Owners
    BY <1>4 DEF Sound, RuntimeType
  <2> QED BY <2>1, <2>2, <2>3, <2>4, <2>5, SoundThen
<1> QED BY <1>2, <1>3, <1>5 DEF Owns

\* Preparing a resize keeps the invariant: done, failed, or memory that
\* ran out.
LEMMA PrepareResizeKeeps == ASSUME Inv, ExecPrepareResizeProjection PROVE Inv'
<1> DEFINE a == Head(q)
           o == a.o
           t == Tail(q)
           x == [uri |-> None, cached |-> TRUE]
           s == WithLayout(rt, Slot(o, x))
           n == [v EXCEPT !.presize = None]
           b == Fx("ActivateLayout", o, None)
<1>1. q # <<>> /\ a.e = "PrepareResizeProjection"
  BY DEF ExecPrepareResizeProjection, Executing, Head1
<1>0. a.e \notin Trivial \cup Evicts \cup {"RetirePageWork", "RetireSubscriptions"}
  BY <1>1 DEF Trivial, Plain, Evicts
<1>2. /\ Sound(v, rt) /\ v.retry = None /\ t \in Seq(Effects) /\ a \in Effects
      /\ SoloOK(v, rt, a) /\ AllPlain(t) /\ rt.arts = Ids(v.hist)
      /\ DOMAIN v = ModelFields /\ DOMAIN rt = RuntimeFields
  BY <1>0, <1>1, AtKind, AtHead DEF Inv, Sound, ModelType, RuntimeType
<1>3. /\ Owns(v, o) /\ v.presize = o /\ Settled(v, rt, {o.req}) /\ Drained(rt)
      /\ rt.activated = None
  BY <1>1, <1>2 DEF SoloOK
<1>4. o \in Owners
  BY <1>1, <1>2, EffectParts DEF OwnedBare
<1>5. Rejected \/ Done(ResizeProjectionPrepared(v, o), s)
  BY <1>3 DEF ExecPrepareResizeProjection, o1, Head1, WithLayout
<1>6. CASE Rejected
  <2>1. LET c == PresentationFailed(v, Head(q)) IN InvOf(c.v, rt, c.fx \o Tail(q))
    BY <1>1, RejectedGood DEF Inv, Rejectable
  <2> QED BY <1>6, <2>1 DEF Rejected, Done, Head1, Inv
<1>7. CASE Done(ResizeProjectionPrepared(v, o), s)
  <2>1. ResizeProjectionPrepared(v, o) = Ret(n, <<b>>)
    BY <1>3 DEF ResizeProjectionPrepared
  <2> HIDE DEF a, o
  <2>2. Else(v, n, {"presize"}) /\ n.presize = None
    BY <1>2, ResizedFields
  <2>3. ElseR(rt, s, {"layout"}) /\ s.layout = Slot(o, x)
    BY <1>2, OneSlot
  <2>4. x \in Prepared /\ x.uri = None
    BY DEF Prepared
  <2>5. b \in Effects /\ b.e = "ActivateLayout" /\ b.o = o
    BY <1>4, EffectOf, FxParts DEF OwnedBare
  <2>6. v' = n /\ rt' = s /\ q' = <<b>> \o t
    BY <1>7, <2>1, RetParts DEF Done
  <2> HIDE DEF n, s, b, x
  <2>7. Holds(s.layout, o) /\ s.layout.x = x
    BY <1>4, <2>3, <2>4, SlotThere, SlotParts
  <2>8. n.out = v.out /\ n.conn = v.conn /\ n.nreq = v.nreq
    BY <2>2, ElseParts
  <2>9. /\ s.fetched = rt.fetched /\ s.parsed = rt.parsed /\ s.batch = rt.batch
        /\ s.nav = rt.nav /\ s.artifact = rt.artifact /\ s.pwasm = rt.pwasm
        /\ s.activated = rt.activated /\ s.arts = rt.arts
        /\ s.live = rt.live /\ s.kept = rt.kept /\ s.trust = rt.trust
    BY <2>3, ElseRParts
  <2>10. Sound(n, s) /\ Settled(n, s, {o.req}) /\ s.arts = Ids(n.hist) /\ n.retry = None
         /\ Owns(n, o)
    <3>1. Else(v, n, Work \ {"retry", "subs"}) /\ ElseR(rt, s, WorkR)
      BY <2>2, <2>3 DEF Else, ElseR, Work, WorkR, RuntimeFields
    <3>2. n.conn \in Conns /\ s.trust \in Pages \cup {None}
      BY <1>2, <2>8, <2>9 DEF Sound, ModelType, RuntimeType
    <3>3. o.req \in n.out
      BY <1>3, <2>8 DEF Owns
    <3>4. n.out \subseteq v.out /\ s.live \subseteq rt.live /\ s.kept \subseteq rt.kept
          /\ s.arts = Ids(v.hist)
      BY <1>2, <2>8, <2>9
    <3>5. Sound(n, s) /\ Settled(n, s, {o.req}) /\ s.arts = Ids(n.hist) /\ n.retry = None
          /\ \A c : Owns(v, c) /\ c.req \in n.out => Owns(n, c)
      BY <1>2, <1>3, <2>8, <3>1, <3>2, <3>4, SoloGood
    <3> QED BY <1>3, <3>3, <3>5
  <2>11. SoloOK(n, s, b) /\ InstalledBy(b) = {}
    BY <1>3, <2>4, <2>5, <2>7, <2>9, <2>10
       DEF SoloOK, InstalledBy, Drained, NoPage, NoFrame
  <2>12. InvOf(n, s, <<b>> \o t)
    BY <1>2, <2>5, <2>10, <2>11, OnGood DEF OneOK
  <2> QED BY <2>6, <2>12 DEF Inv
<1> QED BY <1>5, <1>6, <1>7

-----------------------------------------------------------------------------
(* Modules                                                                 *)

\* A module's timer keeps the invariant: its output is staged, it is
\* stale, or memory ran out.
LEMMA TickKeeps == ASSUME Inv, ExecTickWasm PROVE Inv'
<1> DEFINE a == Head(q)
           o == a.o
           t == Tail(q)
           s == WithWasm(rt, Slot(o, 0))
           b == Fx("ActivateWasm", o, None)
<1>1. q # <<>> /\ a.e = "TickWasm"
  BY DEF ExecTickWasm, Executing, Head1
<1>0. a.e \notin Trivial \cup Evicts \cup {"RetirePageWork", "RetireSubscriptions"}
  BY <1>1 DEF Trivial, Plain, Evicts
<1>2. /\ Sound(v, rt) /\ v.retry = None /\ t \in Seq(Effects) /\ a \in Effects
      /\ SoloOK(v, rt, a) /\ AllPlain(t) /\ rt.arts = Ids(v.hist)
      /\ DOMAIN v = ModelFields /\ DOMAIN rt = RuntimeFields
  BY <1>0, <1>1, AtKind, AtHead DEF Inv, Sound, ModelType, RuntimeType
<1>3. /\ Owns(v, o) /\ Settled(v, rt, {o.req}) /\ Drained(rt) /\ rt.pwasm = None
  BY <1>1, <1>2 DEF SoloOK, Drained
<1>4. o \in Owners
  BY <1>1, <1>2, EffectParts DEF OwnedBare
<1>5. Rejected \/ Done(WasmPrepared(v, o), s)
  BY <1>3 DEF ExecTickWasm, o1, Head1, WithWasm
<1>6. CASE Rejected
  <2>1. LET c == PresentationFailed(v, Head(q)) IN InvOf(c.v, rt, c.fx \o Tail(q))
    BY <1>1, RejectedGood DEF Inv, Rejectable
  <2> QED BY <1>6, <2>1 DEF Rejected, Done, Head1, Inv
<1>7. CASE Done(WasmPrepared(v, o), s)
  <2>1. WasmPrepared(v, o) = Ret(v, <<b>>)
    BY <1>3 DEF WasmPrepared
  <2> HIDE DEF a, o
  <2>2. ElseR(rt, s, {"pwasm"}) /\ s.pwasm = Slot(o, 0)
    BY <1>2, OneSlot
  <2>3. b \in Effects /\ b.e = "ActivateWasm" /\ b.o = o
    BY <1>4, EffectOf, FxParts DEF OwnedBare
  <2>4. v' = v /\ rt' = s /\ q' = <<b>> \o t
    BY <1>7, <2>1, RetParts DEF Done
  <2> HIDE DEF s, b
  <2>5. Holds(s.pwasm, o)
    BY <1>4, <2>2, SlotThere
  <2>6. /\ s.fetched = rt.fetched /\ s.parsed = rt.parsed /\ s.batch = rt.batch
        /\ s.nav = rt.nav /\ s.artifact = rt.artifact /\ s.layout = rt.layout
        /\ s.arts = rt.arts /\ s.live = rt.live /\ s.kept = rt.kept /\ s.trust = rt.trust
    BY <2>2, ElseRParts
  <2>7. Sound(v, s) /\ Settled(v, s, {o.req}) /\ s.arts = Ids(v.hist)
    <3>1. Else(v, v, Work \ {"retry", "subs"}) /\ ElseR(rt, s, WorkR)
      BY <1>2, <2>2, ElseSelf DEF ElseR, WorkR, RuntimeFields
    <3>2. v.conn \in Conns /\ s.trust \in Pages \cup {None}
      BY <1>2, <2>6 DEF Sound, ModelType, RuntimeType
    <3> QED BY <1>2, <1>3, <2>6, <3>1, <3>2, SoloGood
  <2>8. SoloOK(v, s, b) /\ InstalledBy(b) = {}
    BY <1>3, <2>3, <2>5, <2>6, <2>7 DEF SoloOK, InstalledBy, Drained, NoPage, NoFrame
  <2>9. InvOf(v, s, <<b>> \o t)
    BY <1>2, <2>3, <2>7, <2>8, OnGood DEF OneOK
  <2> QED BY <2>4, <2>9 DEF Inv
<1> QED BY <1>5, <1>6, <1>7

\* Activating a module keeps the invariant, before a layout or after a
\* timer.
LEMMA ActivateWasmKeeps == ASSUME Inv, ExecActivateWasm PROVE Inv'
<1> DEFINE a == Head(q)
           o == a.o
           t == Tail(q)
           s == WithWasm(rt, None)
           n == Drop(v, o)
<1>1. q # <<>> /\ a.e = "ActivateWasm"
  BY DEF ExecActivateWasm, Executing, Head1
<1>0. a.e \notin Trivial \cup Evicts \cup {"RetirePageWork", "RetireSubscriptions"}
  BY <1>1 DEF Trivial, Plain, Evicts
<1>2. /\ Sound(v, rt) /\ v.retry = None /\ t \in Seq(Effects) /\ a \in Effects
      /\ FrontPair(v, rt, q) \/ (SoloOK(v, rt, a) /\ AllPlain(t) /\ rt.arts = Ids(v.hist))
      /\ q \in Seq(Effects) /\ DOMAIN v = ModelFields /\ DOMAIN rt = RuntimeFields
      /\ v.conn \in Conns /\ rt.trust \in Pages \cup {None}
  BY <1>0, <1>1, AtKind, AtHead DEF Inv, Sound, ModelType, RuntimeType
<1>3. Owns(v, o) /\ Holds(rt.pwasm, o)
  BY <1>1, <1>2 DEF SoloOK, FrontPair, PairOK
<1>4. Done(Ret(n, Render), s)
  BY <1>3 DEF ExecActivateWasm, o1, Head1, WithWasm, WasmActivated
<1>5. v' = n /\ rt' = s /\ q' = Render \o t
  BY <1>4, RetParts DEF Done
<1> HIDE DEF o
<1>6. ElseR(rt, s, {"pwasm"}) /\ s.pwasm = None
  BY <1>2, OneSlot
<1>7. Else(v, n, {"out"}) /\ n.out = v.out \ {o.req}
  BY <1>2, DropFields
<1> HIDE DEF s, n
<1>8. /\ s.fetched = rt.fetched /\ s.parsed = rt.parsed /\ s.batch = rt.batch
      /\ s.nav = rt.nav /\ s.artifact = rt.artifact /\ s.layout = rt.layout
      /\ s.arts = rt.arts /\ s.live = rt.live /\ s.kept = rt.kept /\ s.trust = rt.trust
      /\ s.activated = rt.activated /\ s.deferred = rt.deferred /\ s.lost = rt.lost
      /\ s.shown = rt.shown /\ s.shifted = rt.shifted
  BY <1>6, ElseRParts
<1>9. /\ n.conn = v.conn /\ n.nreq = v.nreq /\ n.scope = v.scope /\ n.pend = v.pend
      /\ n.hist = v.hist /\ n.uri = v.uri /\ n.retry = v.retry /\ n.phase = v.phase
  BY <1>7, ElseParts
<1>10. CASE SoloOK(v, rt, a) /\ AllPlain(t) /\ rt.arts = Ids(v.hist)
  <2>1. Settled(v, rt, {o.req}) /\ NoPage(rt) /\ NoFrame(rt)
    BY <1>1, <1>10 DEF SoloOK, o
  <2>2. Drained(s)
    BY <1>6, <1>8, <2>1 DEF Drained, NoPage, NoFrame
  <2>3. Else(v, n, Work \ {"subs", "retry"}) /\ ElseR(rt, s, WorkR)
    BY <1>6, <1>7 DEF Else, ElseR, Work, WorkR, RuntimeFields
  <2>4. s.live \subseteq rt.live /\ s.kept \subseteq rt.kept
        /\ s.trust \in Pages \cup {None} /\ s.arts = Ids(v.hist)
        /\ n.conn \in Conns /\ n.out \subseteq v.out \ {o.req}
    BY <1>2, <1>7, <1>8, <1>9, <1>10
  <2>5. InvOf(n, s, Render \o t)
    BY <1>2, <1>9, <1>10, <2>1, <2>2, <2>3, <2>4, SettleGood
  <2> QED BY <1>5, <2>5 DEF Inv
<1>11. CASE FrontPair(v, rt, q)
  <2> DEFINE b == Head(t)
  <2>1. /\ b \in Effects /\ Tail(t) \in Seq(Effects) /\ t = <<b>> \o Tail(t)
        /\ AllPlain(Tail(t)) /\ rt.arts = Ids(v.hist) /\ PairOK(v, rt, a, b)
    BY <1>1, <1>2, <1>11, SecondOf
  <2> HIDE DEF b
  <2>2. /\ b.e = "PrepareLayout" /\ Owns(v, b.o) /\ o.req # b.o.req
        /\ Accounted(v, rt, {o.req, b.o.req}) /\ LayoutReady(v, rt, b.o)
        /\ rt.activated = None
    BY <1>1, <2>1 DEF PairOK, o
  <2>3. Sound(n, s)
    <3>1. Else(v, n, {"phase", "conn", "out", "psubs", "nreq", "recon", "pcommit",
                       "presize", "retry"})
      BY <1>7 DEF Else
    <3>2. ElseR(rt, s, RuntimeFields \ {"lost", "shifted"})
      BY <1>6 DEF ElseR, RuntimeFields
    <3>3. n.phase # "ShuttingDown" /\ n.conn \in Conns /\ n.nreq \in Nat
          /\ n.out \subseteq Nat /\ \A k \in n.out : k < n.nreq
      BY <1>2, <1>7, <1>9 DEF Sound, ModelType
    <3>4. s.live \subseteq rt.live /\ s.kept \subseteq rt.kept /\ s.trust \in Pages \cup {None}
          /\ (s.deferred # None => s.deferred.o \in Owners)
      BY <1>2, <1>8 DEF Sound, RuntimeType
    <3> QED BY <1>2, <3>1, <3>2, <3>3, <3>4, SoundThen
  <2>4. NavOK(n, s, b) /\ InstalledBy(b) = {}
    <3>1. Owns(n, b.o) /\ Accounted(n, s, {b.o.req})
      BY <1>7, <1>8, <1>9, <2>2 DEF Owns, Accounted
    <3>2. Pending(v, rt) => Pending(n, s)
      <4>1. n.pos = v.pos
        BY <1>7, ElseParts
      <4> QED BY <4>1, <1>8, <1>9 DEF Pending, Original
    <3>3. LayoutReady(n, s, b.o)
      BY <1>8, <1>9, <2>2, <3>2 DEF LayoutReady, NoFrame
    <3> QED BY <1>6, <1>8, <2>2, <3>1, <3>3 DEF NavOK, NavSteps, InstalledBy
  <2>5. InvOf(n, s, Render \o t)
    <3>1. Good(n, s, <<b>> \o Tail(t))
      BY <1>8, <1>9, <2>1, <2>3, <2>4, Again DEF OneOK
    <3> DEFINE d == Fx("RenderTerminal", None, None)
    <3>2. d \in Effects /\ d.e \in Plain
      BY EffectOf, FxParts DEF Bare, Plain
    <3> HIDE DEF d
    <3>3. Good(n, s, t)
      BY <2>1, <3>1
    <3>4. Good(n, s, <<d>> \o t)
      BY <3>2, <3>3, PlainBefore
    <3>5. Good(n, s, Render \o t)
      BY <3>4 DEF Render, d
    <3> QED BY <1>2, <1>9, <3>5 DEF InvOf, AsIs, Good
  <2> QED BY <1>5, <2>5 DEF Inv
<1> QED BY <1>2, <1>10, <1>11

\* Loading a module keeps the invariant, found or not.
LEMMA LoadKeeps == ASSUME Inv, ExecLoadWasm PROVE Inv'
<1> DEFINE a == Head(q)
           o == a.o
           t == Tail(q)
           b == Head(t)
           s == WithWasm(rt, Slot(o, a.x))
           n == Drop(v, o)
           c == Fx("ActivateWasm", o, None)
<1>1. q # <<>> /\ a.e = "LoadWasm"
  BY DEF ExecLoadWasm, Executing, Head1
<1>0. a.e \notin Trivial \cup Evicts \cup {"RetirePageWork", "RetireSubscriptions"}
  BY <1>1 DEF Trivial, Plain, Evicts
<1>2. /\ Sound(v, rt) /\ v.retry = None /\ t \in Seq(Effects) /\ a \in Effects
      /\ FrontPair(v, rt, q)
      /\ q \in Seq(Effects) /\ DOMAIN v = ModelFields /\ DOMAIN rt = RuntimeFields
      /\ v.conn \in Conns /\ rt.trust \in Pages \cup {None}
  BY <1>0, <1>1, AtKind, AtHead DEF Inv, Sound, ModelType, RuntimeType
<1>3. o \in Owners /\ a.x \in Nat
  BY <1>1, <1>2, EffectParts
<1>4. /\ b \in Effects /\ Tail(t) \in Seq(Effects) /\ t = <<b>> \o Tail(t)
      /\ AllPlain(Tail(t)) /\ rt.arts = Ids(v.hist) /\ PairOK(v, rt, a, b)
  BY <1>1, <1>2, SecondOf
<1>5. /\ b.e = "PrepareLayout" /\ Owns(v, b.o) /\ o.req # b.o.req
      /\ Accounted(v, rt, {o.req, b.o.req}) /\ LayoutReady(v, rt, b.o)
      /\ rt.activated = None /\ rt.pwasm = None /\ Owns(v, o)
  BY <1>1, <1>4 DEF PairOK
<1>6. Done(Ret(v, <<c>>), s) \/ Done(Ret(n, Render), rt)
  BY <1>5 DEF ExecLoadWasm, o1, Head1, WithWasm, WasmPrepared, WasmRejected
<1>7. (v' = v /\ rt' = s /\ q' = <<c>> \o t) \/ (v' = n /\ rt' = rt /\ q' = Render \o t)
  BY <1>6, RetParts DEF Done
<1> HIDE DEF a, o, b
<1>8. ElseR(rt, s, {"pwasm"}) /\ s.pwasm = Slot(o, a.x)
  BY <1>2, OneSlot
<1>9. Else(v, n, {"out"}) /\ n.out = v.out \ {o.req}
  BY <1>2, DropFields
<1>10. c \in Effects /\ c.e = "ActivateWasm" /\ c.o = o
  BY <1>3, EffectOf, FxParts DEF OwnedBare
<1>11. Holds(Slot(o, a.x), o)
  BY <1>3, SlotThere
<1> HIDE DEF s, n, c
<1>12. CASE v' = v /\ rt' = s /\ q' = <<c>> \o t
  <2>1. /\ s.fetched = rt.fetched /\ s.parsed = rt.parsed /\ s.batch = rt.batch
        /\ s.nav = rt.nav /\ s.artifact = rt.artifact /\ s.layout = rt.layout
        /\ s.arts = rt.arts /\ s.live = rt.live /\ s.kept = rt.kept /\ s.trust = rt.trust
        /\ s.activated = rt.activated /\ s.deferred = rt.deferred /\ s.lost = rt.lost
        /\ s.shown = rt.shown /\ s.shifted = rt.shifted /\ DOMAIN s = RuntimeFields
    BY <1>8, ElseRParts
  <2>2. Sound(v, s)
    BY <1>2, <2>1 DEF Sound, RuntimeType, LiveShown
  <2>3. Accounted(v, s, {c.o.req, b.o.req})
    BY <1>5, <1>10, <2>1 DEF Accounted
  <2>4. Pending(v, rt) => Pending(v, s)
    BY <2>1 DEF Pending
  <2>5. LayoutReady(v, s, b.o)
    BY <1>5, <2>1, <2>4 DEF LayoutReady, NoFrame
  <2>6. PairOK(v, s, c, b)
    BY <1>5, <1>8, <1>10, <1>11, <2>1, <2>3, <2>5 DEF PairOK
  <2>7. InvOf(v, s, <<c, b>> \o Tail(t))
    BY <1>2, <1>4, <1>10, <2>1, <2>2, <2>6, PairGood
  <2>8. <<c>> \o t = <<c, b>> \o Tail(t)
    <3>1. <<c>> \in Seq(Effects) /\ <<b>> \in Seq(Effects)
      BY <1>4, <1>10
    <3>2. (<<c>> \o <<b>>) \o Tail(t) = <<c>> \o (<<b>> \o Tail(t))
      <4> DEFINE x == <<c>>
                 y == <<b>>
                 z == Tail(t)
      <4>1. x \in Seq(Effects) /\ y \in Seq(Effects) /\ z \in Seq(Effects)
        BY <1>4, <3>1
      <4> HIDE DEF x, y, z
      <4>2. (x \o y) \o z = x \o (y \o z)
        BY <4>1, Assoc
      <4> QED BY <4>2 DEF x, y, z
    <3> QED BY <1>4, <1>10, <3>2, Two
  <2> QED BY <1>12, <2>7, <2>8 DEF Inv
<1>13. CASE v' = n /\ rt' = rt /\ q' = Render \o t
  <2>1. /\ n.conn = v.conn /\ n.nreq = v.nreq /\ n.scope = v.scope /\ n.pend = v.pend
        /\ n.hist = v.hist /\ n.uri = v.uri /\ n.retry = v.retry /\ n.phase = v.phase
        /\ n.pos = v.pos
    BY <1>9, ElseParts
  <2>2. Sound(n, rt)
    <3>1. Else(v, n, {"phase", "conn", "out", "psubs", "nreq", "recon", "pcommit",
                       "presize", "retry"})
      BY <1>9 DEF Else
    <3>2. ElseR(rt, rt, RuntimeFields \ {"lost", "shifted"})
      BY <1>2, ElseSelf
    <3>3. n.phase # "ShuttingDown" /\ n.conn \in Conns /\ n.nreq \in Nat
          /\ n.out \subseteq Nat /\ \A k \in n.out : k < n.nreq
      BY <1>2, <1>9, <2>1 DEF Sound, ModelType
    <3>4. rt.live \subseteq rt.live /\ rt.kept \subseteq rt.kept /\ (rt.deferred # None => rt.deferred.o \in Owners)
      BY <1>2 DEF Sound, RuntimeType
    <3> QED BY <1>2, <3>1, <3>2, <3>3, <3>4, SoundThen
  <2>3. NavOK(n, rt, b) /\ InstalledBy(b) = {}
    <3>1. Owns(n, b.o) /\ Accounted(n, rt, {b.o.req})
      BY <1>5, <1>9, <2>1 DEF Owns, Accounted
    <3>2. Pending(v, rt) => Pending(n, rt)
      BY <2>1 DEF Pending, Original
    <3>3. LayoutReady(n, rt, b.o)
      BY <1>5, <2>1, <3>2 DEF LayoutReady
    <3> QED BY <1>5, <3>1, <3>3 DEF NavOK, NavSteps, InstalledBy
  <2>4. Good(n, rt, <<b>> \o Tail(t))
    BY <1>4, <2>1, <2>2, <2>3, Again DEF OneOK
  <2> DEFINE d == Fx("RenderTerminal", None, None)
  <2>5. d \in Effects /\ d.e \in Plain
    BY EffectOf, FxParts DEF Bare, Plain
  <2> HIDE DEF d
  <2>6. Good(n, rt, t)
    BY <1>4, <2>4
  <2>7. Good(n, rt, <<d>> \o t)
    BY <2>5, <2>6, PlainBefore
  <2>8. Good(n, rt, Render \o t)
    BY <2>7 DEF Render, d
  <2>9. InvOf(n, rt, Render \o t)
    BY <1>2, <2>1, <2>8 DEF InvOf, AsIs, Good
  <2> QED BY <1>13, <2>9 DEF Inv
<1> QED BY <1>7, <1>12, <1>13

-----------------------------------------------------------------------------
(* Subscriptions and links that wait for an animation                      *)

\* The model once a subscription is confirmed.
Subscribed(m, o, x) == Drop([m EXCEPT !.psubs = @ \ {<<o.req, x>>},
                                      !.subs = @ \cup {<<o.req, x>>}], o)

\* The model once a subscription is refused.
Unsubscribed(m, o) == Drop([m EXCEPT !.psubs = {s \in @ : s[1] # o.req}], o)

\* A confirmed subscription, field by field.
LEMMA SubscribedFields ==
    ASSUME NEW m, DOMAIN m = ModelFields, NEW o, NEW x
    PROVE  LET n == Subscribed(m, o, x) IN
           /\ Else(m, n, {"psubs", "subs", "out"}) /\ n.out = m.out \ {o.req}
           /\ n.subs = m.subs \cup {<<o.req, x>>}
<1> DEFINE y == <<o.req, x>>
           p == [m EXCEPT !.psubs = @ \ {y}, !.subs = @ \cup {y}]
<1>0. Subscribed(m, o, x) = Drop(p, o)
  BY DEF Subscribed
<1> HIDE DEF y
<1>1. DOMAIN p = ModelFields
  BY Zenon
<1>2. \A f \in ModelFields \ {"psubs", "subs"} : p[f] = m[f]
  BY Zenon
<1>3. p.subs = m.subs \cup {y}
  BY SMT DEF ModelFields
<1> HIDE DEF p
<1>4. p.out = m.out
  BY <1>2 DEF ModelFields
<1>5. Else(p, Drop(p, o), {"out"}) /\ Drop(p, o).out = p.out \ {o.req}
  BY <1>1, DropFields
<1>6. Drop(p, o).subs = p.subs
  BY <1>5, ElseParts
<1>7. Else(m, Drop(p, o), {"psubs", "subs", "out"})
  BY <1>1, <1>2, <1>5 DEF Else
<1> QED BY <1>0, <1>3, <1>4, <1>5, <1>6, <1>7 DEF y

\* A refused subscription, field by field.
LEMMA UnsubscribedFields ==
    ASSUME NEW m, DOMAIN m = ModelFields, NEW o
    PROVE  LET n == Unsubscribed(m, o) IN
           Else(m, n, {"psubs", "out"}) /\ n.out = m.out \ {o.req}
<1> DEFINE z == {s \in m.psubs : s[1] # o.req}
           p == [m EXCEPT !.psubs = z]
<1>0. Unsubscribed(m, o) = Drop(p, o)
  BY DEF Unsubscribed
<1> HIDE DEF z
<1>1. DOMAIN p = ModelFields
  BY Zenon
<1>2. \A f \in ModelFields \ {"psubs"} : p[f] = m[f]
  BY Zenon
<1> HIDE DEF p
<1>4. p.out = m.out
  BY <1>2 DEF ModelFields
<1>5. Else(p, Drop(p, o), {"out"}) /\ Drop(p, o).out = p.out \ {o.req}
  BY <1>1, DropFields
<1>7. Else(m, Drop(p, o), {"psubs", "out"})
  BY <1>1, <1>2, <1>5 DEF Else
<1> QED BY <1>0, <1>4, <1>5, <1>7

\* The runtime that applies updates for one more region.
WithLive(r, x) == [r EXCEPT !.live = @ \cup {x}]

\* It touches nothing else.
LEMMA LiveFields ==
    ASSUME NEW r, DOMAIN r = RuntimeFields, NEW x
    PROVE  ElseR(r, WithLive(r, x), {"live"}) /\ WithLive(r, x).live = r.live \cup {x}
<1>1. DOMAIN WithLive(r, x) = RuntimeFields
  BY Zenon DEF WithLive
<1>2. \A f \in RuntimeFields \ {"live"} : WithLive(r, x)[f] = r[f]
  BY Zenon DEF WithLive
<1>3. WithLive(r, x).live = r.live \cup {x}
  BY SMT DEF RuntimeFields, WithLive
<1> QED BY <1>1, <1>2, <1>3 DEF ElseR

\* Subscribing keeps the invariant: what is live is a confirmed
\* subscription of the current scope.
LEMMA SubscribeKeeps == ASSUME Inv, ExecSubscribe PROVE Inv'
<1> DEFINE a == Head(q)
           o == a.o
           t == Tail(q)
           x == a.x
           s == WithLive(rt, <<o, x>>)
<1>1. q # <<>> /\ a.e = "Subscribe"
  BY DEF ExecSubscribe, Executing, Head1
<1>0. a.e \notin Trivial \cup Evicts \cup {"RetirePageWork", "RetireSubscriptions"}
  BY <1>1 DEF Trivial, Plain, Evicts
<1>2. /\ Sound(v, rt) /\ v.retry = None /\ t \in Seq(Effects) /\ a \in Effects
      /\ SoloOK(v, rt, a) /\ AllPlain(t) /\ rt.arts = Ids(v.hist)
      /\ DOMAIN v = ModelFields /\ DOMAIN rt = RuntimeFields
      /\ v.conn \in Conns /\ ModelType(v) /\ RuntimeType(rt)
  BY <1>0, <1>1, AtKind, AtHead DEF Inv, Sound, ModelType, RuntimeType
<1>3. /\ Owns(v, o) /\ Settled(v, rt, {o.req}) /\ Drained(rt) /\ <<o.req, x>> \in v.psubs
      /\ v.scope = o.scope
  BY <1>1, <1>2 DEF SoloOK, Owns
<1>4. o \in Owners /\ x \in Regions
  BY <1>1, <1>2, EffectParts
<1>5. \/ Done(Ret(Subscribed(v, o, x), <<>>), s)
      \/ Done(Ret(Unsubscribed(v, o), <<>>), rt)
  BY <1>3 DEF ExecSubscribe, o1, Head1, WithLive, SubscriptionCompleted,
              SubscriptionFailed, Subscribed, Unsubscribed
<1> HIDE DEF a, o, x
<1>6. CASE Done(Ret(Unsubscribed(v, o), <<>>), rt)
  <2> DEFINE n == Unsubscribed(v, o)
  <2>1. Else(v, n, {"psubs", "out"}) /\ n.out = v.out \ {o.req}
    BY <1>2, UnsubscribedFields
  <2>2. v' = n /\ rt' = rt /\ q' = <<>> \o t
    BY <1>6, RetParts DEF Done
  <2> HIDE DEF n
  <2>3. Else(v, n, Work \ {"subs", "retry"}) /\ n.conn \in Conns /\ n.nreq = v.nreq
        /\ n.out \subseteq v.out \ {o.req}
    BY <1>2, <2>1, ElseParts DEF Else, Work
  <2>4. InvOf(n, rt, <<>> \o t)
    BY <1>2, <1>3, <2>3, DropGood
  <2> QED BY <2>2, <2>4 DEF Inv
<1>7. CASE Done(Ret(Subscribed(v, o, x), <<>>), s)
  <2> DEFINE n == Subscribed(v, o, x)
  <2>1. /\ Else(v, n, {"psubs", "subs", "out"}) /\ n.out = v.out \ {o.req}
        /\ n.subs = v.subs \cup {<<o.req, x>>}
    BY <1>2, SubscribedFields
  <2>2. v' = n /\ rt' = s /\ q' = <<>> \o t
    BY <1>7, RetParts DEF Done
  <2> DEFINE y == <<o, x>>
  <2>3. y \in Owners \X Regions /\ y[1] = o /\ y[2] = x
    BY <1>4
  <2> HIDE DEF n, y
  <2>4. ElseR(rt, s, {"live"}) /\ s.live = rt.live \cup {y}
    BY <1>2, LiveFields DEF y
  <2> HIDE DEF s
  <2>5. Else(v, n, Work) /\ ElseR(rt, s, WorkR)
    BY <2>1, <2>4 DEF Else, ElseR, Work, WorkR, RuntimeFields
  <2>6. Settled(n, s, {})
    BY <1>3, <2>1, <2>5, SettledThen
  <2>7. /\ s.fetched = rt.fetched /\ s.parsed = rt.parsed /\ s.batch = rt.batch
        /\ s.nav = rt.nav /\ s.artifact = rt.artifact /\ s.layout = rt.layout
        /\ s.arts = rt.arts /\ s.trust = rt.trust /\ s.pwasm = rt.pwasm
        /\ s.deferred = rt.deferred /\ s.shifted = rt.shifted /\ s.kept = rt.kept
        /\ DOMAIN s = RuntimeFields
    BY <2>4, ElseRParts
  <2>8. /\ n.conn = v.conn /\ n.nreq = v.nreq /\ n.scope = v.scope /\ n.pend = v.pend
        /\ n.hist = v.hist /\ n.uri = v.uri /\ n.retry = v.retry /\ n.phase = v.phase
        /\ n.pos = v.pos /\ n.commit = v.commit /\ n.nhid = v.nhid /\ n.gen = v.gen
        /\ DOMAIN n = ModelFields
    BY <2>1, ElseParts
  <2>9. Sound(n, s)
    <3>1. ModelType(n)
      BY <1>2, <2>1, <2>8 DEF ModelType
    <3>2. RuntimeType(s)
      BY <1>2, <2>3, <2>4, <2>7 DEF RuntimeType
    <3>3. LiveShown(n, s)
      BY <1>2, <1>3, <2>1, <2>3, <2>4, <2>8 DEF Sound, LiveShown
    <3>4. (\A k \in n.out : k < n.nreq) /\ n.phase # "ShuttingDown"
          /\ Numbered(n.hist, n.nhid)
      BY <1>2, <2>1, <2>8 DEF Sound
    <3> QED BY <3>1, <3>2, <3>3, <3>4 DEF Sound
  <2>10. Drained(s) /\ s.arts = Ids(n.hist)
    BY <1>2, <1>3, <2>7, <2>8 DEF Drained, NoPage, NoFrame
  <2>11. InvOf(n, s, <<>> \o t)
    BY <1>2, <2>6, <2>8, <2>9, <2>10, RestGood
  <2> QED BY <2>2, <2>11 DEF Inv
<1> QED BY <1>5, <1>6, <1>7

\* The runtime with the generation of a link written down or forgotten.
Proposed(r, p) == [r EXCEPT !.proposal = p]

\* The runtime with a link that waits for its animation.
Waiting(r, p, x) == [Proposed(r, p) EXCEPT !.deferred = x]

\* Neither touches anything else.
LEMMA ProposedFields ==
    ASSUME NEW r, DOMAIN r = RuntimeFields, NEW p, NEW x
    PROVE  /\ ElseR(r, Proposed(r, p), {"proposal"})
           /\ ElseR(r, Waiting(r, p, x), {"proposal", "deferred"})
           /\ Waiting(r, p, x).deferred = x
<1> DEFINE g == Proposed(r, p)
           n == [g EXCEPT !.deferred = x]
<1>0. Waiting(r, p, x) = n
  BY DEF Waiting
<1>1. DOMAIN g = RuntimeFields
  BY Zenon DEF Proposed
<1>2. \A f \in RuntimeFields \ {"proposal"} : g[f] = r[f]
  BY Zenon DEF Proposed
<1> HIDE DEF g
<1>3. DOMAIN n = RuntimeFields
  BY <1>1, Zenon
<1>4. \A f \in RuntimeFields \ {"deferred"} : n[f] = g[f]
  BY <1>1, Zenon
<1>5. n.deferred = x
  BY <1>1, SMT DEF RuntimeFields
<1> HIDE DEF n
<1> QED BY <1>0, <1>1, <1>2, <1>3, <1>4, <1>5 DEF ElseR, g

\* Letting a link wait keeps the invariant: its request stays outstanding
\* and is held.
LEMMA DeferKeeps == ASSUME Inv, ExecDeferNavigation PROVE Inv'
<1> DEFINE a == Head(q)
           o == a.o
           t == Tail(q)
           p == IF rt.proposal = o.scope.gen THEN None ELSE rt.proposal
           w == Slot(o, "waiting")
           r1 == Proposed(rt, p)
           s == Waiting(rt, p, w)
           n == Drop(v, o)
<1>1. q # <<>> /\ a.e = "DeferNavigation"
  BY DEF ExecDeferNavigation, Executing, Head1
<1>0. a.e \notin Trivial \cup Evicts \cup {"RetirePageWork", "RetireSubscriptions"}
  BY <1>1 DEF Trivial, Plain, Evicts
<1>2. /\ Sound(v, rt) /\ v.retry = None /\ t \in Seq(Effects) /\ a \in Effects
      /\ SoloOK(v, rt, a) /\ AllPlain(t) /\ rt.arts = Ids(v.hist)
      /\ DOMAIN v = ModelFields /\ DOMAIN rt = RuntimeFields
      /\ v.conn \in Conns /\ rt.trust \in Pages \cup {None} /\ RuntimeType(rt)
  BY <1>0, <1>1, AtKind, AtHead DEF Inv, Sound, ModelType, RuntimeType
<1>3. /\ Owns(v, o) /\ Settled(v, rt, {o.req}) /\ Drained(rt) /\ v.scope = o.scope
      /\ rt.proposal = o.scope.gen /\ rt.deferred = None
  BY <1>1, <1>2 DEF SoloOK, Owns
<1>4. o \in Owners
  BY <1>1, <1>2, EffectParts DEF OwnedBare
<1>5. Done(Ret(v, <<>>), s) \/ Done(Ret(n, <<>>), r1)
  BY <1>3 DEF ExecDeferNavigation, o1, Head1, Proposed, Waiting, DeferredNavigationRejected
<1> HIDE DEF a, o, p
<1>6. w # None /\ w.o = o
  BY <1>4, SlotThere, SlotParts
<1> HIDE DEF w
<1>7. /\ ElseR(rt, r1, {"proposal"}) /\ ElseR(rt, s, {"proposal", "deferred"})
      /\ s.deferred = w
  BY <1>2, ProposedFields
<1> HIDE DEF r1, s
<1>8. CASE Done(Ret(n, <<>>), r1)
  <2>1. Else(v, n, {"out"}) /\ n.out = v.out \ {o.req}
    BY <1>2, DropFields
  <2>2. v' = n /\ rt' = r1 /\ q' = <<>> \o t
    BY <1>8, RetParts DEF Done
  <2> HIDE DEF n
  <2>3. n.conn = v.conn /\ n.nreq = v.nreq
    BY <2>1, ElseParts
  <2>4. /\ r1.fetched = rt.fetched /\ r1.parsed = rt.parsed /\ r1.batch = rt.batch
        /\ r1.nav = rt.nav /\ r1.artifact = rt.artifact /\ r1.layout = rt.layout
        /\ r1.pwasm = rt.pwasm /\ r1.arts = rt.arts /\ r1.live = rt.live /\ r1.kept = rt.kept
        /\ r1.trust = rt.trust
    BY <1>7, ElseRParts
  <2>5. Else(v, n, Work \ {"subs", "retry"}) /\ ElseR(rt, r1, WorkR)
    BY <1>7, <2>1 DEF Else, ElseR, Work, WorkR, RuntimeFields
  <2>6. /\ r1.live \subseteq rt.live /\ r1.kept \subseteq rt.kept /\ r1.trust \in Pages \cup {None}
        /\ r1.arts = Ids(v.hist) /\ n.conn \in Conns /\ n.out \subseteq v.out \ {o.req}
        /\ Drained(r1)
    BY <1>2, <1>3, <2>1, <2>3, <2>4 DEF Drained, NoPage, NoFrame
  <2>7. InvOf(n, r1, <<>> \o t)
    BY <1>2, <1>3, <2>3, <2>5, <2>6, SettleGood
  <2> QED BY <2>2, <2>7 DEF Inv
<1>9. CASE Done(Ret(v, <<>>), s)
  <2>1. v' = v /\ rt' = s /\ q' = <<>> \o t
    BY <1>9, RetParts DEF Done
  <2>2. /\ s.fetched = rt.fetched /\ s.parsed = rt.parsed /\ s.batch = rt.batch
        /\ s.nav = rt.nav /\ s.artifact = rt.artifact /\ s.layout = rt.layout
        /\ s.pwasm = rt.pwasm /\ s.arts = rt.arts /\ s.live = rt.live /\ s.kept = rt.kept
        /\ s.trust = rt.trust /\ s.lost = rt.lost /\ s.shown = rt.shown
        /\ s.shifted = rt.shifted /\ DOMAIN s = RuntimeFields
    BY <1>7, ElseRParts
  <2>3. Sound(v, s)
    BY <1>2, <1>4, <1>6, <1>7, <2>2 DEF Sound, RuntimeType, LiveShown
  <2>4. Settled(v, s, {})
    BY <1>3, <1>6, <1>7, <2>2 DEF Settled, Cursor, Accounted
  <2>5. Drained(s) /\ s.arts = Ids(v.hist)
    BY <1>2, <1>3, <2>2 DEF Drained, NoPage, NoFrame
  <2>6. InvOf(v, s, <<>> \o t)
    BY <1>2, <2>3, <2>4, <2>5, RestGood
  <2> QED BY <2>1, <2>6 DEF Inv
<1> QED BY <1>5, <1>8, <1>9

\* The runtime once a link that waited goes on.
Resuming(r, x) == [r EXCEPT !.deferred = None, !.resumed = x]

\* It touches nothing else.
LEMMA ResumingFields ==
    ASSUME NEW r, DOMAIN r = RuntimeFields, NEW x
    PROVE  ElseR(r, Resuming(r, x), {"deferred", "resumed"})
           /\ Resuming(r, x).deferred = None
<1>1. DOMAIN Resuming(r, x) = RuntimeFields
  BY Zenon DEF Resuming
<1>2. \A f \in RuntimeFields \ {"deferred", "resumed"} : Resuming(r, x)[f] = r[f]
  BY Zenon DEF Resuming
<1>3. Resuming(r, x).deferred = None
  BY SMT DEF RuntimeFields, Resuming
<1> QED BY <1>1, <1>2, <1>3 DEF ElseR

\* A link that goes on keeps the invariant.
LEMMA ResumeKeeps == ASSUME Inv, ExecResumeNavigation PROVE Inv'
<1> DEFINE a == Head(q)
           o == a.o
           t == Tail(q)
           s == Resuming(rt, Slot(o, 0))
<1>1. q # <<>> /\ a.e = "ResumeNavigation"
  BY DEF ExecResumeNavigation, Executing, Head1
<1>0. a.e \notin Trivial \cup Evicts \cup {"RetirePageWork", "RetireSubscriptions"}
  BY <1>1 DEF Trivial, Plain, Evicts
<1>2. /\ Sound(v, rt) /\ v.retry = None /\ t \in Seq(Effects) /\ a \in Effects
      /\ SoloOK(v, rt, a) /\ AllPlain(t) /\ rt.arts = Ids(v.hist)
      /\ DOMAIN v = ModelFields /\ DOMAIN rt = RuntimeFields /\ RuntimeType(rt)
  BY <1>0, <1>1, AtKind, AtHead DEF Inv, Sound, ModelType, RuntimeType
<1>3. o.req \notin v.out /\ rt.resumed = None /\ Settled(v, rt, {}) /\ Drained(rt)
  BY <1>1, <1>2 DEF SoloOK
<1>4. Ignore \/ (Holds(rt.deferred, o) /\ Done(Ret(v, <<>>), s))
  BY <1>3 DEF ExecResumeNavigation, o1, Head1, Resuming
<1>5. CASE Ignore
  <2>1. InvOf(v, rt, <<>> \o t)
    BY <1>2, <1>3, RestGood
  <2> QED BY <1>5, <2>1, RetParts DEF Ignore, Done, Inv
<1>6. CASE Holds(rt.deferred, o) /\ Done(Ret(v, <<>>), s)
  <2>1. v' = v /\ rt' = s /\ q' = <<>> \o t
    BY <1>6, RetParts DEF Done
  <2>2. rt.deferred.o.req = o.req
    BY <1>6 DEF Holds
  <2> HIDE DEF a, o
  <2>3. ElseR(rt, s, {"deferred", "resumed"}) /\ s.deferred = None
    BY <1>2, ResumingFields
  <2> HIDE DEF s
  <2>4. /\ s.fetched = rt.fetched /\ s.parsed = rt.parsed /\ s.batch = rt.batch
        /\ s.nav = rt.nav /\ s.artifact = rt.artifact /\ s.layout = rt.layout
        /\ s.pwasm = rt.pwasm /\ s.arts = rt.arts /\ s.live = rt.live /\ s.kept = rt.kept
        /\ s.trust = rt.trust /\ s.lost = rt.lost /\ s.shown = rt.shown
        /\ s.shifted = rt.shifted /\ DOMAIN s = RuntimeFields
    BY <2>3, ElseRParts
  <2>5. Sound(v, s)
    BY <1>2, <2>3, <2>4 DEF Sound, RuntimeType, LiveShown
  <2>6. Settled(v, s, {})
    BY <1>3, <2>2, <2>4 DEF Settled, Cursor, Accounted
  <2>7. Drained(s) /\ s.arts = Ids(v.hist)
    BY <1>2, <1>3, <2>4 DEF Drained, NoPage, NoFrame
  <2>8. InvOf(v, s, <<>> \o t)
    BY <1>2, <2>5, <2>6, <2>7, RestGood
  <2> QED BY <2>1, <2>8 DEF Inv
<1> QED BY <1>4, <1>5, <1>6

-----------------------------------------------------------------------------
(* History                                                                 *)

\* A stretch of a history is numbered and names no other artifact.
LEMMA Stretch ==
    ASSUME NEW h \in Seq(Entries), NEW g \in Seq(Entries), NEW d \in Nat, NEW n,
           Numbered(h, n), \A j \in DOMAIN g : j + d \in DOMAIN h /\ g[j] = h[j + d]
    PROVE  Numbered(g, n) /\ Ids(g) \subseteq Ids(h)
<1>1. DOMAIN g = 1 .. Len(g) /\ Len(g) \in Nat
  OBVIOUS
<1>2. ASSUME NEW j \in DOMAIN g, NEW k \in DOMAIN g, g[j].id = g[k].id PROVE j = k
  <2>1. h[j + d].id = h[k + d].id
    BY <1>2
  <2>2. j + d = k + d
    BY <2>1 DEF Numbered
  <2> QED BY <2>2, <1>1
<1>3. \A j \in DOMAIN g : g[j].id < n
  BY DEF Numbered
<1> QED BY <1>2, <1>3 DEF Numbered, Ids

\* The history before a page is appended: what was ahead of the cursor is
\* gone, and the oldest when it is full.
Room(h, pos) ==
    LET kept == SubSeq(h, 1, IF pos <= Len(h) THEN pos ELSE Len(h))
    IN IF Len(kept) = MaxHistoryEntries THEN Tail(kept) ELSE kept

\* What is left is numbered.
LEMMA RoomKeeps ==
    ASSUME NEW h \in Seq(Entries), NEW pos \in Nat, NEW n, Numbered(h, n)
    PROVE  /\ Room(h, pos) \in Seq(Entries) /\ Numbered(Room(h, pos), n)
           /\ Ids(Room(h, pos)) \subseteq Ids(h)
<1> DEFINE k == IF pos <= Len(h) THEN pos ELSE Len(h)
           g == SubSeq(h, 1, k)
<1>1. k \in 0 .. Len(h) /\ Len(h) \in Nat /\ DOMAIN h = 1 .. Len(h)
  OBVIOUS
<1> HIDE DEF k
<1>2. g \in Seq(Entries) /\ Len(g) = k /\ DOMAIN g = 1 .. k /\ \A j \in 1 .. k : g[j] = h[j]
  BY <1>1
<1> HIDE DEF g
<1>3. \A j \in DOMAIN g : j + 0 \in DOMAIN h /\ g[j] = h[j + 0]
  BY <1>1, <1>2
<1>4. Numbered(g, n) /\ Ids(g) \subseteq Ids(h)
  BY <1>2, <1>3, Stretch
<1>5. CASE Len(g) # MaxHistoryEntries
  BY <1>2, <1>4, <1>5 DEF Room, g, k
<1>6. CASE Len(g) = MaxHistoryEntries
  <2>1. g # <<>>
    BY <1>6, ViewerAssumption
  <2>2. Tail(g) \in Seq(Entries) /\ \A j \in DOMAIN Tail(g) : j + 1 \in DOMAIN g /\ Tail(g)[j] = g[j + 1]
    BY <1>2, <2>1, HeadTail
  <2>3. Numbered(Tail(g), n) /\ Ids(Tail(g)) \subseteq Ids(g)
    BY <1>2, <1>4, <2>2, Stretch
  <2> QED BY <1>4, <1>6, <2>2, <2>3 DEF Room, g, k
<1> QED BY <1>5, <1>6

\* A page appended under a fresh artifact keeps the entries numbered.
LEMMA AppendKeeps ==
    ASSUME NEW h \in Seq(Entries), NEW n \in Nat, Numbered(h, n), NEW e \in Entries, e.id = n
    PROVE  LET g == Append(h, e) IN
           /\ g \in Seq(Entries) /\ Numbered(g, n + 1) /\ Ids(g) \subseteq Ids(h) \cup {n}
           /\ Len(g) \in DOMAIN g /\ Len(g) \in Nat /\ g[Len(g)] = e
<1> DEFINE g == Append(h, e)
<1>1. /\ Len(h) \in Nat /\ DOMAIN h = 1 .. Len(h)
      /\ g \in Seq(Entries) /\ Len(g) = Len(h) + 1 /\ DOMAIN g = 1 .. Len(h) + 1
      /\ (\A j \in 1 .. Len(h) : g[j] = h[j]) /\ g[Len(h) + 1] = e
  OBVIOUS
<1> HIDE DEF g
<1>2. \A j \in DOMAIN g : (j \in DOMAIN h /\ g[j] = h[j]) \/ (j = Len(h) + 1 /\ g[j] = e)
  BY <1>1
<1>3. \A j \in DOMAIN h : h[j] \in Entries /\ h[j].id \in Nat /\ h[j].id < n
  <2>1. \A j \in DOMAIN h : h[j] \in Entries
    BY <1>1
  <2> QED BY <2>1 DEF Numbered, Entries
<1>4. ASSUME NEW j \in DOMAIN g, NEW k \in DOMAIN g, g[j].id = g[k].id PROVE j = k
  <2>1. CASE j \in DOMAIN h /\ k \in DOMAIN h
    BY <1>2, <1>4, <2>1, <1>1 DEF Numbered
  <2>2. CASE j \notin DOMAIN h /\ k \notin DOMAIN h
    BY <1>2, <2>2
  <2>3. CASE (j \in DOMAIN h /\ k \notin DOMAIN h) \/ (j \notin DOMAIN h /\ k \in DOMAIN h)
    BY <1>1, <1>2, <1>3, <1>4, <2>3
  <2> QED BY <2>1, <2>2, <2>3
<1>5. \A j \in DOMAIN g : g[j].id < n + 1
  BY <1>2, <1>3
<1>6. Ids(g) \subseteq Ids(h) \cup {n}
  BY <1>2 DEF Ids
<1> QED BY <1>1, <1>4, <1>5, <1>6 DEF Numbered, g

\* The history is over one of its limits.
Over(s) == Len(s) > 1 /\ (Len(s) > MaxHistoryEntries \/ Bytes(s) > MaxHistoryBytes)

\* One entry is trimmed, the oldest that is not under the cursor.
TrimOnce(g) ==
    LET i == IF g[2] = 1 THEN 2 ELSE 1
    IN IF ~Over(g[1]) THEN g
       ELSE <<RemoveAt(g[1], i), IF i < g[2] THEN g[2] - 1 ELSE g[2]>>

\* The histories with entry e under the cursor that name nothing but X.
Kept(e, n, X) ==
    {g \in Seq(Entries) \X Nat : /\ g[2] \in DOMAIN g[1] /\ g[1][g[2]] = e
                                 /\ Numbered(g[1], n) /\ Ids(g[1]) \subseteq X}

\* A history belongs to those of its own entry.
LEMMA KeptPair ==
    ASSUME NEW h \in Seq(Entries), NEW p \in DOMAIN h, p \in Nat, NEW n, NEW X,
           Numbered(h, n), Ids(h) \subseteq X
    PROVE  <<h, p>> \in Kept(h[p], n, X)
  BY DEF Kept

\* Trimming one entry keeps the one under the cursor.
LEMMA TrimOnceKeeps ==
    ASSUME NEW e, NEW n, NEW X, NEW g \in Kept(e, n, X)
    PROVE  TrimOnce(g) \in Kept(e, n, X)
<1> DEFINE h == g[1]
           p == g[2]
           i == IF p = 1 THEN 2 ELSE 1
<1>1. /\ h \in Seq(Entries) /\ p \in Nat /\ p \in DOMAIN h /\ h[p] = e
      /\ Numbered(h, n) /\ Ids(h) \subseteq X /\ g = <<h, p>>
  BY DEF Kept
<1> HIDE DEF h, p
<1>2. TrimOnce(g) = IF ~Over(h) THEN g ELSE <<RemoveAt(h, i), Follow(p, i)>>
  BY DEF TrimOnce, Follow, h, p
<1>3. CASE Over(h)
  <2>1. Len(h) \in Nat /\ Len(h) > 1 /\ DOMAIN h = 1 .. Len(h)
    BY <1>1, <1>3 DEF Over
  <2>2. i \in DOMAIN h /\ i # p
    BY <2>1
  <2> HIDE DEF i
  <2> DEFINE f == RemoveAt(h, i)
             o == Follow(p, i)
  <2>3. /\ f \in Seq(Entries) /\ Numbered(f, n) /\ Ids(f) = Ids(h) \ {h[i].id}
        /\ o \in Nat /\ o \in DOMAIN f /\ f[o] = h[p]
    BY <1>1, <2>2, RemovedKeeps
  <2> HIDE DEF f, o
  <2>4. <<f, o>> \in Kept(f[o], n, X)
    BY <1>1, <2>3, KeptPair
  <2> QED BY <1>1, <1>2, <1>3, <2>3, <2>4 DEF f, o
<1> QED BY <1>2, <1>3

\* Trimming to the limits keeps the entry under the cursor, however many
\* entries go.
LEMMA TrimKeeps ==
    ASSUME NEW h \in Seq(Entries), NEW pos, NEW e, NEW n, NEW X,
           <<h, pos>> \in Kept(e, n, X)
    PROVE  TrimHistory(h, pos) \in Kept(e, n, X)
<1> DEFINE l == Len(h)
           S == Kept(e, n, X)
           x == <<h, pos>>
           step == [p \in (1 .. l) \X S |-> TrimOnce(p[2])]
           Is(f) == f = [k \in 0 .. l |-> IF k = 0 THEN x ELSE TrimOnce(f[k - 1])]
           after == CHOOSE f : Is(f)
           T == {k \in 0 .. l : after[k] \in S}
<1>1. l \in Nat /\ x \in S
  OBVIOUS
<1>2. TrimHistory(h, pos) = after[l]
  BY DEF TrimHistory, TrimOnce, Over
<1> HIDE DEF l, S, x
<1>3. \A y \in S : TrimOnce(y) \in S
  BY TrimOnceKeeps DEF S
<1>4. step \in [(1 .. l) \X S -> S]
  <2>1. \A p \in (1 .. l) \X S : TrimOnce(p[2]) \in S
    BY <1>3
  <2> QED BY <2>1
<1>5. \A k \in 1 .. l : \A y \in S : step[<<k, y>>] = TrimOnce(y)
  BY <1>3
<1> HIDE DEF step
<1>6. PICK g \in [0 .. l -> S] :
        g[0] = x /\ \A k \in 1 .. l : g[k] = step[<<k, g[k - 1]>>]
  <2>1. Runs(S, x, step, l) # {}
    BY <1>1, <1>4, RecursionExists
  <2> QED BY <2>1 DEF Runs, IsRun
<1>7. \A k \in 1 .. l : g[k] = TrimOnce(g[k - 1])
  <2> TAKE k \in 1 .. l
  <2>1. k - 1 \in 0 .. l
    BY <1>1
  <2>2. g[k - 1] \in S
    BY <2>1
  <2> QED BY <1>5, <1>6, <2>2
<1>8. g = [k \in 0 .. l |-> IF k = 0 THEN x ELSE TrimOnce(g[k - 1])]
  BY <1>1, <1>6, <1>7
<1>9. Is(after)
  <2> HIDE DEF Is
  <2>1. Is(g)
    BY <1>8 DEF Is
  <2> QED BY <2>1
<1> HIDE DEF after
<1>10. after[0] = x /\ \A k \in 1 .. l : after[k] = TrimOnce(after[k - 1])
  BY <1>1, <1>9
<1>11. 0 .. l \subseteq T
  <2>1. 0 \in T
    BY <1>1, <1>10
  <2>2. ASSUME NEW k \in 0 .. l - 1, k \in T PROVE k + 1 \in T
    <3>1. k + 1 \in 1 .. l /\ (k + 1) - 1 = k
      BY <1>1
    <3>2. after[k + 1] = TrimOnce(after[k])
      BY <3>1, <1>10
    <3> QED BY <3>1, <3>2, <2>2, <1>1, <1>3
  <2> HIDE DEF T
  <2> QED BY <1>1, <2>1, <2>2, IntervalInduction
<1> QED BY <1>1, <1>2, <1>11 DEF S

\* Releases before an installation keep the invariant when the books
\* balance once both are done.
LEMMA ReleasedThen ==
    ASSUME NEW n, NEW s, Sound(n, s), n.retry = None,
           NEW w \in Seq(Effects), \A i \in DOMAIN w : w[i].e = "ReleaseHistoryArtifact",
           NEW a \in Effects, a.e = "InstallHistoryArtifact", NavOK(n, s, a),
           s.arts \ Released(w) = Ids(n.hist) \ {a.x},
           NEW t \in Seq(Effects), AllPlain(t)
    PROVE  InvOf(n, s, (w \o <<a>>) \o t)
<1> DEFINE u == <<a>>
           f == w \o u
           k == Len(w) + 1
<1>1. u \in Seq(Effects) /\ Len(u) = 1 /\ u[1] = a /\ DOMAIN u = {1}
  OBVIOUS
<1> HIDE DEF u
<1>2. /\ f \in Seq(Effects) /\ Len(w) \in Nat /\ DOMAIN w = 1 .. Len(w)
      /\ DOMAIN f = 1 .. Len(w) + 1
      /\ \A i \in DOMAIN w : i \in DOMAIN f /\ f[i] = w[i]
      /\ \A i \in DOMAIN u : Len(w) + i \in DOMAIN f /\ f[Len(w) + i] = u[i]
  BY <1>1, ConcatAt
<1>3. k \in DOMAIN f /\ f[k] = a /\ k \in Nat
  <2>1. 1 \in DOMAIN u /\ u[1] = a
    BY <1>1
  <2>2. Len(w) + 1 \in DOMAIN f /\ f[Len(w) + 1] = u[1]
    BY <1>2, <2>1
  <2> QED BY <1>2, <2>1, <2>2
<1> HIDE DEF f
<1>4. \A i \in DOMAIN f : (i \in DOMAIN w /\ i < k /\ f[i] = w[i]) \/ i = k
  BY <1>2
<1> HIDE DEF k
<1>5. Single(f, k)
  BY <1>2, <1>3, <1>4 DEF Single, Trivial
<1>6. Stage(n, s, f)
  BY <1>3, <1>5 DEF Stage, OneOK
<1>7. Released(f) = Released(w)
  <2>1. \A i \in DOMAIN f : f[i].e = "ReleaseHistoryArtifact" => i \in DOMAIN w /\ f[i] = w[i]
    BY <1>3, <1>4
  <2>2. \A i \in DOMAIN w : i \in DOMAIN f /\ f[i] = w[i]
    BY <1>2
  <2> QED BY <2>1, <2>2 DEF Released
<1>8. Installed(f) = {a.x}
  BY <1>3, <1>4 DEF Installed
<1>9. Good(n, s, f)
  BY <1>2, <1>6, <1>7, <1>8 DEF Good, Projects
<1>10. Good(n, s, f \o t)
  BY <1>9, PlainBehind
<1> QED BY <1>10 DEF InvOf, AsIs, Good, f, u

\* The history, and the cursor, after a page is committed.
Committed(m, o, id) ==
    LET p == m.pcommit
        entry == [id |-> id, scope |-> o.scope, uri |-> p.uri]
        replace == /\ p.commit = "ReplaceCurrent"
                   /\ m.pos \in DOMAIN m.hist
                   /\ m.hist[m.pos].id = id
        h1 == IF replace THEN [m.hist EXCEPT ![m.pos] = entry]
              ELSE Append(Room(m.hist, m.pos), entry)
    IN TrimHistory(h1, IF replace THEN m.pos ELSE Len(h1))

\* What holds when a page is committed to the history.
AtAdmit(m, o, id) ==
    /\ ModelType(m) /\ Numbered(m.hist, m.nhid) /\ o \in Owners /\ id \in Nat
    /\ m.pcommit.uri = m.uri /\ m.pcommit.commit = m.commit /\ id = ReplacedId(m)

\* A page that replaces an entry keeps its artifact and the numbering.
LEMMA ReplacedKeeps ==
    ASSUME NEW h \in Seq(Entries), NEW i \in DOMAIN h, NEW e \in Entries, e.id = h[i].id,
           NEW n, Numbered(h, n)
    PROVE  LET g == [h EXCEPT ![i] = e] IN
           /\ g \in Seq(Entries) /\ Numbered(g, n) /\ Ids(g) = Ids(h)
           /\ i \in DOMAIN g /\ g[i] = e /\ i \in Nat
<1> DEFINE g == [h EXCEPT ![i] = e]
<1>1. /\ g \in Seq(Entries) /\ DOMAIN g = DOMAIN h /\ i \in Nat
      /\ \A j \in DOMAIN h : g[j] = IF j = i THEN e ELSE h[j]
  OBVIOUS
<1> HIDE DEF g
<1>2. \A j \in DOMAIN h : g[j].id = h[j].id
  BY <1>1
<1>3. Numbered(g, n) /\ Ids(g) = Ids(h)
  BY <1>1, <1>2, SameNumbers
<1> QED BY <1>1, <1>3 DEF g

\* A committed page is under the cursor, in its own artifact, in a history
\* that is numbered.
LEMMA CommittedGood ==
    ASSUME NEW m, NEW o, NEW id, AtAdmit(m, o, id)
    PROVE  LET c == Committed(m, o, id)
               replace == /\ m.pcommit.commit = "ReplaceCurrent"
                          /\ m.pos \in DOMAIN m.hist
                          /\ m.hist[m.pos].id = id
           IN
           /\ c[1] \in Seq(Entries) /\ c[2] \in Nat
           /\ IsAt(c[1], c[2], o.scope, m.uri) /\ c[1][c[2]].id = id
           /\ Numbered(c[1], IF replace THEN m.nhid ELSE m.nhid + 1)
           /\ Ids(c[1]) \subseteq Ids(m.hist) \cup {id} /\ id \in Ids(c[1])
           /\ ~replace => id \notin Ids(m.hist)
<1> DEFINE h == m.hist
           e == [id |-> id, scope |-> o.scope, uri |-> m.pcommit.uri]
           replace == /\ m.pcommit.commit = "ReplaceCurrent"
                      /\ m.pos \in DOMAIN m.hist
                      /\ m.hist[m.pos].id = id
           h1 == IF replace THEN [h EXCEPT ![m.pos] = e] ELSE Append(Room(h, m.pos), e)
           p1 == IF replace THEN m.pos ELSE Len(h1)
           k == IF replace THEN m.nhid ELSE m.nhid + 1
           X == Ids(h) \cup {id}
           c == Committed(m, o, id)
<1>1. /\ h \in Seq(Entries) /\ m.pos \in Nat /\ m.nhid \in Nat /\ Numbered(h, m.nhid)
      /\ m.uri \in Pages /\ m.pcommit.uri = m.uri /\ id \in Nat /\ o.scope \in Scopes
  BY OwnerIs DEF AtAdmit, ModelType
<1>2. e \in Entries /\ e.id = id /\ e.scope = o.scope /\ e.uri = m.uri
  BY <1>1 DEF Entries
<1>3. ~replace => id = m.nhid
  BY DEF AtAdmit, ReplacedId
<1>4. ~replace => id \notin Ids(h)
  <2>1. \A i \in DOMAIN h : h[i].id # m.nhid
    <3>1. \A i \in DOMAIN h : h[i] \in Entries /\ h[i].id < m.nhid
      BY <1>1 DEF Numbered
    <3> QED BY <3>1, <1>1 DEF Entries
  <2> QED BY <1>3, <2>1 DEF Ids
<1>5. c = TrimHistory(h1, p1)
  BY DEF Committed
<1>6. replace => m.pos \in DOMAIN h /\ h[m.pos].id = id
  OBVIOUS
<1> HIDE DEF h, e, replace, c
<1>7. /\ h1 \in Seq(Entries) /\ p1 \in DOMAIN h1 /\ p1 \in Nat /\ h1[p1] = e
      /\ Numbered(h1, k) /\ Ids(h1) \subseteq X
  <2>1. CASE replace
    <3> DEFINE g == [h EXCEPT ![m.pos] = e]
    <3>1. /\ g \in Seq(Entries) /\ Numbered(g, m.nhid) /\ Ids(g) = Ids(h)
          /\ m.pos \in DOMAIN g /\ g[m.pos] = e
      BY <1>1, <1>2, <1>6, <2>1, ReplacedKeeps
    <3> HIDE DEF g
    <3>2. h1 = g /\ p1 = m.pos /\ k = m.nhid
      BY <2>1 DEF g
    <3> QED BY <1>1, <3>1, <3>2
  <2>2. CASE ~replace
    <3> DEFINE r == Room(h, m.pos)
               g == Append(r, e)
    <3>1. /\ r \in Seq(Entries) /\ Numbered(r, m.nhid) /\ Ids(r) \subseteq Ids(h)
      BY <1>1, RoomKeeps
    <3> HIDE DEF r
    <3>2. /\ g \in Seq(Entries) /\ Numbered(g, m.nhid + 1) /\ Ids(g) \subseteq Ids(r) \cup {m.nhid}
          /\ Len(g) \in DOMAIN g /\ Len(g) \in Nat /\ g[Len(g)] = e
      BY <1>1, <1>2, <1>3, <2>2, <3>1, AppendKeeps
    <3> HIDE DEF g
    <3>3. h1 = g /\ p1 = Len(g) /\ k = m.nhid + 1
      BY <2>2 DEF g, r
    <3> QED BY <1>3, <2>2, <3>1, <3>2, <3>3
  <2> QED BY <2>1, <2>2
<1> HIDE DEF h1, p1, k, X
<1>8. <<h1, p1>> \in Kept(e, k, X)
  BY <1>7, KeptPair
<1>9. c \in Kept(e, k, X)
  BY <1>5, <1>7, <1>8, TrimKeeps
<1>10. /\ c[1] \in Seq(Entries) /\ c[2] \in Nat /\ c[2] \in DOMAIN c[1] /\ c[1][c[2]] = e
       /\ Numbered(c[1], k) /\ Ids(c[1]) \subseteq X
  BY <1>9 DEF Kept
<1>11. IsAt(c[1], c[2], o.scope, m.uri) /\ c[1][c[2]].id = id
  BY <1>2, <1>10 DEF IsAt
<1>12. id \in Ids(c[1])
  BY <1>10, <1>11 DEF Ids
<1> QED BY <1>4, <1>10, <1>11, <1>12 DEF X, k, h, replace, c

\* The releases of the artifacts in X that a history names.
Releases(h, X) ==
    Subsequence([i \in DOMAIN h |-> Fx("ReleaseHistoryArtifact", None, h[i].id)],
                {i \in DOMAIN h : h[i].id \in X})

\* They release exactly those.
LEMMA ReleasesAre ==
    ASSUME NEW h \in Seq(Entries), NEW X
    PROVE  LET w == Releases(h, X) IN
           /\ w \in Seq(Effects)
           /\ \A k \in DOMAIN w : w[k].e = "ReleaseHistoryArtifact"
           /\ Released(w) = Ids(h) \cap X
<1> DEFINE f == [i \in DOMAIN h |-> Fx("ReleaseHistoryArtifact", None, h[i].id)]
           I == {i \in DOMAIN h : h[i].id \in X}
           w == Releases(h, X)
<1>1. \A i \in DOMAIN h : h[i] \in Entries
  OBVIOUS
<1>2. \A i \in DOMAIN h : h[i].id \in Nat
  BY <1>1 DEF Entries
<1>3. \A i \in DOMAIN h : /\ f[i] \in Effects /\ f[i].e = "ReleaseHistoryArtifact"
                          /\ f[i].x = h[i].id
  BY <1>2, EffectOf, FxParts
<1>4. DOMAIN f = DOMAIN h /\ DOMAIN h = 1 .. Len(h) /\ Len(h) \in Nat
  OBVIOUS
<1>5. f \in Seq(Effects)
  <2>1. f = [i \in 1 .. Len(h) |-> f[i]]
    BY <1>4
  <2>2. \A i \in 1 .. Len(h) : f[i] \in Effects
    BY <1>3, <1>4
  <2> HIDE DEF f
  <2>3. f \in [1 .. Len(h) -> Effects]
    BY <2>1, <2>2
  <2> QED BY <2>3, <1>4
<1>6. w = Subsequence(f, I) /\ I \in SUBSET DOMAIN f
  BY <1>4 DEF Releases
<1>7. \A i \in DOMAIN h : i \in I <=> h[i].id \in X
  OBVIOUS
<1> HIDE DEF f, I, w
<1>8. /\ w \in Seq(Effects) /\ DOMAIN w = 1 .. Cardinality(I)
      /\ \A k \in 1 .. Cardinality(I) : Nth(I, k) \in I /\ w[k] = f[Nth(I, k)]
      /\ \A i \in I : \E k \in 1 .. Cardinality(I) : Nth(I, k) = i
  BY <1>5, <1>6, SubsequenceProperties
<1>9. \A k \in DOMAIN w : \E i \in DOMAIN h : h[i].id \in X /\ w[k] = f[i]
  BY <1>4, <1>6, <1>7, <1>8
<1>10. \A i \in DOMAIN h : h[i].id \in X => \E k \in DOMAIN w : w[k] = f[i]
  BY <1>7, <1>8
<1>11. \A k \in DOMAIN w : w[k].e = "ReleaseHistoryArtifact"
  BY <1>3, <1>9
<1>12. Released(w) = {w[k].x : k \in DOMAIN w}
  BY <1>11 DEF Released
<1>13. {w[k].x : k \in DOMAIN w} = Ids(h) \cap X
  <2>1. ASSUME NEW k \in DOMAIN w PROVE w[k].x \in Ids(h) \cap X
    BY <1>3, <1>9 DEF Ids
  <2>2. ASSUME NEW y \in Ids(h) \cap X PROVE \E k \in DOMAIN w : w[k].x = y
    <3>1. PICK i \in DOMAIN h : h[i].id = y
      BY DEF Ids
    <3>2. PICK k \in DOMAIN w : w[k] = f[i]
      BY <3>1, <1>10
    <3> QED BY <3>1, <3>2, <1>3
  <2> QED BY <2>1, <2>2
<1> QED BY <1>8, <1>11, <1>12, <1>13 DEF w

\* The model with a history committed.
CommitTo(m, c, k) ==
    [m EXCEPT !.hist = c[1], !.pos = c[2], !.commit = "Append", !.pcommit = None,
              !.nhid = k]

\* The same, field by field.
LEMMA CommitToFields ==
    ASSUME NEW m, DOMAIN m = ModelFields, NEW c, NEW k
    PROVE  LET n == CommitTo(m, c, k) IN
           /\ Else(m, n, {"hist", "pos", "commit", "pcommit", "nhid"})
           /\ n.hist = c[1] /\ n.pos = c[2] /\ n.commit = "Append" /\ n.nhid = k
<1> DEFINE n == CommitTo(m, c, k)
<1>1. DOMAIN n = ModelFields
  BY Zenon DEF CommitTo
<1>2. \A f \in ModelFields \ {"hist", "pos", "commit", "pcommit", "nhid"} : n[f] = m[f]
  BY Zenon DEF CommitTo
<1>3. n.hist = c[1] /\ n.pos = c[2] /\ n.commit = "Append" /\ n.nhid = k
  BY SMT DEF ModelFields, CommitTo
<1> QED BY <1>1, <1>2, <1>3 DEF Else

\* The runtime with an artifact staged.
WithArtifact(r, x) == [r EXCEPT !.artifact = x]

\* It touches nothing else.
LEMMA ArtifactFields ==
    ASSUME NEW r, DOMAIN r = RuntimeFields, NEW x
    PROVE  ElseR(r, WithArtifact(r, x), {"artifact"}) /\ WithArtifact(r, x).artifact = x
  BY DEF WithArtifact, ElseR, RuntimeFields

\* The commit replaces the entry under the cursor.
Replaces(m, id) == /\ m.pcommit.commit = "ReplaceCurrent"
                   /\ m.pos \in DOMAIN m.hist
                   /\ m.hist[m.pos].id = id

\* The model a commit leads to.
CommitsTo(m, o, id) ==
    CommitTo(m, Committed(m, o, id), IF Replaces(m, id) THEN m.nhid ELSE m.nhid + 1)

\* What a commit releases.
CommitReleases(m, o, id) ==
    Releases(m.hist,
             RemovedIds(Ids(m.hist), Ids(Committed(m, o, id)[1]), Replaces(m, id), id))

\* What committing a page returns: the releases, then the installation.
LEMMA CommitIs ==
    ASSUME NEW m, NEW o, NEW id, Owns(m, o), m.pcommit # None,
           m.pcommit.o = o, m.pcommit.id = id
    PROVE  HistoryCommitted(m, o, id) =
             Ret(CommitsTo(m, o, id),
                 CommitReleases(m, o, id) \o <<Fx("InstallHistoryArtifact", o, id)>>)
<1>1. CASE Replaces(m, id)
  BY <1>1 DEF HistoryCommitted, Committed, Room, Ids, CommitsTo, CommitReleases, CommitTo,
     Replaces, Releases
<1>2. CASE ~Replaces(m, id)
  BY <1>2 DEF HistoryCommitted, Committed, Room, Ids, CommitsTo, CommitReleases, CommitTo,
     Replaces, Releases
<1> QED BY <1>1, <1>2

\* What holds when an admission is at the front.
AtCommit(m, r, a, t) ==
    /\ a \in Effects /\ a.o \in Owners /\ t \in Seq(Effects) /\ AllPlain(t)
    /\ a.e = "AdmitHistoryArtifact" /\ NavOK(m, r, a)
    /\ r.arts = Ids(m.hist) /\ m.retry = None /\ a.x.id \in Nat
    /\ Sound(m, r) /\ DOMAIN m = ModelFields /\ DOMAIN r = RuntimeFields

\* An admission that is granted leaves the frame ready.
LEMMA AdmittedSlot ==
    ASSUME NEW m, NEW r, NEW a, NEW t, AtCommit(m, r, a, t), NEW s,
           ElseR(r, s, {"artifact"})
    PROVE  /\ Sound(m, s) /\ s.arts = Ids(m.hist) /\ FrameReady(m, s, a.o)
           /\ Accounted(m, s, {a.o.req}) /\ s.activated = None
           /\ s.live = r.live /\ s.kept = r.kept /\ RuntimeType(s)
<1>1. /\ Owns(m, a.o) /\ Accounted(m, r, {a.o.req}) /\ r.activated = None
      /\ FrameReady(m, r, a.o) /\ Sound(m, r) /\ r.arts = Ids(m.hist)
  BY DEF AtCommit, NavOK
<1>2. /\ s.nav = r.nav /\ s.layout = r.layout /\ s.fetched = r.fetched
      /\ s.parsed = r.parsed /\ s.batch = r.batch /\ s.pwasm = r.pwasm
      /\ s.activated = r.activated /\ s.deferred = r.deferred /\ s.lost = r.lost
      /\ s.arts = r.arts /\ s.live = r.live /\ s.kept = r.kept
      /\ s.trust = r.trust /\ s.shifted = r.shifted
      /\ DOMAIN s = RuntimeFields
  BY ElseRParts
<1>3. RuntimeType(s)
  BY <1>1, <1>2 DEF Sound, RuntimeType
<1>4. Sound(m, s)
  BY <1>1, <1>2, <1>3 DEF Sound, LiveShown
<1>5. FrameReady(m, s, a.o)
  BY <1>1, <1>2 DEF FrameReady, NoPage
<1>6. Accounted(m, s, {a.o.req})
  BY <1>1, <1>2 DEF Accounted
<1> QED BY <1>1, <1>2, <1>3, <1>4, <1>5, <1>6

\* Committing a page keeps the invariant: what the renderer holds follows
\* the history.
LEMMA CommitGood ==
    ASSUME NEW m, NEW r, NEW a, NEW t, AtCommit(m, r, a, t)
    PROVE  LET b == HistoryCommitted(m, a.o, a.x.id) IN
           InvOf(b.v, WithArtifact(r, Slot(a.o, a.x.id)), b.fx \o t)
<1> DEFINE o == a.o
           id == a.x.id
           s == WithArtifact(r, Slot(o, id))
           c == Committed(m, o, id)
           n == CommitsTo(m, o, id)
           k == IF Replaces(m, id) THEN m.nhid ELSE m.nhid + 1
           w == CommitReleases(m, o, id)
           X == RemovedIds(Ids(m.hist), Ids(c[1]), Replaces(m, id), id)
           x == Fx("InstallHistoryArtifact", o, id)
<1>1. /\ Owns(m, o) /\ m.pcommit # None /\ m.pcommit.o = o /\ m.pcommit.id = id
      /\ m.pcommit.uri = m.uri /\ m.pcommit.commit = m.commit /\ id = ReplacedId(m)
      /\ m.pend = None /\ o \in Owners /\ id \in Nat /\ m.scope = o.scope
      /\ ModelType(m) /\ Numbered(m.hist, m.nhid) /\ m.hist \in Seq(Entries) /\ m.nhid \in Nat
  BY DEF AtCommit, NavOK, Sound, Owns, ModelType
<1>2. AtAdmit(m, o, id)
  BY <1>1 DEF AtAdmit
<1>3. /\ c[1] \in Seq(Entries) /\ c[2] \in Nat
      /\ IsAt(c[1], c[2], o.scope, m.uri) /\ c[1][c[2]].id = id
      /\ Numbered(c[1], k)
      /\ Ids(c[1]) \subseteq Ids(m.hist) \cup {id} /\ id \in Ids(c[1])
      /\ ~Replaces(m, id) => id \notin Ids(m.hist)
  BY <1>2, CommittedGood DEF Replaces
<1>4. Replaces(m, id) => id \in Ids(m.hist)
  BY DEF Replaces, Ids
<1>5. k \in Nat
  BY <1>1
<1>6. /\ Else(m, n, {"hist", "pos", "commit", "pcommit", "nhid"})
      /\ n.hist = c[1] /\ n.pos = c[2] /\ n.commit = "Append" /\ n.nhid = k
  BY <1>1, CommitToFields DEF CommitsTo, ModelType
<1>7. HistoryCommitted(m, o, id) = Ret(n, w \o <<x>>)
  BY <1>1, CommitIs
<1>8. /\ w \in Seq(Effects) /\ \A i \in DOMAIN w : w[i].e = "ReleaseHistoryArtifact"
      /\ Released(w) = Ids(m.hist) \cap X
  BY <1>1, ReleasesAre DEF CommitReleases
<1>9. x \in Effects /\ x.e = "InstallHistoryArtifact" /\ x.o = o /\ x.x = id
  BY <1>1, EffectOf, FxParts
<1> HIDE DEF c, n, w, x, k
<1>10. ElseR(r, s, {"artifact"}) /\ s.artifact = Slot(o, id)
  BY ArtifactFields DEF AtCommit
<1> HIDE DEF s
<1>11. /\ Sound(m, s) /\ s.arts = Ids(m.hist) /\ FrameReady(m, s, o)
       /\ Accounted(m, s, {o.req}) /\ s.activated = None
       /\ s.live = r.live /\ s.kept = r.kept /\ RuntimeType(s)
  BY <1>10, AdmittedSlot
<1>12. /\ n.phase = m.phase /\ n.scope = m.scope /\ n.uri = m.uri /\ n.conn = m.conn
       /\ n.out = m.out /\ n.pend = m.pend /\ n.gen = m.gen /\ n.nreq = m.nreq
       /\ n.retry = m.retry /\ n.subs = m.subs /\ DOMAIN n = ModelFields
  BY <1>6, ElseParts
<1>13. s.arts \ Released(w) = Ids(n.hist) \ {x.x}
  <2>1. CASE Replaces(m, id)
    <3>1. X = (Ids(m.hist) \ Ids(c[1])) \cup {id}
      BY <2>1 DEF RemovedIds
    <3> QED BY <1>3, <1>4, <1>6, <1>8, <1>9, <1>11, <2>1, <3>1
  <2>2. CASE ~Replaces(m, id)
    <3>1. X = Ids(m.hist) \ Ids(c[1])
      BY <2>2 DEF RemovedIds
    <3> QED BY <1>3, <1>6, <1>8, <1>9, <1>11, <2>2, <3>1
  <2> QED BY <2>1, <2>2
<1>14. Sound(n, s)
  <2>1. ModelType(n)
    BY <1>1, <1>3, <1>5, <1>6, <1>12 DEF ModelType, CommitKinds
  <2>2. Numbered(n.hist, n.nhid)
    BY <1>3, <1>6
  <2> QED BY <1>11, <1>12, <2>1, <2>2 DEF Sound, LiveShown
<1>15. NavOK(n, s, x)
  <2>1. Owns(n, x.o) /\ Accounted(n, s, {x.o.req}) /\ n.pend = None
    BY <1>1, <1>9, <1>11, <1>12 DEF Owns, Accounted
  <2>2. FrameReady(n, s, x.o) /\ s.artifact = Slot(x.o, x.x)
    BY <1>9, <1>10, <1>11, <1>12 DEF FrameReady
  <2>3. IsAt(n.hist, n.pos, n.scope, n.uri) /\ n.hist[n.pos].id = x.x
    BY <1>1, <1>3, <1>6, <1>9, <1>12
  <2> QED BY <1>9, <1>11, <2>1, <2>2, <2>3 DEF NavOK, NavSteps
<1>16. n.retry = None
  BY <1>12 DEF AtCommit
<1>17. InvOf(n, s, (w \o <<x>>) \o t)
  BY <1>8, <1>9, <1>13, <1>14, <1>15, <1>16, ReleasedThen DEF AtCommit
<1> QED BY <1>7, <1>17, RetParts DEF s

\* Admitting an artifact keeps the invariant: granted, stale, or memory
\* that ran out.
LEMMA AdmitKeeps == ASSUME Inv, ExecAdmitHistoryArtifact PROVE Inv'
<1> DEFINE a == Head(q)
           o == a.o
           t == Tail(q)
           id == a.x.id
           s == WithArtifact(rt, Slot(o, id))
<1>1. q # <<>> /\ a.e = "AdmitHistoryArtifact"
  BY DEF ExecAdmitHistoryArtifact, Executing, Head1
<1>0. a.e \notin Trivial \cup Evicts \cup {"RetirePageWork", "RetireSubscriptions"}
  BY <1>1 DEF Trivial, Plain, Evicts
<1>2. /\ Sound(v, rt) /\ v.retry = None /\ t \in Seq(Effects) /\ a \in Effects
      /\ NavOK(v, rt, a) /\ AllPlain(t)
      /\ rt.arts = Ids(v.hist) \ InstalledBy(a)
      /\ DOMAIN v = ModelFields /\ DOMAIN rt = RuntimeFields
  BY <1>0, <1>1, AtKind, AtHead DEF Inv, NavSteps, Sound, ModelType, RuntimeType
<1>3. AtCommit(v, rt, a, t) /\ Holds(rt.artifact, o) /\ v.scope = o.scope
  BY <1>1, <1>2, EffectParts DEF NavOK, AtCommit, InstalledBy, Owns
<1>4. \/ Rejected
      \/ Done(HistoryCommitted(v, o, id), s)
      \/ Done(PresentationFailed(v, Head(q)), s)
  BY <1>3 DEF ExecAdmitHistoryArtifact, o1, Head1, WithArtifact
<1>5. CASE Rejected
  <2>1. LET b == PresentationFailed(v, Head(q)) IN InvOf(b.v, rt, b.fx \o Tail(q))
    BY <1>1, RejectedGood DEF Inv, Rejectable
  <2> QED BY <1>5, <2>1 DEF Rejected, Done, Head1, Inv
<1>6. CASE Done(HistoryCommitted(v, o, id), s)
  <2>1. LET b == HistoryCommitted(v, a.o, a.x.id) IN
        InvOf(b.v, WithArtifact(rt, Slot(a.o, a.x.id)), b.fx \o t)
    BY <1>3, CommitGood
  <2> QED BY <1>6, <2>1 DEF Done, Inv
<1>7. CASE Done(PresentationFailed(v, Head(q)), s)
  <2>1. ElseR(rt, s, {"artifact"}) /\ s.artifact = Slot(o, id)
    BY <1>2, ArtifactFields
  <2>2. Holds(s.artifact, o)
    BY <1>3, <2>1, SlotThere DEF AtCommit
  <2> HIDE DEF s
  <2>3. /\ Sound(v, s) /\ s.arts = Ids(v.hist) /\ FrameReady(v, s, o)
        /\ Accounted(v, s, {o.req}) /\ s.activated = None
    BY <1>3, <2>1, AdmittedSlot
  <2>4. NavOK(v, s, a)
    BY <1>1, <1>2, <2>2, <2>3 DEF NavOK
  <2>5. s.arts = Ids(v.hist) \ InstalledBy(a)
    BY <1>1, <2>3 DEF InstalledBy
  <2>6. InvOf(v, s, <<a>> \o t)
    BY <1>2, <2>3, <2>4, <2>5, OnGood DEF OneOK
  <2>7. q = <<a>> \o t
    BY <1>1, Parted DEF Inv, InvOf
  <2>8. InvOf(v, s, q)
    BY <2>6, <2>7
  <2>9. LET b == PresentationFailed(v, Head(q)) IN InvOf(b.v, s, b.fx \o Tail(q))
    BY <1>1, <2>8, RejectedGood DEF Rejectable
  <2> QED BY <1>7, <2>9 DEF Done, Inv
<1> QED BY <1>4, <1>5, <1>6, <1>7

\* The runtime with an artifact installed.
Installing(r, id) == [r EXCEPT !.arts = @ \cup {id}, !.artifact = None]

\* It touches nothing else.
LEMMA InstallingFields ==
    ASSUME NEW r, DOMAIN r = RuntimeFields, NEW id
    PROVE  LET n == Installing(r, id) IN
           ElseR(r, n, {"arts", "artifact"}) /\ n.arts = r.arts \cup {id} /\ n.artifact = None
  BY DEF Installing, ElseR, RuntimeFields

\* Installing an artifact keeps the invariant.
LEMMA InstallKeeps == ASSUME Inv, ExecInstallHistoryArtifact PROVE Inv'
<1> DEFINE a == Head(q)
           o == a.o
           t == Tail(q)
           s == Installing(rt, a.x)
           c == Fx("ActivateLayout", o, None)
<1>1. q # <<>> /\ a.e = "InstallHistoryArtifact"
  BY DEF ExecInstallHistoryArtifact, Executing, Head1
<1>0. a.e \notin Trivial \cup Evicts \cup {"RetirePageWork", "RetireSubscriptions"}
  BY <1>1 DEF Trivial, Plain, Evicts
<1>2. /\ Sound(v, rt) /\ v.retry = None /\ t \in Seq(Effects) /\ a \in Effects
      /\ NavOK(v, rt, a) /\ AllPlain(t)
      /\ rt.arts = Ids(v.hist) \ InstalledBy(a)
      /\ DOMAIN v = ModelFields /\ DOMAIN rt = RuntimeFields
  BY <1>0, <1>1, AtKind, AtHead DEF Inv, NavSteps, Sound, ModelType, RuntimeType
<1>3. /\ Owns(v, o) /\ v.pend = None /\ FrameReady(v, rt, o) /\ rt.artifact = Slot(o, a.x)
      /\ IsAt(v.hist, v.pos, v.scope, v.uri) /\ v.hist[v.pos].id = a.x
      /\ Accounted(v, rt, {o.req}) /\ rt.activated = None /\ v.scope = o.scope
      /\ o \in Owners
  BY <1>1, <1>2, EffectParts DEF NavOK, Owns
<1>7. a.x \notin rt.arts
  BY <1>1, <1>2 DEF InstalledBy
<1>4. Done(LayoutPrepared(v, o), s)
  BY <1>3, <1>7 DEF ExecInstallHistoryArtifact, o1, Head1, Installing, FrameReady
<1>6. CASE Done(LayoutPrepared(v, o), s)
  <2>1. LayoutPrepared(v, o) = Ret(v, <<c>>)
    BY <1>3 DEF LayoutPrepared
  <2>2. v' = v /\ rt' = s /\ q' = <<c>> \o t
    BY <1>6, <2>1, RetParts DEF Done
  <2>3. c \in Effects /\ c.e = "ActivateLayout" /\ c.o = o
    BY <1>3, EffectOf, FxParts DEF OwnedBare
  <2> HIDE DEF c
  <2>4. ElseR(rt, s, {"arts", "artifact"}) /\ s.arts = rt.arts \cup {a.x} /\ s.artifact = None
    BY <1>2, InstallingFields
  <2> HIDE DEF s
  <2>5. /\ s.nav = rt.nav /\ s.layout = rt.layout /\ s.fetched = rt.fetched
        /\ s.parsed = rt.parsed /\ s.batch = rt.batch /\ s.pwasm = rt.pwasm
        /\ s.activated = rt.activated /\ s.deferred = rt.deferred /\ s.lost = rt.lost
        /\ s.live = rt.live /\ s.kept = rt.kept /\ s.trust = rt.trust /\ s.shifted = rt.shifted
        /\ DOMAIN s = RuntimeFields
    BY <2>4, ElseRParts
  <2>6. Sound(v, s)
    BY <1>2, <2>5 DEF Sound, LiveShown, RuntimeType
  <2>7. FrameReady(v, s, o) /\ Accounted(v, s, {o.req})
    BY <1>3, <2>5 DEF FrameReady, NoPage, Accounted
  <2>8. NavOK(v, s, c)
    BY <1>3, <2>3, <2>4, <2>5, <2>7 DEF NavOK, NavSteps
  <2>9. s.arts = Ids(v.hist) \ InstalledBy(c)
    <3>1. a.x \in Ids(v.hist)
      BY <1>3 DEF IsAt, Ids
    <3> QED BY <1>1, <1>2, <2>3, <2>4, <3>1 DEF InstalledBy
  <2>10. InvOf(v, s, <<c>> \o t)
    BY <1>2, <2>3, <2>6, <2>8, <2>9, OnGood DEF OneOK
  <2> QED BY <2>2, <2>10 DEF Inv
<1> QED BY <1>4, <1>6

-----------------------------------------------------------------------------
(* The main loop                                                           *)

\* The viewer at rest: nothing queued, settled and drained.
AtRest(m, r) ==
    /\ Sound(m, r) /\ m.retry = None /\ Settled(m, r, {}) /\ Drained(r)
    /\ r.arts = Ids(m.hist) /\ DOMAIN m = ModelFields /\ DOMAIN r = RuntimeFields
    /\ m.scope \in Scopes /\ m.nreq \in Nat /\ m.conn \in Conns
    /\ m.out \subseteq Nat /\ \A k \in m.out : k < m.nreq

\* What makes a viewer rest.
LEMMA RestParts ==
    ASSUME NEW m, NEW r, Sound(m, r), m.retry = None, Settled(m, r, {}), Drained(r),
           r.arts = Ids(m.hist)
    PROVE  AtRest(m, r)
  BY DEF AtRest, Sound, ModelType, RuntimeType

\* The invariant with an empty queue is the viewer at rest: every property
\* of a quiet viewer follows from this.
LEMMA QuietRest == ASSUME Inv, Quiet PROVE AtRest(v, rt)
<1>1. q = <<>> /\ v.phase # "ShuttingDown"
  BY DEF Quiet
<1>2. AsIs(v, rt, q)
  BY <1>1 DEF Inv, InvOf, Closing, Evicting, RetiringWork, RetiringSubs
<1>3. DOMAIN q = {} /\ Released(q) = {} /\ Installed(q) = {}
  BY <1>1 DEF Released, Installed
<1>4. Settled(v, rt, {}) /\ Drained(rt)
  BY <1>2, <1>3 DEF AsIs, Good, Stage
<1>5. rt.arts = Ids(v.hist)
  BY <1>2, <1>3 DEF AsIs, Good, Projects
<1> QED BY <1>2, <1>4, <1>5, RestParts DEF AsIs, Good

\* With nothing behind them the effects of an event are the queue.
LEMMA Ended ==
    ASSUME NEW m, NEW r, NEW f \in Seq(Effects), InvOf(m, r, f \o <<>>)
    PROVE  InvOf(m, r, f)
<1>1. f \o <<>> = f
  OBVIOUS
<1> QED BY <1>1

\* The empty queue is a queue of drawing.
LEMMA NothingMore == <<>> \in Seq(Effects) /\ AllPlain(<<>>)
  BY DEF AllPlain

\* A viewer at rest satisfies the invariant.
LEMMA RestKeeps ==
    ASSUME NEW m, NEW r, AtRest(m, r)
    PROVE  InvOf(m, r, <<>>)
<1> DEFINE t == <<>>
<1>1. t \in Seq(Effects) /\ AllPlain(t)
  BY NothingMore
<1> HIDE DEF t
<1>2. InvOf(m, r, t)
  BY <1>1, RestGood DEF AtRest
<1> QED BY <1>2 DEF t

\* So does one effect queued at rest.
LEMMA OneKeeps ==
    ASSUME NEW m, NEW r, Sound(m, r), NEW a \in Effects, OneOK(m, r, a), m.retry = None,
           r.arts = Ids(m.hist), a.e # "InstallHistoryArtifact"
    PROVE  InvOf(m, r, <<a>>)
<1> DEFINE t == <<>>
           f == <<a>>
<1>1. t \in Seq(Effects) /\ AllPlain(t)
  BY NothingMore
<1>2. r.arts = Ids(m.hist) \ InstalledBy(a)
  BY DEF InstalledBy
<1>3. f \in Seq(Effects)
  OBVIOUS
<1> HIDE DEF t
<1>4. InvOf(m, r, <<a>> \o t)
  BY <1>1, <1>2, OnGood
<1> HIDE DEF f
<1>5. InvOf(m, r, f \o <<>>)
  BY <1>4 DEF t, f
<1>6. InvOf(m, r, f)
  BY <1>3, <1>5, Ended
<1> QED BY <1>6 DEF f

\* The fields only the main loop looks at.
Loop == {"trust", "resumed", "proposal", "activated"}

\* The main loop's own fields do not disturb the rest.
LEMMA LoopRest ==
    ASSUME NEW m, NEW r, AtRest(m, r), NEW s, ElseR(r, s, Loop),
           s.trust \in Pages \cup {None}
    PROVE  AtRest(m, s)
<1>1. /\ s.shown = r.shown /\ s.fetched = r.fetched /\ s.parsed = r.parsed /\ s.nav = r.nav
      /\ s.layout = r.layout /\ s.artifact = r.artifact /\ s.batch = r.batch
      /\ s.pwasm = r.pwasm /\ s.deferred = r.deferred /\ s.lost = r.lost
      /\ s.arts = r.arts /\ s.live = r.live /\ s.kept = r.kept /\ s.shifted = r.shifted
      /\ DOMAIN s = RuntimeFields
  BY ElseRParts DEF Loop
<1>2. Settled(m, s, {})
  BY <1>1 DEF AtRest, Settled, Cursor, Accounted
<1>3. Drained(s)
  BY <1>1 DEF AtRest, Drained, NoPage, NoFrame
<1>4. RuntimeType(s)
  BY <1>1 DEF AtRest, Sound, RuntimeType
<1>5. Sound(m, s)
  BY <1>1, <1>4 DEF AtRest, Sound, LiveShown
<1> QED BY <1>1, <1>2, <1>3, <1>5 DEF AtRest

\* The runtime with the certificate question answered.
Untrusted(r) == [r EXCEPT !.trust = None]

\* The runtime with the shown page taken by the loop.
Taken(r) == [r EXCEPT !.activated = None]

\* The runtime with the resumed link taken by the loop.
Followed(r) == [r EXCEPT !.resumed = None]

\* None of them disturbs the rest.
LEMMA LoopFields ==
    ASSUME NEW m, NEW r, AtRest(m, r), NEW p
    PROVE  /\ AtRest(m, Untrusted(r)) /\ Untrusted(r).activated = r.activated
           /\ AtRest(m, Taken(r))
           /\ AtRest(m, Followed(r)) /\ Followed(r).activated = r.activated
           /\ AtRest(m, Proposed(r, p)) /\ Proposed(r, p).deferred = r.deferred
           /\ Proposed(r, p).proposal = p
<1>1. DOMAIN r = RuntimeFields /\ r.trust \in Pages \cup {None}
  BY DEF AtRest, Sound, RuntimeType
<1>2. /\ ElseR(r, Untrusted(r), Loop) /\ Untrusted(r).trust = None
      /\ Untrusted(r).activated = r.activated
  BY <1>1 DEF Untrusted, ElseR, RuntimeFields, Loop
<1>3. ElseR(r, Taken(r), Loop) /\ Taken(r).trust = r.trust
  BY <1>1 DEF Taken, ElseR, RuntimeFields, Loop
<1>4. /\ ElseR(r, Followed(r), Loop) /\ Followed(r).trust = r.trust
      /\ Followed(r).activated = r.activated
  BY <1>1 DEF Followed, ElseR, RuntimeFields, Loop
<1>5. /\ ElseR(r, Proposed(r, p), Loop) /\ Proposed(r, p).trust = r.trust
      /\ Proposed(r, p).deferred = r.deferred /\ Proposed(r, p).proposal = p
  BY <1>1 DEF Proposed, ElseR, RuntimeFields, Loop
<1> HIDE DEF Untrusted, Taken, Followed, Proposed
<1>6. AtRest(m, Untrusted(r))
  BY <1>2, LoopRest
<1>7. AtRest(m, Taken(r))
  BY <1>1, <1>3, LoopRest
<1>8. AtRest(m, Followed(r))
  BY <1>1, <1>4, LoopRest
<1>9. AtRest(m, Proposed(r, p))
  BY <1>1, <1>5, LoopRest
<1> QED BY <1>2, <1>4, <1>5, <1>6, <1>7, <1>8, <1>9

\* A navigation that starts at rest keeps the invariant.
LEMMA NavigateRest ==
    ASSUME NEW m, NEW r, AtRest(m, r), r.activated = None, NEW page \in Pages,
           NEW commit \in CommitKinds
    PROVE  LET b == begin_navigation(m, page, commit) IN InvOf(b.v, r, b.fx)
<1> DEFINE n == begin_navigation(m, page, commit).v
           s == BegunScope(m, page)
           o == Owner(s, 1)
           L == Leaving(m, s.org)
           c == Fx("Connect", o, None)
           d == Fx("Fetch", o, page)
           f == L \o <<c, d>>
           t == <<>>
<1>1. begin_navigation(m, page, commit) = Ret(n, f)
  BY BeginIs
<1>2. t \in Seq(Effects) /\ AllPlain(t)
  BY NothingMore
<1>3. m.scope \in Scopes /\ m.gen \in Nat
  BY DEF AtRest, Sound, ModelType
<1>4. o \in Owners
  BY <1>3, ScopeParts, OwnerParts DEF BegunScope
<1>5. c \in Effects /\ d \in Effects
  BY <1>4, EffectOf DEF OwnedBare
<1>6. L \in Seq(Effects)
  BY <1>3, LeavingType
<1> HIDE DEF n, s, o, L, c, d
<1>7. f \in Seq(Effects)
  BY <1>5, <1>6
<1> HIDE DEF f, t
<1>8. begin_navigation(m, page, commit).fx = f /\ begin_navigation(m, page, commit).v = n
  BY <1>1, RetParts
<1>9. LET b == begin_navigation(m, page, commit) IN InvOf(b.v, r, b.fx \o t)
  BY <1>2, NavigateGood DEF AtRest
<1>10. InvOf(n, r, f \o <<>>)
  BY <1>8, <1>9 DEF t
<1>11. InvOf(n, r, f)
  BY <1>7, <1>10, Ended
<1> QED BY <1>8, <1>11

\* A form submitted at rest keeps the invariant.
LEMMA FormRest ==
    ASSUME NEW m, NEW r, AtRest(m, r), r.activated = None, NEW page \in Pages
    PROVE  LET b == FormSubmitted(m, page) IN InvOf(b.v, r, b.fx)
<1> DEFINE b == FormSubmitted(m, page)
           t == <<>>
<1>1. t \in Seq(Effects) /\ AllPlain(t)
  BY NothingMore
<1> HIDE DEF t
<1>2. b.fx \in Seq(Effects) /\ InvOf(b.v, r, b.fx \o t)
  BY <1>1, FormGood DEF AtRest
<1> HIDE DEF b
<1>3. InvOf(b.v, r, b.fx)
  BY <1>2, Ended DEF t
<1> QED BY <1>3 DEF b

\* A restore that starts at rest keeps the invariant.
LEMMA EntryRest ==
    ASSUME NEW m, NEW r, AtRest(m, r), r.activated = None, NEW i
    PROVE  LET b == activate_history_entry(m, i) IN InvOf(b.v, r, b.fx)
<1>1. CASE i \notin DOMAIN m.hist
  <2>1. activate_history_entry(m, i) = Ret(m, <<>>)
    BY <1>1 DEF activate_history_entry
  <2> QED BY <2>1, RestKeeps, RetParts
<1>2. CASE i \in DOMAIN m.hist
  <2> DEFINE b == activate_history_entry(m, i)
             t == <<>>
  <2>1. t \in Seq(Effects) /\ AllPlain(t)
    BY NothingMore
  <2> HIDE DEF t
  <2>2. b.fx \in Seq(Effects) /\ InvOf(b.v, r, b.fx \o t)
    BY <1>2, <2>1, ActivateGood DEF AtRest, Settled
  <2> HIDE DEF b
  <2>3. InvOf(b.v, r, b.fx)
    BY <2>2, Ended DEF t
  <2> QED BY <2>3 DEF b
<1> QED BY <1>1, <1>2

\* A request made at rest is the only one without a holder.
LEMMA RequestRest ==
    ASSUME NEW m, NEW r, AtRest(m, r), NEW n,
           Else(m, n, {"out", "nreq", "presize", "conn", "recon", "psubs"}),
           n.out \subseteq m.out \cup {m.nreq}, n.nreq \in {m.nreq, m.nreq + 1},
           m.nreq \in n.out => n.nreq = m.nreq + 1,
           n.conn \in Conns
    PROVE  /\ Sound(n, r) /\ Settled(n, r, {m.nreq}) /\ Drained(r)
           /\ r.arts = Ids(n.hist) /\ n.retry = None
           /\ Fresh(m) \in Owners /\ Fresh(m).req = m.nreq /\ Fresh(m).scope = n.scope
           /\ m.nreq \in n.out => Owns(n, Fresh(m))
           /\ m.nreq \notin n.out => Settled(n, r, {}) /\ AtRest(n, r)
<1>1. /\ n.phase = m.phase /\ n.scope = m.scope /\ n.uri = m.uri /\ n.hist = m.hist
      /\ n.pos = m.pos /\ n.pend = m.pend /\ n.retry = m.retry /\ DOMAIN n = ModelFields
  BY ElseParts
<1>2. Fresh(m) \in Owners /\ Fresh(m).req = m.nreq /\ Fresh(m).scope = n.scope
  BY <1>1, OwnerParts DEF AtRest, Fresh
<1>3. Accounted(n, r, {m.nreq}) /\ (m.nreq \notin n.out => Accounted(n, r, {}))
  BY DEF AtRest, Settled, Accounted
<1>4. Settled(n, r, {m.nreq}) /\ (m.nreq \notin n.out => Settled(n, r, {}))
  BY <1>1, <1>3 DEF AtRest, Settled, Cursor
<1>5. Sound(n, r)
  <2>1. Else(m, n, {"phase", "conn", "out", "psubs", "nreq", "recon", "pcommit",
                       "presize", "retry"})
    BY DEF Else
  <2>2. ElseR(r, r, RuntimeFields \ {"lost", "shifted"})
    BY ElseSelf DEF AtRest
  <2>3. n.phase # "ShuttingDown" /\ n.nreq \in Nat /\ n.out \subseteq Nat
    BY <1>1 DEF AtRest, Sound
  <2>4. \A k \in n.out : k < n.nreq
    BY DEF AtRest
  <2>5. r.live \subseteq r.live /\ r.kept \subseteq r.kept /\ r.trust \in Pages \cup {None}
        /\ (r.deferred # None => r.deferred.o \in Owners)
    BY DEF AtRest, Sound, RuntimeType
  <2>6. Sound(m, r)
    BY DEF AtRest
  <2> QED BY <2>1, <2>2, <2>3, <2>4, <2>5, <2>6, SoundThen
<1>6. Drained(r) /\ r.arts = Ids(n.hist) /\ n.retry = None
  BY <1>1 DEF AtRest
<1>7. m.nreq \in n.out => Owns(n, Fresh(m))
  BY <1>2 DEF Owns
<1>8. m.nreq \notin n.out => AtRest(n, r)
  BY <1>4, <1>5, <1>6, RestParts
<1> QED BY <1>2, <1>4, <1>5, <1>6, <1>7, <1>8

\* Dropping the resize in flight touches nothing else.
LEMMA StaleGone ==
    ASSUME NEW m, DOMAIN m = ModelFields, m.retry = None, NEW stale
    PROVE  LET n == [m EXCEPT !.out = @ \ stale,
                              !.retry = IF m.presize # None /\ @ # None
                                          /\ @.e = "PrepareResizeProjection"
                                          /\ @.o = m.presize
                                        THEN None ELSE @,
                              !.presize = None]
           IN Else(m, n, {"out", "presize"}) /\ n.out = m.out \ stale
<1> DEFINE n == [m EXCEPT !.out = @ \ stale,
                          !.retry = IF m.presize # None /\ @ # None
                                      /\ @.e = "PrepareResizeProjection"
                                      /\ @.o = m.presize
                                    THEN None ELSE @,
                          !.presize = None]
<1>1. DOMAIN n = ModelFields
  BY Zenon
<1>2. \A f \in ModelFields \ {"out", "presize", "retry"} : n[f] = m[f]
  BY Zenon
<1>3. n.out = m.out \ stale /\ n.retry = None
  BY SMT DEF ModelFields
<1> HIDE DEF n
<1>4. \A f \in ModelFields \ {"out", "presize"} : n[f] = m[f]
  <2>1. n["retry"] = m["retry"]
    BY <1>3
  <2>2. ASSUME NEW f \in ModelFields \ {"out", "presize"}, f # "retry" PROVE n[f] = m[f]
    BY <1>2, <2>2
  <2> QED BY <2>1, <2>2
<1>5. Else(m, n, {"out", "presize"})
  BY <1>1, <1>4 DEF Else
<1> QED BY <1>3, <1>5 DEF n

\* The model with a resize asked for.
WithResize(m, x) == [Request(m) EXCEPT !.presize = x]

\* The model with a reconnection asked for.
WithReconnect(m, x) == [Request(m) EXCEPT !.conn = "Connecting", !.recon = x]

\* The model with a subscription asked for.
WithPending(m, x) == [Request(m) EXCEPT !.psubs = @ \cup {x}]

\* What each request touches, field by field.
LEMMA RequestElse ==
    ASSUME NEW m, DOMAIN m = ModelFields, NEW x
    PROVE  /\ LET n == Request(m) IN
              /\ Else(m, n, {"out", "nreq"})
              /\ n.out = m.out \cup {m.nreq} /\ n.nreq = m.nreq + 1
           /\ LET n == WithResize(m, x) IN
              /\ Else(m, n, {"out", "nreq", "presize"})
              /\ n.out = m.out \cup {m.nreq} /\ n.nreq = m.nreq + 1 /\ n.presize = x
           /\ LET n == WithReconnect(m, x) IN
              /\ Else(m, n, {"out", "nreq", "conn", "recon"})
              /\ n.out = m.out \cup {m.nreq} /\ n.nreq = m.nreq + 1
              /\ n.conn = "Connecting" /\ n.recon = x
           /\ LET n == WithPending(m, x) IN
              /\ Else(m, n, {"out", "nreq", "psubs"})
              /\ n.out = m.out \cup {m.nreq} /\ n.nreq = m.nreq + 1
              /\ x \in n.psubs
<1> DEFINE k == Request(m)
           n1 == WithResize(m, x)
           n2 == WithReconnect(m, x)
           n3 == WithPending(m, x)
<1>1. DOMAIN k = ModelFields /\ \A f \in ModelFields \ {"out", "nreq"} : k[f] = m[f]
  BY Zenon DEF Request
<1>2. k.out = m.out \cup {m.nreq} /\ k.nreq = m.nreq + 1
  BY RequestFields
<1> HIDE DEF k
<1>3. n1 = [k EXCEPT !.presize = x] /\ n2 = [k EXCEPT !.conn = "Connecting", !.recon = x]
      /\ n3 = [k EXCEPT !.psubs = @ \cup {x}]
  BY DEF WithResize, WithReconnect, WithPending, k
<1> HIDE DEF n1, n2, n3
<1>4. DOMAIN n1 = ModelFields /\ \A f \in ModelFields \ {"presize"} : n1[f] = k[f]
  BY <1>1, <1>3, Zenon
<1>5. DOMAIN n2 = ModelFields /\ \A f \in ModelFields \ {"conn", "recon"} : n2[f] = k[f]
  BY <1>1, <1>3, Zenon
<1>6. DOMAIN n3 = ModelFields /\ \A f \in ModelFields \ {"psubs"} : n3[f] = k[f]
  BY <1>1, <1>3, Zenon
<1>7. n1.presize = x /\ n1.out = k.out /\ n1.nreq = k.nreq
  BY <1>1, <1>3, SMT DEF ModelFields
<1>8. n2.conn = "Connecting" /\ n2.recon = x /\ n2.out = k.out /\ n2.nreq = k.nreq
  BY <1>1, <1>3, SMT DEF ModelFields
<1>9. x \in n3.psubs /\ n3.out = k.out /\ n3.nreq = k.nreq
  BY <1>1, <1>3, SMT DEF ModelFields
<1>10. Else(m, k, {"out", "nreq"})
  BY <1>1 DEF Else
<1>11. Else(m, n1, {"out", "nreq", "presize"})
  BY <1>1, <1>4 DEF Else
<1>12. Else(m, n2, {"out", "nreq", "conn", "recon"})
  BY <1>1, <1>5 DEF Else
<1>13. Else(m, n3, {"out", "nreq", "psubs"})
  BY <1>1, <1>6 DEF Else
<1> QED BY <1>2, <1>7, <1>8, <1>9, <1>10, <1>11, <1>12, <1>13 DEF k, n1, n2, n3

\* The effect of the resize in flight.
ResizeKind(n, a) == a.e = "PrepareResizeProjection" /\ n.presize = a.o

\* An effect issued at rest with a request of its own keeps the invariant.
LEMMA AskedRest ==
    ASSUME NEW m, NEW r, AtRest(m, r), r.activated = None, NEW n,
           Else(m, n, {"out", "nreq", "presize", "conn", "recon", "psubs"}),
           n.out \subseteq m.out \cup {m.nreq}, m.nreq \in n.out, n.nreq = m.nreq + 1,
           n.conn \in Conns,
           NEW a \in Effects, a.o = Fresh(m),
           \/ a.e = "TickWasm"
           \/ a.e = "PrepareResizeProjection" /\ n.presize = a.o
           \/ a.e = "Connect" /\ n.recon = m.nreq
           \/ a.e = "Subscribe" /\ <<m.nreq, a.x>> \in n.psubs
           \/ a.e = "DeferNavigation" /\ r.proposal = m.scope.gen /\ r.deferred = None
    PROVE  InvOf(n, r, <<a>>)
<1>1. /\ Sound(n, r) /\ Settled(n, r, {m.nreq}) /\ Drained(r)
      /\ r.arts = Ids(n.hist) /\ n.retry = None
      /\ Fresh(m).req = m.nreq /\ Owns(n, Fresh(m))
  BY RequestRest
<1>2. n.scope = m.scope
  BY ElseParts
<1>3. SoloOK(n, r, a)
  BY <1>1, <1>2 DEF SoloOK
<1> QED BY <1>1, <1>3, OneKeeps DEF OneOK

\* The effects of a fresh request are effects.
LEMMA FreshEffects ==
    ASSUME NEW m, NEW r, AtRest(m, r)
    PROVE  /\ \A e \in OwnedBare : /\ Fx(e, Fresh(m), None) \in Effects
                                   /\ Fx(e, Fresh(m), None).e = e
                                   /\ Fx(e, Fresh(m), None).o = Fresh(m)
           /\ \A x \in Regions : /\ Fx("Subscribe", Fresh(m), x) \in Effects
                                 /\ Fx("Subscribe", Fresh(m), x).e = "Subscribe"
                                 /\ Fx("Subscribe", Fresh(m), x).o = Fresh(m)
                                 /\ Fx("Subscribe", Fresh(m), x).x = x
<1>1. Fresh(m) \in Owners
  BY OwnerParts DEF AtRest, Fresh
<1> QED BY <1>1, EffectOf, FxParts

\* A resize at rest keeps the invariant.
LEMMA ResizeRest ==
    ASSUME NEW m, NEW r, AtRest(m, r), r.activated = None
    PROVE  LET b == Resize(m) IN InvOf(b.v, r, b.fx)
<1> DEFINE stale == IF m.presize = None THEN {} ELSE {m.presize.req}
           k == [m EXCEPT !.out = @ \ stale,
                          !.retry = IF m.presize # None /\ @ # None
                                      /\ @.e = "PrepareResizeProjection"
                                      /\ @.o = m.presize
                                    THEN None ELSE @,
                          !.presize = None]
           o == Fresh(k)
           n == WithResize(k, o)
           a == Fx("PrepareResizeProjection", o, None)
<1>1. m.scope # None
  BY NoneAssumption DEF AtRest
<1>2. Resize(m) = Ret(k, <<>>) \/ Resize(m) = Ret(n, <<a>>)
  BY <1>1 DEF Resize, WithResize
<1> HIDE DEF stale
<1>3. Else(m, k, {"out", "presize"}) /\ k.out = m.out \ stale
  BY StaleGone DEF AtRest
<1> HIDE DEF k
<1>4. /\ k.scope = m.scope /\ k.nreq = m.nreq /\ k.conn = m.conn /\ DOMAIN k = ModelFields
  BY <1>3, ElseParts
<1>5. o = Fresh(m)
  BY <1>4 DEF Fresh
<1>6. CASE Resize(m) = Ret(k, <<>>)
  <2>1. Else(m, k, {"out", "nreq", "presize", "conn", "recon", "psubs"})
    BY <1>3 DEF Else
  <2>2. m.nreq \notin k.out /\ k.out \subseteq m.out \cup {m.nreq} /\ k.conn \in Conns
        /\ k.nreq \in {m.nreq, m.nreq + 1}
    BY <1>3, <1>4 DEF AtRest
  <2>3. AtRest(k, r)
    BY <2>1, <2>2, RequestRest
  <2> QED BY <1>6, <2>3, RestKeeps, RetParts
<1>7. CASE Resize(m) = Ret(n, <<a>>)
  <2>1. /\ Else(k, n, {"out", "nreq", "presize"})
        /\ n.out = k.out \cup {k.nreq} /\ n.nreq = k.nreq + 1 /\ n.presize = o
    BY <1>4, RequestElse
  <2>2. a \in Effects /\ a.e = "PrepareResizeProjection" /\ a.o = Fresh(m)
    BY <1>5, FreshEffects DEF OwnedBare
  <2> HIDE DEF n, a, o
  <2>3. Else(m, n, {"out", "nreq", "presize", "conn", "recon", "psubs"})
    BY <1>3, <2>1 DEF Else
  <2>4. /\ n.out \subseteq m.out \cup {m.nreq} /\ m.nreq \in n.out /\ n.nreq = m.nreq + 1
    BY <1>3, <1>4, <2>1
  <2>5. n.conn \in Conns
    BY <1>4, <2>1, ElseParts DEF AtRest
  <2>6. a.e = "PrepareResizeProjection" /\ n.presize = a.o
    BY <1>5, <2>1, <2>2
  <2>7. InvOf(n, r, <<a>>)
    BY <2>2, <2>3, <2>4, <2>5, <2>6, AskedRest
  <2> QED BY <1>7, <2>7, RetParts
<1> QED BY <1>2, <1>6, <1>7

\* A timer at rest keeps the invariant.
LEMMA TimerRest ==
    ASSUME NEW m, NEW r, AtRest(m, r), r.activated = None
    PROVE  LET b == Timer(m) IN InvOf(b.v, r, b.fx)
<1> DEFINE n == Request(m)
           a == Fx("TickWasm", Fresh(m), None)
<1>1. Timer(m) = Ret(m, <<>>) \/ Timer(m) = Ret(n, <<a>>)
  BY DEF Timer
<1>2. a \in Effects /\ a.e = "TickWasm" /\ a.o = Fresh(m)
  BY FreshEffects DEF OwnedBare
<1>3. /\ Else(m, n, {"out", "nreq"})
      /\ n.out = m.out \cup {m.nreq} /\ n.nreq = m.nreq + 1
  BY RequestElse DEF AtRest
<1> HIDE DEF n, a
<1>4. Else(m, n, {"out", "nreq", "presize", "conn", "recon", "psubs"})
  BY <1>3 DEF Else
<1>5. n.conn \in Conns
  BY <1>3, ElseParts DEF AtRest
<1>6. InvOf(n, r, <<a>>)
  BY <1>2, <1>3, <1>4, <1>5, AskedRest
<1> QED BY <1>1, <1>6, RestKeeps, RetParts

\* A lost connection at rest keeps the invariant.
LEMMA LostRest ==
    ASSUME NEW m, NEW r, AtRest(m, r), r.activated = None, NEW org
    PROVE  LET b == TransportLost(m, org) IN InvOf(b.v, r, b.fx)
<1> DEFINE n == WithReconnect(m, m.nreq)
           a == Fx("Connect", Fresh(m), None)
<1>1. TransportLost(m, org) = Ret(m, <<>>) \/ TransportLost(m, org) = Ret(n, <<a>>)
  BY DEF TransportLost, WithReconnect
<1>2. a \in Effects /\ a.e = "Connect" /\ a.o = Fresh(m)
  BY FreshEffects DEF OwnedBare
<1>3. /\ Else(m, n, {"out", "nreq", "conn", "recon"})
      /\ n.out = m.out \cup {m.nreq} /\ n.nreq = m.nreq + 1
      /\ n.conn = "Connecting" /\ n.recon = m.nreq
  BY RequestElse DEF AtRest
<1> HIDE DEF n, a
<1>4. Else(m, n, {"out", "nreq", "presize", "conn", "recon", "psubs"})
  BY <1>3 DEF Else
<1>5. n.conn \in Conns
  BY <1>3 DEF Conns
<1>6. InvOf(n, r, <<a>>)
  BY <1>2, <1>3, <1>4, <1>5, AskedRest
<1> QED BY <1>1, <1>6, RestKeeps, RetParts

\* A subscription asked for at rest keeps the invariant.
LEMMA SubscribeRest ==
    ASSUME NEW m, NEW r, AtRest(m, r), r.activated = None, NEW region \in Regions
    PROVE  LET b == SubscribeRequested(m, region) IN InvOf(b.v, r, b.fx)
<1> DEFINE x == <<m.nreq, region>>
           n == WithPending(m, x)
           a == Fx("Subscribe", Fresh(m), region)
<1>1. SubscribeRequested(m, region) = Ret(m, <<>>)
      \/ SubscribeRequested(m, region) = Ret(n, <<a>>)
  BY DEF SubscribeRequested, WithPending
<1>2. a \in Effects /\ a.e = "Subscribe" /\ a.o = Fresh(m) /\ a.x = region
  BY FreshEffects
<1>3. /\ Else(m, n, {"out", "nreq", "psubs"})
      /\ n.out = m.out \cup {m.nreq} /\ n.nreq = m.nreq + 1
      /\ x \in n.psubs
  <2> HIDE DEF x
  <2> QED BY RequestElse DEF AtRest
<1> HIDE DEF n, a
<1>4. Else(m, n, {"out", "nreq", "presize", "conn", "recon", "psubs"})
  BY <1>3 DEF Else
<1>5. n.conn \in Conns
  BY <1>3, ElseParts DEF AtRest
<1>6. InvOf(n, r, <<a>>)
  BY <1>2, <1>3, <1>4, <1>5, AskedRest
<1> QED BY <1>1, <1>6, RestKeeps, RetParts

\* A link that has to wait keeps the invariant.
LEMMA DeferRest ==
    ASSUME NEW m, NEW r, AtRest(m, r), r.activated = None,
           r.proposal = m.scope.gen, r.deferred = None
    PROVE  LET b == DeferredNavigationRequested(m) IN InvOf(b.v, r, b.fx)
<1> DEFINE n == Request(m)
           a == Fx("DeferNavigation", Fresh(m), None)
<1>1. DeferredNavigationRequested(m) = Ret(m, <<>>)
      \/ DeferredNavigationRequested(m) = Ret(n, <<a>>)
  BY DEF DeferredNavigationRequested
<1>2. a \in Effects /\ a.e = "DeferNavigation" /\ a.o = Fresh(m)
  BY FreshEffects DEF OwnedBare
<1>3. /\ Else(m, n, {"out", "nreq"})
      /\ n.out = m.out \cup {m.nreq} /\ n.nreq = m.nreq + 1
  BY RequestElse DEF AtRest
<1> HIDE DEF n, a
<1>4. Else(m, n, {"out", "nreq", "presize", "conn", "recon", "psubs"})
  BY <1>3 DEF Else
<1>5. n.conn \in Conns
  BY <1>3, ElseParts DEF AtRest
<1>6. InvOf(n, r, <<a>>)
  BY <1>2, <1>3, <1>4, <1>5, AskedRest
<1> QED BY <1>1, <1>6, RestKeeps, RetParts

\* An update or an action issued at rest keeps the invariant.
LEMMA PlainOf ==
    ASSUME NEW m, NEW r, AtRest(m, r), NEW a \in Effects,
           a.e \in {"ApplyUpdate", "ApplyPresentationAction"}
    PROVE  InvOf(m, r, <<a>>)
<1>1. SoloOK(m, r, a)
  BY DEF AtRest, SoloOK
<1> QED BY <1>1, OneKeeps DEF AtRest, OneOK

\* A live update that arrives keeps the invariant, owned or not.
LEMMA UpdateRest ==
    ASSUME NEW m, NEW r, AtRest(m, r), NEW o \in Owners, NEW region \in Regions
    PROVE  LET b == LiveUpdate(m, o, region) IN InvOf(b.v, r, b.fx)
<1> DEFINE a == Fx("ApplyUpdate", o, region)
<1>1. LiveUpdate(m, o, region) = Ret(m, <<>>) \/ LiveUpdate(m, o, region) = Ret(m, <<a>>)
  BY DEF LiveUpdate
<1>2. a \in Effects /\ a.e = "ApplyUpdate"
  BY EffectOf, FxParts
<1> HIDE DEF a
<1>3. InvOf(m, r, <<a>>)
  BY <1>2, PlainOf
<1> QED BY <1>1, <1>3, RestKeeps, RetParts

\* A presentation action keeps the invariant.
LEMMA ActionRest ==
    ASSUME NEW m, NEW r, AtRest(m, r), NEW x \in [scope : Scopes, local : BOOLEAN]
    PROVE  InvOf(m, r, <<Fx("ApplyPresentationAction", None, x)>>)
<1> DEFINE a == Fx("ApplyPresentationAction", None, x)
<1>2. a \in Effects /\ a.e = "ApplyPresentationAction"
  BY EffectOf, FxParts
<1> HIDE DEF a
<1>3. InvOf(m, r, <<a>>)
  BY <1>2, PlainOf
<1> QED BY <1>3 DEF a

\* A link whose animation ended keeps the invariant.
LEMMA FinishRest ==
    ASSUME NEW m, NEW r, AtRest(m, r), r.resumed = None, NEW o \in Owners
    PROVE  LET b == DeferredNavigationCompleted(m, o) IN InvOf(b.v, r, b.fx)
<1> DEFINE n == Drop(m, o)
           a == Fx("ResumeNavigation", o, None)
<1>1. DeferredNavigationCompleted(m, o) = Ret(m, <<>>)
      \/ DeferredNavigationCompleted(m, o) = Ret(n, <<a>>)
  BY DEF DeferredNavigationCompleted
<1>2. a \in Effects /\ a.e = "ResumeNavigation" /\ a.o = o
  BY EffectOf, FxParts DEF OwnedBare
<1>3. Else(m, n, {"out"}) /\ n.out = m.out \ {o.req}
  BY DropFields DEF AtRest
<1> HIDE DEF n, a
<1>4. Else(m, n, {"out", "nreq", "presize", "conn", "recon", "psubs"})
  BY <1>3 DEF Else
<1>5. n.conn \in Conns /\ n.nreq = m.nreq
  BY <1>3, ElseParts DEF AtRest
<1>6. m.nreq \notin n.out
  BY <1>3 DEF AtRest
<1>7. AtRest(n, r)
  BY <1>3, <1>4, <1>5, <1>6, RequestRest
<1>8. SoloOK(n, r, a)
  BY <1>2, <1>3, <1>7 DEF AtRest, SoloOK
<1>9. InvOf(n, r, <<a>>)
  BY <1>2, <1>7, <1>8, OneKeeps DEF AtRest, OneOK
<1> QED BY <1>1, <1>9, RestKeeps, RetParts

\* The runtime that forgot the link that waited.
Forgotten(r) == [r EXCEPT !.deferred = None, !.lost = @ \cup {r.deferred.o}]

\* Forgetting it keeps the invariant: its request stays outstanding and is
\* remembered as lost.
LEMMA ForgetRest ==
    ASSUME NEW m, NEW r, AtRest(m, r)
    PROVE  InvOf(m, Forgotten(r), <<>>)
<1> DEFINE s == Forgotten(r)
<1>1. DOMAIN s = RuntimeFields /\ \A f \in RuntimeFields \ {"deferred", "lost"} : s[f] = r[f]
  BY Zenon DEF AtRest, Forgotten
<1>2. s.deferred = None /\ s.lost = r.lost \cup {r.deferred.o}
  BY SMT DEF AtRest, RuntimeFields, Forgotten
<1> HIDE DEF s
<1>3. ElseR(r, s, {"deferred", "lost"})
  BY <1>1 DEF ElseR
<1>4. /\ s.shown = r.shown /\ s.fetched = r.fetched /\ s.parsed = r.parsed /\ s.nav = r.nav
      /\ s.layout = r.layout /\ s.artifact = r.artifact /\ s.batch = r.batch
      /\ s.pwasm = r.pwasm
      /\ s.arts = r.arts /\ s.live = r.live /\ s.kept = r.kept /\ s.shifted = r.shifted
      /\ s.trust = r.trust
      /\ DOMAIN s = RuntimeFields
  BY <1>3, ElseRParts
<1>5. Settled(m, s, {})
  BY <1>2, <1>4 DEF AtRest, Settled, Cursor, Accounted
<1>6. Drained(s)
  BY <1>4 DEF AtRest, Drained, NoPage, NoFrame
<1>7. RuntimeType(s)
  BY <1>2, <1>4 DEF AtRest, Sound, RuntimeType
<1>8. Sound(m, s)
  BY <1>4, <1>7 DEF AtRest, Sound, LiveShown
<1>9. AtRest(m, s)
  BY <1>4, <1>5, <1>6, <1>8 DEF AtRest
<1> QED BY <1>9, RestKeeps DEF s

\* Dropping the subscriptions at rest leaves the viewer at rest.
LEMMA SilentRest ==
    ASSUME NEW m, NEW r, AtRest(m, r), NEW n, Else(m, n, {"subs", "psubs", "out", "retry"}),
           n.out \subseteq m.out, n.retry = None
    PROVE  AtRest(n, UnsubscribeTimesOut(r))
<1> DEFINE s == UnsubscribeTimesOut(r)
<1>1. ElseR(r, s, {"live", "kept"}) /\ s.live = {} /\ s.kept = r.kept \cup r.live
  BY DroppedFields DEF AtRest, Sound, RuntimeType
<1> HIDE DEF s
<1>2. /\ s.shown = r.shown /\ s.fetched = r.fetched /\ s.parsed = r.parsed /\ s.nav = r.nav
      /\ s.layout = r.layout /\ s.artifact = r.artifact /\ s.batch = r.batch
      /\ s.pwasm = r.pwasm /\ s.deferred = r.deferred /\ s.lost = r.lost
      /\ s.arts = r.arts /\ s.shifted = r.shifted /\ s.trust = r.trust
      /\ DOMAIN s = RuntimeFields
  BY <1>1, ElseRParts
<1>3. /\ n.phase = m.phase /\ n.scope = m.scope /\ n.uri = m.uri /\ n.hist = m.hist
      /\ n.pos = m.pos /\ n.pend = m.pend /\ n.conn = m.conn /\ n.gen = m.gen
      /\ n.nreq = m.nreq /\ n.nhid = m.nhid /\ n.commit = m.commit /\ DOMAIN n = ModelFields
  BY ElseParts
<1>4. Settled(n, s, {})
  BY <1>2, <1>3 DEF AtRest, Settled, Cursor, Accounted
<1>5. Drained(s)
  BY <1>2 DEF AtRest, Drained, NoPage, NoFrame
<1>6. ModelType(n) /\ \A k \in n.out : k < n.nreq
  BY <1>3 DEF AtRest, Sound, ModelType
<1>7. RuntimeType(s)
  BY <1>1, <1>2 DEF AtRest, Sound, RuntimeType
<1>8. Sound(n, s)
  BY <1>1, <1>3, <1>6, <1>7 DEF AtRest, Sound, LiveShown
<1> QED BY <1>2, <1>3, <1>4, <1>5, <1>8, RestParts DEF AtRest, s

\* Their retirement in front of a good queue keeps the invariant.
LEMMA RetiringKeeps ==
    ASSUME NEW m, NEW r, NEW s \in Scopes, s = m.scope, m.retry = None,
           NEW w, Good(m, UnsubscribeTimesOut(r), w)
    PROVE  InvOf(m, r, <<Fx("RetireSubscriptions", None, s)>> \o w)
<1> DEFINE a == Fx("RetireSubscriptions", None, s)
           f == <<a>> \o w
<1>1. a \in Effects /\ a.e = "RetireSubscriptions" /\ a.x = s
  BY EffectOf, FxParts
<1> HIDE DEF a
<1>2. w \in Seq(Effects)
  BY DEF Good
<1>3. f \in Seq(Effects) /\ f # <<>> /\ Head(f) = a /\ Tail(f) = w
  BY <1>1, <1>2, Cons
<1> HIDE DEF f
<1>4. RetiringSubs(m, r, f)
  BY <1>1, <1>3 DEF RetiringSubs
<1>5. InvOf(m, r, f)
  BY <1>3, <1>4 DEF InvOf
<1> QED BY <1>5 DEF f, a

\* The model without its subscriptions.
Deaf(m) == [m EXCEPT !.subs = {}, !.psubs = {}, !.out = @ \ {s[1] : s \in m.psubs}]

\* It touches nothing else.
LEMMA DeafFields ==
    ASSUME NEW m, DOMAIN m = ModelFields
    PROVE  Else(m, Deaf(m), {"subs", "psubs", "out"}) /\ Deaf(m).out \subseteq m.out
<1>1. DOMAIN Deaf(m) = ModelFields
  BY Zenon DEF Deaf
<1>2. \A f \in ModelFields \ {"subs", "psubs", "out"} : Deaf(m)[f] = m[f]
  BY Zenon DEF Deaf
<1>3. Deaf(m).out = m.out \ {s[1] : s \in m.psubs}
  BY SMT DEF ModelFields, Deaf
<1> QED BY <1>1, <1>2, <1>3 DEF Else

\* Retiring the subscriptions at rest keeps the invariant.
LEMMA RetiredRest ==
    ASSUME NEW m, NEW r, AtRest(m, r)
    PROVE  LET b == SubscriptionsRetired(m) IN InvOf(b.v, r, b.fx)
<1> DEFINE n == Deaf(m)
           a == Fx("RetireSubscriptions", None, m.scope)
           t == <<>>
           f == <<a>>
<1>1. m.scope # None
  BY NoneAssumption DEF AtRest
<1>2. SubscriptionsRetired(m) = Ret(n, <<a>>)
  BY <1>1 DEF SubscriptionsRetired, Deaf
<1>3. Else(m, n, {"subs", "psubs", "out"}) /\ n.out \subseteq m.out
  BY DeafFields DEF AtRest
<1> HIDE DEF n
<1>4. n.retry = None /\ n.scope = m.scope
  BY <1>3, ElseParts DEF AtRest
<1>5. Else(m, n, {"subs", "psubs", "out", "retry"})
  BY <1>3 DEF Else
<1>6. AtRest(n, UnsubscribeTimesOut(r))
  BY <1>3, <1>4, <1>5, SilentRest
<1>7. Good(n, UnsubscribeTimesOut(r), t)
  BY <1>6, GoodEmpty DEF AtRest
<1>8. m.scope \in Scopes /\ a \in Effects
  BY EffectOf DEF AtRest
<1> HIDE DEF t
<1>9. InvOf(n, r, <<a>> \o t)
  BY <1>4, <1>7, <1>8, RetiringKeeps
<1>10. f \in Seq(Effects)
  BY <1>8
<1> HIDE DEF a, f
<1>11. InvOf(n, r, f \o <<>>)
  BY <1>9 DEF f, t
<1>12. InvOf(n, r, f)
  BY <1>10, <1>11, Ended
<1> QED BY <1>2, <1>12, RetParts DEF f

\* A frame that runs out of memory keeps the invariant: the subscriptions
\* go, then room is made.
LEMMA PresentRest ==
    ASSUME NEW m, NEW r, AtRest(m, r)
    PROVE  LET r1 == SubscriptionsRetired(m)
               r2 == PresentationFailed(r1.v, None)
           IN InvOf(r2.v, r, r1.fx \o r2.fx)
<1> DEFINE k == Deaf(m)
           n == [k EXCEPT !.retry = None]
           a == Fx("RetireSubscriptions", None, m.scope)
           c == Fx("EvictResource", None, None)
           f == <<c>>
<1>1. m.scope # None
  BY NoneAssumption DEF AtRest
<1>2. SubscriptionsRetired(m) = Ret(k, <<a>>)
  BY <1>1 DEF SubscriptionsRetired, Deaf
<1>3. Else(m, k, {"subs", "psubs", "out"}) /\ k.out \subseteq m.out
  BY DeafFields DEF AtRest
<1> HIDE DEF k
<1>4. PresentationFailed(k, None) = Ret(n, <<c>>)
  BY DEF PresentationFailed
<1>5. Else(k, n, Unseen) /\ n.retry = None
  BY <1>3, RetryFields DEF Else
<1> HIDE DEF n
<1>6. n.scope = m.scope /\ n.out \subseteq m.out
  <2>1. n.scope = k.scope /\ n.out = k.out
    BY <1>5, ElseParts DEF Unseen
  <2>2. k.scope = m.scope
    BY <1>3, ElseParts
  <2> QED BY <1>3, <2>1, <2>2
<1>7. Else(m, n, {"subs", "psubs", "out", "retry"})
  BY <1>3, <1>5 DEF Else, Unseen
<1>8. AtRest(n, UnsubscribeTimesOut(r))
  BY <1>5, <1>6, <1>7, SilentRest
<1>9. c \in Effects /\ c.e = "EvictResource" /\ m.scope \in Scopes
  BY EffectOf, FxParts DEF Bare, AtRest
<1> HIDE DEF c
<1>10. SoloOK(n, UnsubscribeTimesOut(r), c) /\ c.e # "ReleaseHistoryArtifact"
       /\ UnsubscribeTimesOut(r).arts = Ids(n.hist) \ InstalledBy(c)
  BY <1>8, <1>9 DEF AtRest, SoloOK, InstalledBy
<1>11. Good(n, UnsubscribeTimesOut(r), f)
  BY <1>8, <1>9, <1>10, GoodSingle DEF AtRest, OneOK
<1> HIDE DEF f
<1>12. InvOf(n, r, <<a>> \o f)
  BY <1>5, <1>6, <1>9, <1>11, RetiringKeeps
<1> QED BY <1>2, <1>4, <1>12, RetParts DEF f

\* Quitting keeps the invariant.
LEMMA QuitRest ==
    ASSUME NEW m, NEW r
    PROVE  LET b == Shutdown(m) IN DOMAIN m = ModelFields => InvOf(b.v, r, b.fx)
<1> DEFINE n == [m EXCEPT !.phase = "ShuttingDown", !.subs = {}, !.psubs = {},
                  !.out = {}, !.recon = None]
           a == Fx("Close", None, None)
           c == Fx("RestoreTerminal", None, None)
           f == <<a, c>>
<1> SUFFICES ASSUME DOMAIN m = ModelFields PROVE InvOf(Shutdown(m).v, r, Shutdown(m).fx)
  OBVIOUS
<1>1. Shutdown(m) = Ret(n, <<a, c>>)
  BY DEF Shutdown
<1>2. n.phase = "ShuttingDown"
  BY SMT DEF ModelFields
<1>3. a \in Effects /\ c \in Effects /\ a.e = "Close" /\ c.e = "RestoreTerminal"
  BY EffectOf, FxParts DEF Bare
<1> HIDE DEF n, a, c
<1>4. f \in Seq(Effects) /\ DOMAIN f = {1, 2} /\ f[1] = a /\ f[2] = c
  BY <1>3
<1> HIDE DEF f
<1>5. AllTrivial(f)
  BY <1>3, <1>4 DEF AllTrivial, Trivial, Plain
<1>6. InvOf(n, r, f)
  BY <1>2, <1>4, <1>5 DEF InvOf, Closing
<1> QED BY <1>1, <1>6, RetParts DEF f

\* What happens outside the loop finds the viewer at rest.
LEMMA OutsideRest ==
    ASSUME Inv, NEW kind, Outside(kind)
    PROVE  AtRest(v, rt) /\ rt.activated = None
  BY QuietRest DEF Outside

\* What the main loop does between two events keeps the invariant.
LEMMA FollowUpKeeps == ASSUME Inv, FollowUp PROVE Inv'
<1>1. CASE TakeActivated
  <2>1. AtRest(v, Taken(rt))
    BY <1>1, QuietRest, LoopFields DEF TakeActivated
  <2>2. LET b == SubscriptionsRetired(v) IN InvOf(b.v, Taken(rt), b.fx)
    BY <2>1, RetiredRest
  <2> QED BY <1>1, <2>2 DEF TakeActivated, Enqueue, Taken, Inv
<1>2. CASE RetryAfterTrust
  <2>1. AtRest(v, Untrusted(rt)) /\ Untrusted(rt).activated = None /\ rt.trust \in Pages
    <3>1. AtRest(v, rt)
      BY <1>2, QuietRest DEF RetryAfterTrust
    <3> QED BY <1>2, <3>1, LoopFields DEF RetryAfterTrust, AtRest, Sound, RuntimeType
  <2>2. LET b == begin_navigation(v, rt.trust, "Append") IN InvOf(b.v, Untrusted(rt), b.fx)
    BY <2>1, NavigateRest DEF CommitKinds
  <2> QED BY <1>2, <2>2 DEF RetryAfterTrust, Enqueue, Untrusted, Navigate, Inv
<1>3. CASE FollowResumed
  <2>1. AtRest(v, Followed(rt)) /\ Followed(rt).activated = None
    BY <1>3, QuietRest, LoopFields DEF FollowResumed
  <2>2. PICK p \in Pages : Enqueue(Navigate(v, p), Followed(rt))
    BY <1>3 DEF FollowResumed, Followed
  <2>3. LET b == begin_navigation(v, p, "Append") IN InvOf(b.v, Followed(rt), b.fx)
    BY <2>1, NavigateRest DEF CommitKinds
  <2> QED BY <2>2, <2>3 DEF Enqueue, Navigate, Inv
<1> QED BY <1>1, <1>2, <1>3 DEF FollowUp

\* A link, a form or a reload keeps the invariant.
LEMMA OpenKeeps == ASSUME Inv, OpenLink \/ SubmitForm \/ ReloadPage PROVE Inv'
<1>1. AtRest(v, rt) /\ rt.activated = None
  BY OutsideRest DEF OpenLink, SubmitForm, ReloadPage
<1>2. CASE OpenLink
  <2>1. PICK p \in Pages : Enqueue(Navigate(v, p), rt)
    BY <1>2 DEF OpenLink
  <2>2. LET b == begin_navigation(v, p, "Append") IN InvOf(b.v, rt, b.fx)
    BY <1>1, NavigateRest DEF CommitKinds
  <2> QED BY <2>1, <2>2 DEF Enqueue, Navigate, Inv
<1>3. CASE SubmitForm
  <2>1. PICK p \in Pages : Enqueue(FormSubmitted(v, p), rt)
    BY <1>3 DEF SubmitForm
  <2>2. LET b == FormSubmitted(v, p) IN InvOf(b.v, rt, b.fx)
    BY <1>1, FormRest
  <2> QED BY <2>1, <2>2 DEF Enqueue, Inv
<1>4. CASE ReloadPage
  <2>1. Enqueue(Reload(v), rt)
    BY <1>4 DEF ReloadPage
  <2>2. v.uri \in Pages
    BY <1>1 DEF AtRest, Sound, ModelType
  <2>3. LET b == begin_navigation(v, v.uri, "ReplaceCurrent") IN InvOf(b.v, rt, b.fx)
    BY <1>1, <2>2, NavigateRest DEF CommitKinds
  <2>4. Reload(v) = Ret(v, <<>>) \/ Reload(v) = begin_navigation(v, v.uri, "ReplaceCurrent")
    BY DEF Reload
  <2>5. LET b == Reload(v) IN InvOf(b.v, rt, b.fx)
    BY <1>1, <2>3, <2>4, RestKeeps, RetParts
  <2> QED BY <2>1, <2>5 DEF Enqueue, Inv
<1> QED BY <1>2, <1>3, <1>4

\* Moving in the history keeps the invariant.
LEMMA MoveKeeps == ASSUME Inv, GoBack \/ GoForward \/ JumpHistory PROVE Inv'
<1>1. AtRest(v, rt) /\ rt.activated = None
  BY OutsideRest DEF GoBack, GoForward, JumpHistory
<1>2. \A i : LET b == activate_history_entry(v, i) IN InvOf(b.v, rt, b.fx)
  BY <1>1, EntryRest
<1>3. LET b == Ret(v, <<>>) IN InvOf(b.v, rt, b.fx)
  BY <1>1, RestKeeps, RetParts
<1>4. PICK b : /\ Enqueue(b, rt)
               /\ b = Ret(v, <<>>) \/ \E i : b = activate_history_entry(v, i)
  <2>1. /\ RestoreCurrentEntry(v) = Ret(v, <<>>)
           \/ \E i : RestoreCurrentEntry(v) = activate_history_entry(v, i)
        /\ Back(v) = Ret(v, <<>>) \/ \E i : Back(v) = activate_history_entry(v, i)
        /\ Forward(v) = Ret(v, <<>>) \/ \E i : Forward(v) = activate_history_entry(v, i)
        /\ \A j : \/ JumpToHistory(v, j) = Ret(v, <<>>)
                  \/ \E i : JumpToHistory(v, j) = activate_history_entry(v, i)
    BY DEF RestoreCurrentEntry, Back, Forward, JumpToHistory, activate_history
  <2> QED BY <2>1 DEF GoBack, GoForward, JumpHistory
<1>5. InvOf(b.v, rt, b.fx)
  BY <1>2, <1>3, <1>4
<1> QED BY <1>4, <1>5 DEF Enqueue, Inv

\* A resize, a timer, a lost connection, a subscription or an update keeps
\* the invariant.
LEMMA AskKeeps ==
    ASSUME Inv, ResizeTerminal \/ Tick \/ LoseTransport \/ SubscribeRegion \/ ReceiveUpdate
    PROVE  Inv'
<1>1. AtRest(v, rt) /\ rt.activated = None
  BY OutsideRest DEF ResizeTerminal, Tick, LoseTransport, SubscribeRegion, ReceiveUpdate
<1>2. CASE ResizeTerminal
  <2>1. LET b == Resize(v) IN InvOf(b.v, rt, b.fx)
    BY <1>1, ResizeRest
  <2> QED BY <1>2, <2>1 DEF ResizeTerminal, Enqueue, Inv
<1>3. CASE Tick
  <2>1. LET b == Timer(v) IN InvOf(b.v, rt, b.fx)
    BY <1>1, TimerRest
  <2> QED BY <1>3, <2>1 DEF Tick, Enqueue, Inv
<1>4. CASE LoseTransport
  <2>1. LET b == TransportLost(v, rt.cs.org) IN InvOf(b.v, rt, b.fx)
    BY <1>1, LostRest
  <2> QED BY <1>4, <2>1 DEF LoseTransport, Enqueue, Inv
<1>5. CASE SubscribeRegion
  <2>1. LET b == SubscribeRequested(v, "region") IN InvOf(b.v, rt, b.fx)
    BY <1>1, SubscribeRest DEF Regions
  <2> QED BY <1>5, <2>1 DEF SubscribeRegion, Enqueue, Inv
<1>6. CASE ReceiveUpdate
  <2>1. PICK s \in rt.live \cup rt.kept : Enqueue(LiveUpdate(v, s[1], s[2]), rt)
    BY <1>6 DEF ReceiveUpdate
  <2>2. s[1] \in Owners /\ s[2] \in Regions
    BY <1>1 DEF AtRest, Sound, RuntimeType
  <2>3. LET b == LiveUpdate(v, s[1], s[2]) IN InvOf(b.v, rt, b.fx)
    BY <1>1, <2>2, UpdateRest
  <2> QED BY <2>1, <2>3 DEF Enqueue, Inv
<1> QED BY <1>2, <1>3, <1>4, <1>5, <1>6

\* So does every other event.
LEMMA OtherKeeps ==
    ASSUME Inv, \/ Resubscribe \/ DeferLink \/ FinishDeferred \/ ForgetDeferred
                \/ PresentFrame \/ PresentationActionRequested \/ Quit
    PROVE  Inv'
<1>1. AtRest(v, rt) /\ rt.activated = None
  BY OutsideRest DEF Resubscribe, DeferLink, FinishDeferred, ForgetDeferred, PresentFrame,
     PresentationActionRequested, Quit
<1>2. CASE Resubscribe
  <2>1. LET b == SubscriptionsRetired(v) IN InvOf(b.v, rt, b.fx)
    BY <1>1, RetiredRest
  <2> QED BY <1>2, <2>1 DEF Resubscribe, Enqueue, Inv
<1>3. CASE DeferLink
  <2> DEFINE s == Proposed(rt, v.scope.gen)
  <2>1. rt.deferred = None /\ Enqueue(DeferredNavigationRequested(v), s)
    BY <1>3 DEF DeferLink, Proposed
  <2>2. AtRest(v, s) /\ s.deferred = None /\ s.proposal = v.scope.gen
    BY <1>1, <2>1, LoopFields
  <2>3. s.activated = None
    BY <1>1 DEF AtRest, Proposed, RuntimeFields
  <2> HIDE DEF s
  <2>4. LET b == DeferredNavigationRequested(v) IN InvOf(b.v, s, b.fx)
    BY <2>2, <2>3, DeferRest
  <2> QED BY <2>1, <2>4 DEF Enqueue, Inv
<1>4. CASE FinishDeferred
  <2>1. rt.deferred # None /\ Enqueue(DeferredNavigationCompleted(v, rt.deferred.o), rt)
    BY <1>4 DEF FinishDeferred, InScope
  <2>2. rt.deferred.o \in Owners /\ rt.resumed = None
    BY <1>1, <1>4, <2>1 DEF AtRest, Sound, RuntimeType, FinishDeferred, Outside
  <2>3. LET b == DeferredNavigationCompleted(v, rt.deferred.o) IN InvOf(b.v, rt, b.fx)
    BY <1>1, <2>2, FinishRest
  <2> QED BY <2>1, <2>3 DEF Enqueue, Inv
<1>5. CASE ForgetDeferred
  <2>1. Enqueue(Ret(v, <<>>), Forgotten(rt))
    BY <1>5 DEF ForgetDeferred, Forgotten
  <2>2. InvOf(v, Forgotten(rt), <<>>)
    BY <1>1, ForgetRest
  <2> QED BY <2>1, <2>2, RetParts DEF Enqueue, Inv
<1>6. CASE PresentFrame
  <2>1. LET r1 == SubscriptionsRetired(v)
            r2 == PresentationFailed(r1.v, None)
        IN InvOf(r2.v, rt, r1.fx \o r2.fx)
    BY <1>1, PresentRest
  <2> QED BY <1>6, <2>1, RetParts DEF PresentFrame, Enqueue, Inv
<1>7. CASE PresentationActionRequested
  <2>1. PICK local \in BOOLEAN :
          Enqueue(Ret(v, <<Fx("ApplyPresentationAction", None,
                              [scope |-> v.scope, local |-> local])>>), rt)
    BY <1>7 DEF PresentationActionRequested
  <2> DEFINE x == [scope |-> v.scope, local |-> local]
             f == <<Fx("ApplyPresentationAction", None, x)>>
  <2>2. x \in [scope : Scopes, local : BOOLEAN]
    BY <1>1 DEF AtRest
  <2> HIDE DEF x
  <2>3. InvOf(v, rt, f)
    BY <1>1, <2>2, ActionRest
  <2>4. Enqueue(Ret(v, f), rt)
    BY <2>1 DEF x
  <2> QED BY <2>3, <2>4, RetParts DEF Enqueue, Inv
<1>8. CASE Quit
  <2>1. DOMAIN v = ModelFields
    BY <1>1 DEF AtRest
  <2>2. LET b == Shutdown(v) IN InvOf(b.v, rt, b.fx)
    BY <2>1, QuitRest
  <2> QED BY <1>8, <2>2 DEF Quit, Enqueue, Inv
<1> QED BY <1>2, <1>3, <1>4, <1>5, <1>6, <1>7, <1>8

\* Every event from outside keeps the invariant.
LEMMA IngressKeeps == ASSUME Inv, Ingress PROVE Inv'
  BY OpenKeeps, MoveKeeps, AskKeeps, OtherKeeps DEF Ingress

-----------------------------------------------------------------------------
(* The theorems                                                            *)

\* Every effect that is carried out keeps the invariant.
LEMMA ExecuteKeeps == ASSUME Inv, Execute PROVE Inv'
  BY CloseKeeps, ConnectKeeps, FetchKeeps, ParseKeeps, CachedKeeps, PrepareLayoutKeeps,
     AdmitKeeps, InstallKeeps, ReleaseKeeps, ActivateLayoutKeeps, PrepareResizeKeeps,
     LoadKeeps, ActivateWasmKeeps, TickKeeps, SubscribeKeeps, RetireSubsKeeps,
     UpdateKeeps, DeferKeeps, ResumeKeeps, EvictResourceKeeps, EvictHistoryKeeps,
     RetireWorkKeeps, ErrorPageKeeps, RenderKeeps, ActionKeeps DEF Execute

\* The program starts in the invariant.
LEMMA InitInv == Init => Inv
  BY InitGood DEF Init, Inv

\* Every step keeps the invariant.
LEMMA NextInv == Inv /\ [Next]_vars => Inv'
<1> SUFFICES ASSUME Inv, [Next]_vars PROVE Inv'
  OBVIOUS
<1>1. CASE UNCHANGED vars
  BY <1>1 DEF vars, Inv
<1>2. CASE Next
  BY <1>2, ExecuteKeeps, FollowUpKeeps, IngressKeeps DEF Next
<1> QED BY <1>1, <1>2

\* No step fails an assertion of the runner.
LEMMA PanicFree == ASSUME Inv, ~panicked, [Next]_vars PROVE ~panicked'
<1> DEFINE a == Head(q)
           o == a.o
<1> SUFFICES ASSUME Next, panicked' # panicked PROVE FALSE
  BY DEF vars
<1>1. ~FollowUp /\ ~Ingress
  BY DEF FollowUp, TakeActivated, RetryAfterTrust, FollowResumed, Ingress, OpenLink,
         SubmitForm, ReloadPage, GoBack, GoForward, JumpHistory, ResizeTerminal, Tick,
         LoseTransport, SubscribeRegion, Resubscribe, ReceiveUpdate, DeferLink,
         FinishDeferred, ForgetDeferred, PresentFrame, PresentationActionRequested, Quit,
         Enqueue
<1>2. /\ ~ExecClose /\ ~ExecConnect /\ ~ExecRender /\ ~ExecReleaseHistoryArtifact
      /\ ~ExecRetirePageWork /\ ~ExecActivateErrorPage /\ ~ExecRetireSubscriptions
      /\ ~ExecEvictResource /\ ~ExecEvictHistory /\ ~ExecApplyUpdate
      /\ ~ExecPresentationAction
  BY DEF ExecClose, ExecConnect, ExecRender, ExecReleaseHistoryArtifact,
         ExecRetirePageWork, ExecActivateErrorPage, ExecRetireSubscriptions,
         ExecEvictResource, ExecEvictHistory, ExecApplyUpdate, ExecPresentationAction,
         Done, Ignore, Rejected
<1>3. ~ExecFetch /\ ~ExecSubmit
  BY DEF ExecFetch, ExecSubmit, FetchPage, FetchRedirect, FetchFailed, Done
<1>4. ~ExecParse /\ ~ExecActivateCachedHistory
  BY DEF ExecParse, ExecActivateCachedHistory, StoreParsed, Done, Ignore, Rejected
<1>5. ~ExecAdmitHistoryArtifact /\ ~ExecActivateLayout /\ ~ExecPrepareResizeProjection
  BY DEF ExecAdmitHistoryArtifact, ExecActivateLayout, ExecPrepareResizeProjection,
         Done, Ignore, Rejected
<1>6. /\ ~ExecLoadWasm /\ ~ExecActivateWasm /\ ~ExecSubscribe /\ ~ExecDeferNavigation
  BY DEF ExecLoadWasm, ExecActivateWasm, ExecSubscribe, ExecDeferNavigation,
         Done, Ignore
<1>7. /\ \/ ExecPrepareLayout \/ ExecInstallHistoryArtifact
         \/ ExecTickWasm \/ ExecResumeNavigation
      /\ Panic
  <2>1. \/ ExecPrepareLayout \/ ExecInstallHistoryArtifact
        \/ ExecTickWasm \/ ExecResumeNavigation
    BY <1>1, <1>2, <1>3, <1>4, <1>5, <1>6 DEF Next, Execute
  <2> QED BY <2>1 DEF ExecPrepareLayout, ExecInstallHistoryArtifact, ExecTickWasm,
                      ExecResumeNavigation, Done, Ignore, Rejected
<1>8. /\ q # <<>>
      /\ a.e \in {"PrepareLayout", "InstallHistoryArtifact", "TickWasm",
                 "ResumeNavigation"}
  BY <1>7 DEF ExecPrepareLayout, ExecInstallHistoryArtifact, ExecTickWasm,
              ExecResumeNavigation, Executing, Head1
<1>9. a.e \notin Trivial \cup Evicts \cup {"RetirePageWork", "RetireSubscriptions"}
  BY <1>8 DEF Trivial, Plain, Evicts
<1>10. CASE a.e = "PrepareLayout"
  <2>1. NavOK(v, rt, a)
    BY <1>8, <1>9, <1>10, AtKind DEF Inv, NavSteps
  <2>2. rt.nav = None
    BY <1>10, <2>1 DEF NavOK, LayoutReady, NoFrame
  <2> QED BY <1>7, <1>10, <2>2 DEF ExecPrepareLayout, ExecInstallHistoryArtifact,
               ExecTickWasm, ExecResumeNavigation, Executing, Head1, Done, Rejected, Ignore
<1>11. CASE a.e = "InstallHistoryArtifact"
  <2>1. rt.arts = Ids(v.hist) \ InstalledBy(a)
    BY <1>8, <1>9, <1>11, AtKind DEF Inv, NavSteps
  <2>2. a.x \notin rt.arts
    BY <1>11, <2>1 DEF InstalledBy
  <2> QED BY <1>7, <1>11, <2>2 DEF ExecPrepareLayout, ExecInstallHistoryArtifact,
               ExecTickWasm, ExecResumeNavigation, Executing, Head1, Done, Rejected, Ignore
<1>12. CASE a.e = "TickWasm"
  <2>1. SoloOK(v, rt, a)
    BY <1>8, <1>9, <1>12, AtKind DEF Inv
  <2>2. rt.pwasm = None
    BY <1>12, <2>1 DEF SoloOK, Drained
  <2> QED BY <1>7, <1>12, <2>2 DEF ExecPrepareLayout, ExecInstallHistoryArtifact,
               ExecTickWasm, ExecResumeNavigation, Executing, Head1, Done, Rejected, Ignore
<1>13. CASE a.e = "ResumeNavigation"
  <2>1. SoloOK(v, rt, a)
    BY <1>8, <1>9, <1>13, AtKind DEF Inv
  <2>2. rt.resumed = None
    BY <1>13, <2>1 DEF SoloOK
  <2> QED BY <1>7, <1>13, <2>2 DEF ExecPrepareLayout, ExecInstallHistoryArtifact,
               ExecTickWasm, ExecResumeNavigation, Executing, Head1, Done, Rejected, Ignore
<1> QED BY <1>8, <1>10, <1>11, <1>12, <1>13

\* The invariant of the dispatch loop: however events arrive and effects
\* end, the queue holds what one event asked for, each effect finds its
\* input staged and its request outstanding, and the renderer's artifacts
\* differ from the history's only by what is queued (dispatch_with, the
\* reducer's transitions and the effect executor).
THEOREM DispatchCorrect == Spec => []Inv
  BY InitInv, NextInv, PTL DEF Spec

\* No assertion of the runner ever fires: when a layout is prepared no
\* navigation is staged, when an artifact is installed none is there under
\* its number, when a module's timer answers no module is staged, and when
\* a link that waited goes on none is being followed.
THEOREM AssertionsHold == Spec => []~panicked
<1>1. Init => Inv /\ ~panicked
  BY InitInv DEF Init
<1>2. (Inv /\ ~panicked) /\ [Next]_vars => (Inv /\ ~panicked)'
  BY NextInv, PanicFree
<1> QED BY <1>1, <1>2, PTL DEF Spec

\* Once the queue is empty no navigation is under way: it was shown,
\* failed, or went back to where it came from.
THEOREM NavigationsSettle == Spec => []NavigationSettles
<1>1. Inv => NavigationSettles
  BY QuietRest DEF NavigationSettles, AtRest, Settled
<1> QED BY <1>1, DispatchCorrect, PTL

\* Once the queue is empty the renderer holds exactly the artifacts the
\* history names, whatever was committed, trimmed, evicted or released on
\* the way.
THEOREM ArtifactsProjected == Spec => []ArtifactsProject
<1>1. Inv => ArtifactsProject
  BY QuietRest DEF ArtifactsProject, AtRest, Ids
<1> QED BY <1>1, DispatchCorrect, PTL

\* Once the queue is empty no slot of the runtime holds anything a
\* navigation staged.
THEOREM SlotsAreDrained == Spec => []SlotsDrained
<1>1. Inv => SlotsDrained
  BY QuietRest DEF SlotsDrained, AtRest, Drained, NoPage, NoFrame
<1> QED BY <1>1, DispatchCorrect, PTL

\* Once the queue is empty every outstanding request belongs to a link
\* that waits, or to one that was forgotten.
THEOREM RequestsAccounted == Spec => []OutstandingAccounted
<1>1. Inv => OutstandingAccounted
  <2> SUFFICES ASSUME Inv, Quiet, NEW k \in v.out
               PROVE  k \in {s.o.req : s \in {rt.deferred} \ {None}} \cup {o.req : o \in rt.lost}
    BY DEF OutstandingAccounted
  <2>1. Accounted(v, rt, {})
    BY QuietRest DEF AtRest, Settled
  <2> QED BY <2>1 DEF Accounted
<1> QED BY <1>1, DispatchCorrect, PTL

\* Once the queue is empty the client holds only confirmed subscriptions of the
\* page that is shown, but for those an UNSUBSCRIBE that timed out left behind.
THEOREM LiveIsOwned == Spec => []LiveOwned
<1>1. Inv => LiveOwned
  BY QuietRest DEF LiveOwned, AtRest, Sound, LiveShown
<1> QED BY <1>1, DispatchCorrect, PTL

\* Once the queue is empty the page on the screen is the one under the
\* cursor of the history, unless an eviction shifted the entries of a
\* restore.
THEOREM CursorIsShown == Spec => []CursorShown
<1>1. Inv => CursorShown
  BY QuietRest DEF CursorShown, AtRest, Settled, Cursor, IsAt
<1> QED BY <1>1, DispatchCorrect, PTL

=============================================================================
