------------------------------- MODULE Viewer -------------------------------
(***************************************************************************)
(* The viewer: the reducer ViewerModel (viewer.rs), the terminal runtime   *)
(* that executes its effects (terminal/runner.rs, terminal/navigation.rs)  *)
(* and the dispatcher that couples them (terminal.rs).                     *)
(*                                                                         *)
(* The reducer is a family of operators that take the model v and return   *)
(* [v |-> the next model, fx |-> the effects issued].  The dispatcher owns *)
(* the queue q: an event is taken from the outside only when q is empty,   *)
(* the front effect is executed, and the effects of its completions are    *)
(* put back at the FRONT of q.  Allocation failure is a choice at the      *)
(* places named by PressureSites.  Byte contents, layout and formatting    *)
(* are abstracted; a page is its URI.                                      *)
(***************************************************************************)
EXTENDS Naturals, Sequences, FiniteSets, Subsequences

CONSTANTS
    Pages,              \* the URIs
    Origin(_),          \* the origin of a URI
    Size(_),            \* retained AML bytes of a page
    None,
    MaxHistoryEntries, MaxHistoryBytes, MaxOutstanding, MaxSubscriptions,
    RedirectLimit,      \* 5 in the code
    Unknown,            \* origins nothing vouches for until the user pins them
    Inputs,             \* kinds of outside events of the run
    PressureSites,      \* effects whose allocations may be rejected
    MaxEvents,          \* bound on outside events
    MaxHops,            \* bound on the redirects a server answers in a row
    CacheEntries        \* evictable cached resources at the start

ASSUME ViewerAssumption ==
    /\ MaxHistoryEntries \in Nat \ {0}
    /\ MaxOutstanding \in Nat \ {0}
    /\ RedirectLimit \in Nat
    /\ \A p \in Pages : Size(p) \in Nat

(***************************************************************************)
(* What the records below hold.  None is none of it, as Option::None is no *)
(* value of the type it wraps.                                             *)
(***************************************************************************)
Conns == {"Disconnected", "Connecting", "Connected"}
CommitKinds == {"Append", "ReplaceCurrent"}
Regions == {"region"}
Scopes == [org : {Origin(p) : p \in Pages}, gen : Nat]
Owners == [scope : Scopes, req : Nat]
Entries == [id : Nat, scope : Scopes, uri : Pages]
Prepared == [uri : Pages \cup {None}, cached : BOOLEAN]
Slots == [o : Owners, x : Pages \cup Prepared \cup Nat \cup {"waiting"}]
Pendings == [target : Nat, gen : Nat, entryScope : Scopes, pos : Nat,
             scope : Scopes, uri : Pages, phase : {"Ready", "Failed"}, conn : Conns]
Commits == [o : Owners, id : Nat, uri : Pages, commit : CommitKinds]

Bare == {"Close", "RenderTerminal", "RestoreTerminal", "EvictResource",
         "EvictHistory", "ActivateErrorPage"}
OwnedBare == {"Connect", "Parse", "PrepareLayout", "ActivateLayout",
              "PrepareResizeProjection", "ActivateWasm", "TickWasm",
              "DeferNavigation", "ResumeNavigation"}
Effects ==
    [e : Bare, o : {None}, x : {None}]
    \cup [e : OwnedBare, o : Owners, x : {None}]
    \cup [e : {"Fetch", "Submit"}, o : Owners, x : Pages]
    \cup [e : {"ActivateCachedHistory"}, o : Owners, x : Entries]
    \cup [e : {"AdmitHistoryArtifact"}, o : Owners,
          x : [id : Nat, replacing : BOOLEAN]]
    \cup [e : {"InstallHistoryArtifact", "LoadWasm"}, o : Owners, x : Nat]
    \cup [e : {"Subscribe", "ApplyUpdate"}, o : Owners, x : Regions]
    \cup [e : {"ReleaseHistoryArtifact"}, o : {None}, x : Nat]
    \cup [e : {"RetirePageWork", "RetireSubscriptions"}, o : {None}, x : Scopes]
    \cup [e : {"ApplyPresentationAction"}, o : {None},
          x : [scope : Scopes, local : BOOLEAN]]

ASSUME NoneAssumption ==
    /\ None \notin Pages /\ None \notin Nat /\ None \notin Scopes
    /\ None \notin Slots /\ None \notin Pendings /\ None \notin Commits
    /\ None \notin Effects

VARIABLES
    v,        \* ViewerModel
    rt,       \* TerminalRuntime
    q,        \* pending_effects of dispatch_runtime_events
    events,   \* outside events so far
    hops,     \* redirects followed since the last outside event
    panicked  \* an assert! of the runner fired

vars == <<v, rt, q, events, hops, panicked>>

(***************************************************************************)
(* Identities and the reducer's state                                      *)
(***************************************************************************)
Scope(org, gen) == [org |-> org, gen |-> gen]
Owner(scope, req) == [scope |-> scope, req |-> req]
Fx(e, o, x) == [e |-> e, o |-> o, x |-> x]
Ret(m, fx) == [v |-> m, fx |-> fx]
Render == <<Fx("RenderTerminal", None, None)>>
When(cond, fx) == IF cond THEN fx ELSE <<>>

InitialModel ==
    [phase |-> "Idle", scope |-> None, uri |-> None, conn |-> "Disconnected",
     hist |-> <<>>, pos |-> 0, out |-> {}, subs |-> {}, psubs |-> {},
     gen |-> 0, nreq |-> 1, nhid |-> 1, recon |-> None, commit |-> "Append",
     pend |-> None, pcommit |-> None, presize |-> None, retry |-> None]

Owns(m, o) == m.scope = o.scope /\ o.req \in m.out
\* Request ids are only ever compared together with their scope, so they are
\* counted afresh in each scope.
CanRequest(m) == Cardinality(m.out) < MaxOutstanding
Request(m) == [m EXCEPT !.out = @ \cup {m.nreq}, !.nreq = @ + 1]
Drop(m, o) == [m EXCEPT !.out = @ \ {o.req}]
Fresh(m) == Owner(m.scope, m.nreq)
RemoveAt(s, i) == SubSeq(s, 1, i - 1) \o SubSeq(s, i + 1, Len(s))

(***************************************************************************)
(* Starting and failing navigations                                        *)
(***************************************************************************)
begin_navigation(m, page, commit) ==
    LET s == Scope(Origin(page), m.gen + 1)
        o == Owner(s, 1)
        changed == m.scope # None /\ m.scope.org # s.org
    IN Ret(Request([m EXCEPT !.nreq = 1, !.gen = @ + 1, !.scope = s, !.uri = page,
                       !.phase = "Connecting", !.conn = "Connecting",
                       !.subs = {}, !.psubs = {}, !.out = {}, !.recon = None,
                       !.commit = commit, !.pend = None, !.pcommit = None,
                       !.presize = None, !.retry = None]),
           When(m.scope # None, <<Fx("RetirePageWork", None, m.scope)>>)
           \o When(changed, <<Fx("Close", None, None)>>)
           \o <<Fx("Connect", o, None), Fx("Fetch", o, page)>>)

\* What a failed activation of a history entry puts back.
RestoredForgetsPhase(m) ==
    [m EXCEPT !.pos = m.pend.pos, !.scope = m.pend.scope, !.uri = m.pend.uri,
              !.conn = m.pend.conn, !.out = {}, !.psubs = {}, !.recon = None,
              !.pend = None]
RestoredFromPending(m) ==
    [m EXCEPT !.hist = IF m.pend.target \in DOMAIN @
                       THEN [@ EXCEPT ![m.pend.target].scope = m.pend.entryScope]
                       ELSE @,
              !.pos = m.pend.pos, !.scope = m.pend.scope, !.uri = m.pend.uri,
              !.phase = m.pend.phase, !.conn = m.pend.conn,
              !.out = {}, !.psubs = {}, !.recon = None, !.pend = None]

fail_owned_operation(m, o) ==
    IF ~Owns(m, o) THEN Ret(m, <<>>)
    ELSE IF m.pend # None /\ m.pend.gen = o.scope.gen
    THEN Ret(RestoredFromPending(m), <<Fx("RetirePageWork", None, o.scope)>> \o Render)
    ELSE Ret([m EXCEPT !.phase = "Failed", !.conn = "Disconnected", !.out = {},
                       !.recon = None, !.subs = {}, !.psubs = {},
                       !.pcommit = None, !.presize = None],
             <<Fx("RetirePageWork", None, o.scope),
               Fx("ActivateErrorPage", None, None)>> \o Render)

activate_history_entry(m, i) ==
    IF i \notin DOMAIN m.hist THEN Ret(m, <<>>)
    ELSE LET e == m.hist[i]
             s == Scope(e.scope.org, m.gen + 1)
             o == Owner(s, 1)
             changed == m.scope # None /\ m.scope.org # s.org
         IN Ret(Request([m EXCEPT !.nreq = 1,
                   !.gen = @ + 1, !.scope = s, !.uri = e.uri,
                   !.hist[i].scope = s, !.phase = "Parsing",
                   !.conn = IF changed THEN "Disconnected" ELSE @,
                   !.subs = {}, !.psubs = {}, !.out = {}, !.recon = None,
                   !.pcommit = None, !.presize = None,
                   !.pend = [target |-> i, gen |-> m.gen + 1,
                             entryScope |-> e.scope, pos |-> m.pos,
                             scope |-> m.scope, uri |-> m.uri,
                             phase |-> m.phase, conn |-> m.conn]]),
                When(m.scope # None, <<Fx("RetirePageWork", None, m.scope)>>)
                \o When(changed, <<Fx("Close", None, None)>>)
                \o <<Fx("ActivateCachedHistory", o, [e EXCEPT !.scope = s])>>)

activate_history(m, i) ==
    IF m.pos = i THEN Ret(m, <<>>) ELSE activate_history_entry(m, i)

(***************************************************************************)
(* Events of the outside world                                             *)
(***************************************************************************)
Navigate(m, page) == begin_navigation(m, page, "Append")
Redirect(m, page) == begin_navigation(m, page, m.commit)
Reload(m) ==
    IF m.uri = None \/ m.scope = None THEN Ret(m, <<>>)
    ELSE begin_navigation(m, m.uri, "ReplaceCurrent")
FormSubmitted(m, page) ==
    LET r == begin_navigation(m, page, "Append")
        n == Len(r.fx)
    IN [r EXCEPT !.fx[n].e = "Submit"]
Back(m) == IF m.pos <= 1 THEN Ret(m, <<>>) ELSE activate_history(m, m.pos - 1)
Forward(m) == IF m.pos = 0 THEN Ret(m, <<>>) ELSE activate_history(m, m.pos + 1)
RestoreCurrentEntry(m) ==
    IF m.pos = 0 THEN Ret(m, <<>>) ELSE activate_history_entry(m, m.pos)
JumpToHistory(m, i) == activate_history(m, i)

Resize(m) ==
    IF m.scope = None THEN Ret(m, <<>>)
    ELSE LET stale == IF m.presize = None THEN {} ELSE {m.presize.req}
             m1 == [m EXCEPT !.out = @ \ stale,
                             !.retry = IF m.presize # None /\ @ # None
                                          /\ @.e = "PrepareResizeProjection"
                                          /\ @.o = m.presize
                                       THEN None ELSE @,
                             !.presize = None]
         IN IF ~CanRequest(m1) THEN Ret(m1, <<>>)
            ELSE Ret([Request(m1) EXCEPT !.presize = Fresh(m1)],
                     <<Fx("PrepareResizeProjection", Fresh(m1), None)>>)

Timer(m) ==
    IF m.phase = "Ready" /\ m.scope # None /\ CanRequest(m)
    THEN Ret(Request(m), <<Fx("TickWasm", Fresh(m), None)>>)
    ELSE Ret(m, <<>>)

TransportLost(m, org) ==
    IF m.scope = None \/ m.conn = "Connecting" \/ ~CanRequest(m)
    THEN Ret(m, <<>>)
    ELSE IF m.scope.org # org THEN Ret(m, <<>>)
    ELSE Ret([Request(m) EXCEPT !.conn = "Connecting", !.recon = m.nreq],
             <<Fx("Connect", Fresh(m), None)>>)

SubscribeRequested(m, region) ==
    IF \/ m.conn # "Connected" \/ m.scope = None \/ ~CanRequest(m)
       \/ Cardinality(m.subs) + Cardinality(m.psubs) >= MaxSubscriptions
    THEN Ret(m, <<>>)
    ELSE Ret([Request(m) EXCEPT !.psubs = @ \cup {<<m.nreq, region>>}],
             <<Fx("Subscribe", Fresh(m), region)>>)

SubscriptionsRetired(m) ==
    IF m.scope = None THEN Ret(m, <<>>)
    ELSE Ret([m EXCEPT !.subs = {}, !.psubs = {},
                       !.out = @ \ {s[1] : s \in m.psubs}],
             <<Fx("RetireSubscriptions", None, m.scope)>>)

LiveUpdate(m, o, region) ==
    IF m.scope = o.scope /\ <<o.req, region>> \in m.subs
    THEN Ret(m, <<Fx("ApplyUpdate", o, region)>>)
    ELSE Ret(m, <<>>)

DeferredNavigationRequested(m) ==
    IF m.scope = None \/ ~CanRequest(m) THEN Ret(m, <<>>)
    ELSE Ret(Request(m), <<Fx("DeferNavigation", Fresh(m), None)>>)
DeferredNavigationCompleted(m, o) ==
    IF Owns(m, o) THEN Ret(Drop(m, o), <<Fx("ResumeNavigation", o, None)>>)
    ELSE Ret(m, <<>>)
Shutdown(m) ==
    Ret([m EXCEPT !.phase = "ShuttingDown", !.subs = {}, !.psubs = {},
                  !.out = {}, !.recon = None],
        <<Fx("Close", None, None), Fx("RestoreTerminal", None, None)>>)

(***************************************************************************)
(* Completions                                                             *)
(***************************************************************************)
Connected(m, o) ==
    IF ~Owns(m, o) THEN Ret(m, <<>>)
    ELSE IF m.recon = o.req
    THEN Ret(Drop([m EXCEPT !.conn = "Connected", !.recon = None], o), <<>>)
    ELSE Ret([m EXCEPT !.conn = "Connected", !.phase = "Fetching"], <<>>)
ConnectionFailed(m, o) ==
    IF ~Owns(m, o) THEN Ret(m, <<>>)
    ELSE IF m.recon = o.req
    THEN Ret(Drop([m EXCEPT !.conn = "Disconnected", !.recon = None], o), Render)
    ELSE fail_owned_operation([m EXCEPT !.conn = "Disconnected"], o)
FetchCompleted(m, o) ==
    IF Owns(m, o) THEN Ret([m EXCEPT !.phase = "Parsing"], <<Fx("Parse", o, None)>>)
    ELSE Ret(m, <<>>)
ParseCompleted(m, o) ==
    IF Owns(m, o)
    THEN Ret([m EXCEPT !.phase = "Layout"], <<Fx("PrepareLayout", o, None)>>)
    ELSE Ret(m, <<>>)
WasmDependenciesDiscovered(m, o, n) ==
    IF ~Owns(m, o) \/ n = 0 THEN Ret(m, <<>>)
    ELSE IF n > MaxOutstanding - Cardinality(m.out) THEN fail_owned_operation(m, o)
    ELSE Ret([m EXCEPT !.out = @ \cup (m.nreq .. m.nreq + n - 1), !.nreq = @ + n],
             [k \in 1..n |-> Fx("LoadWasm", Owner(o.scope, m.nreq + k - 1), k)])

HistoryAdmissionRequested(m, o, page) ==
    IF ~Owns(m, o) THEN Ret(m, <<>>)
    ELSE IF Size(page) > MaxHistoryBytes THEN fail_owned_operation(m, o)
    ELSE LET replacing == m.commit = "ReplaceCurrent" /\ m.pos \in DOMAIN m.hist
             id == IF replacing THEN m.hist[m.pos].id ELSE m.nhid
         IN Ret([m EXCEPT !.uri = page,
                          !.pcommit = [o |-> o, id |-> id, uri |-> page,
                                       commit |-> m.commit]],
                <<Fx("AdmitHistoryArtifact", o, [id |-> id, replacing |-> replacing])>>)

Bytes(h) == LET f[i \in 0..Len(h)] == IF i = 0 THEN 0 ELSE f[i - 1] + Size(h[i].uri)
            IN f[Len(h)]

\* The loop that keeps retained history within the entry and byte limits: it
\* removes the oldest entry, or the second one when the oldest is current.
TrimHistory(h, pos) ==
    LET over(s) == Len(s) > 1
                   /\ (Len(s) > MaxHistoryEntries \/ Bytes(s) > MaxHistoryBytes)
        f[n \in 0..Len(h)] ==
            IF n = 0 THEN <<h, pos>>
            ELSE LET g == f[n - 1]
                     i == IF g[2] = 1 THEN 2 ELSE 1
                 IN IF ~over(g[1]) THEN g
                    ELSE <<RemoveAt(g[1], i), IF i < g[2] THEN g[2] - 1 ELSE g[2]>>
    IN f[Len(h)]

\* The artifacts a commit releases: those of the entries that left history,
\* and that of the entry it replaces.
RemovedReplacedOnly(before, after, replace, id) == IF replace THEN {id} ELSE {}
RemovedIds(before, after, replace, id) ==
    (before \ after) \cup (IF replace THEN {id} ELSE {})

HistoryCommitted(m, o, id) ==
    IF ~(Owns(m, o) /\ m.pcommit # None) THEN Ret(m, <<>>)
    ELSE IF ~(m.pcommit.o = o /\ m.pcommit.id = id) THEN Ret(m, <<>>)
    ELSE LET p == m.pcommit
             entry == [id |-> id, scope |-> o.scope, uri |-> p.uri]
             replace == /\ p.commit = "ReplaceCurrent"
                        /\ m.pos \in DOMAIN m.hist
                        /\ m.hist[m.pos].id = id
             kept == SubSeq(m.hist, 1, IF m.pos <= Len(m.hist) THEN m.pos ELSE Len(m.hist))
             room == IF Len(kept) = MaxHistoryEntries THEN Tail(kept) ELSE kept
             h1 == IF replace THEN [m.hist EXCEPT ![m.pos] = entry]
                   ELSE Append(room, entry)
             t == TrimHistory(h1, IF replace THEN m.pos ELSE Len(h1))
             before == {m.hist[i].id : i \in DOMAIN m.hist}
             after == {t[1][i].id : i \in DOMAIN t[1]}
             removed == RemovedIds(before, after, replace, id)
             release == [i \in DOMAIN m.hist |->
                            Fx("ReleaseHistoryArtifact", None, m.hist[i].id)]
         IN Ret([m EXCEPT !.hist = t[1], !.pos = t[2], !.commit = "Append",
                          !.pcommit = None,
                          !.nhid = IF replace THEN @ ELSE @ + 1],
                Subsequence(release, {i \in DOMAIN m.hist : m.hist[i].id \in removed})
                \o <<Fx("InstallHistoryArtifact", o, id)>>)

LayoutPrepared(m, o) ==
    IF Owns(m, o) THEN Ret(m, <<Fx("ActivateLayout", o, None)>>) ELSE Ret(m, <<>>)
ResizeProjectionPrepared(m, o) ==
    IF Owns(m, o) /\ m.presize = o
    THEN Ret([m EXCEPT !.presize = None], <<Fx("ActivateLayout", o, None)>>)
    ELSE Ret(m, <<>>)
LayoutActivatedKeepsCursor(m, o) ==
    IF ~Owns(m, o) THEN Ret(m, <<>>)
    ELSE Ret(Drop([m EXCEPT !.phase = "Ready", !.pend = None], o), Render)
LayoutActivated(m, o) ==
    IF ~Owns(m, o) THEN Ret(m, <<>>)
    ELSE LET mine == m.pend # None /\ m.pend.gen = o.scope.gen
         IN Ret(Drop([m EXCEPT !.phase = "Ready",
                               !.pos = IF mine THEN m.pend.target ELSE @,
                               !.pend = IF mine THEN None ELSE @], o), Render)
ErrorPageActivated(m) ==
    Ret([m EXCEPT !.phase = "Failed", !.subs = {}, !.psubs = {}, !.out = {},
                  !.recon = None, !.retry = None, !.pcommit = None,
                  !.presize = None], <<>>)

SubscriptionCompleted(m, o, region) ==
    IF Owns(m, o) /\ <<o.req, region>> \in m.psubs
    THEN Ret(Drop([m EXCEPT !.psubs = @ \ {<<o.req, region>>},
                            !.subs = @ \cup {<<o.req, region>>}], o), <<>>)
    ELSE Ret(m, <<>>)
SubscriptionFailed(m, o) ==
    IF Owns(m, o)
    THEN Ret(Drop([m EXCEPT !.psubs = {s \in @ : s[1] # o.req}], o), <<>>)
    ELSE Ret(m, <<>>)
WasmPrepared(m, o) ==
    IF Owns(m, o) THEN Ret(m, <<Fx("ActivateWasm", o, None)>>) ELSE Ret(m, <<>>)
WasmActivated(m, o) == IF Owns(m, o) THEN Ret(Drop(m, o), Render) ELSE Ret(m, <<>>)
WasmRejectedKeepsRequest(m, o) ==
    IF Owns(m, o) THEN Ret(m, Render) ELSE Ret(m, <<>>)
WasmRejected(m, o) == IF Owns(m, o) THEN Ret(Drop(m, o), Render) ELSE Ret(m, <<>>)
DeferredNavigationRejected(m, o) ==
    IF Owns(m, o) THEN Ret(Drop(m, o), <<>>) ELSE Ret(m, <<>>)

(***************************************************************************)
(* Memory pressure: the retry is the rejected effect itself                *)
(***************************************************************************)
BelongsTo(retry, scope) == retry.o = None \/ retry.o.scope = scope

PresentationFailed(m, retry) ==
    IF \/ retry # None /\ ~BelongsTo(retry, m.scope)
       \/ retry # None /\ retry.e = "PrepareResizeProjection" /\ m.presize # retry.o
    THEN Ret(m, <<>>)
    ELSE Ret([m EXCEPT !.retry = retry], <<Fx("EvictResource", None, None)>>)

RetryEffects(m) == When(m.retry # None, <<m.retry>>) \o Render

ResourceEvictionCompleted(m, evicted) ==
    IF evicted THEN Ret([m EXCEPT !.retry = None], RetryEffects(m))
    ELSE Ret(m, <<Fx("EvictHistory", None, None)>>)

EvictableEntries(m) ==
    {i \in DOMAIN m.hist : i # m.pos /\ (m.pend = None \/ m.pend.target # i)}

HistoryEvictionRequested(m) ==
    LET victims == EvictableEntries(m)
        owned == m.retry # None
                 /\ m.retry.e \in {"Parse", "PrepareLayout", "AdmitHistoryArtifact",
                                   "ActivateCachedHistory"}
    IN IF victims # {}
       THEN LET i == CHOOSE i \in victims : \A j \in victims : i <= j
            IN Ret([m EXCEPT !.hist = RemoveAt(@, i), !.retry = None,
                             !.pos = IF i < @ THEN @ - 1 ELSE @],
                   <<Fx("ReleaseHistoryArtifact", None, m.hist[i].id)>>
                   \o RetryEffects(m))
       ELSE IF owned
       THEN fail_owned_operation([m EXCEPT !.retry = None], m.retry.o)
       ELSE Ret([m EXCEPT !.retry = None, !.phase = "Failed",
                          !.conn = "Disconnected", !.subs = {}, !.psubs = {},
                          !.out = {}, !.recon = None, !.presize = None],
                When(m.scope # None, <<Fx("RetirePageWork", None, m.scope)>>)
                \o <<Fx("ActivateErrorPage", None, None)>> \o Render)

(***************************************************************************)
(* The terminal runtime.  A PreparedSlot is None or [o |-> owner, x |->    *)
(* payload]; only the exact owner can take it, and RetirePageWork clears   *)
(* the slots of one scope.                                                 *)
(***************************************************************************)
Slot(o, x) == [o |-> o, x |-> x]
Holds(slot, o) == slot # None /\ slot.o = o
InScope(slot, s) == slot # None /\ slot.o.scope = s
ClearScope(slot, s) == IF InScope(slot, s) THEN None ELSE slot

InitialRuntime ==
    [shown |-> [what |-> "blank", scope |-> None, uri |-> None],
     fetched |-> None, parsed |-> None, nav |-> None, layout |-> None,
     artifact |-> None, activated |-> None, batch |-> None, pwasm |-> None,
     proposal |-> None, deferred |-> None, resumed |-> None, trust |-> None,
     redirect |-> 0, arts |-> {}, cache |-> CacheEntries,
     cs |-> None, live |-> {}, pinned |-> {},
     kept |-> {},         \* subscriptions whose UNSUBSCRIBE timed out
     lost |-> {},         \* requests the loop forgot
     shifted |-> FALSE]   \* an entry was evicted under a pending activation

Head1 == Head(q)
o1 == Head(q).o
Executing(e) == q # <<>> /\ Head1.e = e

\* execute() returned: its completions r were reduced and their effects go
\* to the front of the queue.
Done(r, rt2) == /\ v' = r.v
                /\ rt' = rt2
                /\ q' = r.fx \o Tail(q)
                /\ UNCHANGED <<events, hops, panicked>>
Ignore == Done(Ret(v, <<>>), rt)
Rejected == /\ Head1.e \in PressureSites
            /\ Done(PresentationFailed(v, Head1), rt)
Panic == panicked' = TRUE /\ UNCHANGED <<v, rt, q, events, hops>>

ExecClose ==
    /\ Executing("Close")
    /\ Done(Ret(v, <<>>), [rt EXCEPT !.cs = None, !.live = {}, !.kept = {}])

ExecConnect ==
    /\ Executing("Connect")
    /\ \/ v.phase = "Connecting" /\ Done(Connected(v, o1), rt)
       \/ v.phase # "Connecting" /\ rt.cs # None /\ Done(Connected(v, o1), rt)
       \/ v.phase # "Connecting" /\ Done(ConnectionFailed(v, o1), rt)

\* What the transport holds for another page is dropped; the client's lists
\* are cleared here whether or not the server heard of it.
activate_page_scope(rt0, s) ==
    [rt0 EXCEPT !.cs = s, !.live = IF rt0.cs = s THEN @ ELSE {},
                !.kept = IF rt0.cs = s THEN @ ELSE {}]

FetchPage(page) ==
    LET rt1 == [activate_page_scope(rt, o1.scope) EXCEPT !.redirect = 0]
    IN IF rt.fetched # None
       THEN Done(fail_owned_operation(v, o1), rt1)
       ELSE Done(FetchCompleted(v, o1), [rt1 EXCEPT !.fetched = Slot(o1, page)])

FetchRedirect(page) ==
    LET depth == rt.redirect + 1
    IN IF depth > RedirectLimit
       THEN Done(fail_owned_operation(v, o1),
                 [activate_page_scope(rt, o1.scope) EXCEPT !.redirect = 0])
       ELSE LET r == Redirect(v, page) IN
            /\ hops < MaxHops
            /\ v' = r.v
            /\ rt' = [activate_page_scope(rt, o1.scope) EXCEPT !.redirect = depth]
            /\ q' = r.fx \o Tail(q)
            /\ hops' = hops + 1
            /\ UNCHANGED <<events, panicked>>

FetchFailed(trust) ==
    \E rt1 \in {rt, activate_page_scope(rt, o1.scope)} :
        Done(fail_owned_operation(v, o1),
             [rt1 EXCEPT !.trust = trust,
                         !.pinned = IF trust = None THEN @ ELSE @ \cup {Origin(trust)}])

ExecFetch ==
    /\ Executing("Fetch")
    /\ \/ \E p \in Pages : Origin(p) = o1.scope.org /\ FetchPage(p)
       \/ \E p \in Pages : FetchRedirect(p)
       \/ FetchFailed(None)
       \/ Origin(Head1.x) \in Unknown \ rt.pinned /\ FetchFailed(Head1.x)

ExecSubmit ==
    /\ Executing("Submit")
    /\ \/ \E p \in Pages : Origin(p) = o1.scope.org /\ FetchPage(p)
       \/ \E p \in Pages : FetchRedirect(p)
       \/ FetchFailed(None)

\* Parse and ActivateCachedHistory end alike: the WASM batch and the parsed
\* page are stored, and two completions are reduced in order.
StoreParsed(o, page, cached, rt1, deps) ==
    IF rt1.batch # None \/ rt1.parsed # None
    THEN Done(fail_owned_operation(v, o), rt1)
    ELSE LET d == WasmDependenciesDiscovered(v, o, deps)
             p == ParseCompleted(d.v, o)
         IN Done(Ret(p.v, d.fx \o p.fx),
                 [rt1 EXCEPT !.batch = Slot(o, deps),
                             !.parsed = Slot(o, [uri |-> page, cached |-> cached])])

ExecParse ==
    /\ Executing("Parse")
    /\ \/ ~Holds(rt.fetched, o1) /\ Ignore
       \/ Holds(rt.fetched, o1) /\ Rejected
       \/ /\ Holds(rt.fetched, o1)
          /\ Done(fail_owned_operation(v, o1), [rt EXCEPT !.fetched = None])
       \/ /\ Holds(rt.fetched, o1)
          /\ \E n \in 0..1 :
                StoreParsed(o1, rt.fetched.x, FALSE, [rt EXCEPT !.fetched = None], n)

ExecActivateCachedHistory ==
    /\ Executing("ActivateCachedHistory")
    /\ \/ ~Owns(v, o1) /\ Ignore
       \/ /\ Owns(v, o1) /\ rt.parsed # None
          /\ Done(fail_owned_operation(v, o1), rt)
       \/ /\ Owns(v, o1) /\ rt.parsed = None
          /\ \/ Rejected
             \/ Done(fail_owned_operation(v, o1), rt)
             \/ \E n \in 0..1 :
                   StoreParsed(o1, Head1.x.uri, TRUE, activate_page_scope(rt, o1.scope), n)

ExecPrepareLayout ==
    /\ Executing("PrepareLayout")
    /\ \/ ~Holds(rt.parsed, o1) /\ Ignore
       \/ Holds(rt.parsed, o1) /\ Rejected
       \/ Holds(rt.parsed, o1) /\ rt.nav # None /\ Panic
       \/ /\ Holds(rt.parsed, o1) /\ rt.nav = None
          /\ LET page == rt.parsed.x
                 rt1 == [rt EXCEPT !.parsed = None, !.layout = Slot(o1, page),
                                   !.batch = ClearScope(@, o1.scope),
                                   !.nav = Slot(o1, page)]
             IN IF page.cached THEN Done(LayoutPrepared(v, o1), rt1)
                ELSE Done(HistoryAdmissionRequested(v, o1, page.uri),
                          [rt1 EXCEPT !.artifact = Slot(o1, 0)])

ExecAdmitHistoryArtifact ==
    /\ Executing("AdmitHistoryArtifact")
    /\ LET mine == v.scope = o1.scope /\ Holds(rt.artifact, o1)
           id == Head1.x.id
           admissible == ~Head1.x.replacing \/ id \in rt.arts
           rt1 == [rt EXCEPT !.artifact = Slot(o1, id)]
       IN \/ ~mine /\ Ignore
          \/ mine /\ admissible /\ Done(HistoryCommitted(v, o1, id), rt1)
          \/ mine /\ admissible /\ Rejected
          \/ mine /\ ~admissible /\ Done(PresentationFailed(v, Head1), rt1)

ExecInstallHistoryArtifact ==
    /\ Executing("InstallHistoryArtifact")
    /\ LET mine == /\ v.scope = o1.scope /\ Holds(rt.layout, o1)
                   /\ rt.artifact = Slot(o1, Head1.x)
       IN \/ ~mine /\ Ignore
          \/ mine /\ Head1.x \in rt.arts /\ Panic
          \/ /\ mine /\ Head1.x \notin rt.arts
             /\ Done(LayoutPrepared(v, o1),
                     [rt EXCEPT !.arts = @ \cup {Head1.x}, !.artifact = None])

ExecReleaseHistoryArtifact ==
    /\ Executing("ReleaseHistoryArtifact")
    /\ Done(Ret(v, <<>>), [rt EXCEPT !.arts = @ \ {Head1.x}])

ExecActivateLayout ==
    /\ Executing("ActivateLayout")
    /\ IF v.scope # o1.scope \/ rt.activated # None \/ ~Holds(rt.layout, o1)
       THEN Ignore
       ELSE LET page == rt.layout.x
                isPage == page.uri # None
                named == Holds(rt.nav, o1)
            IN Done(LayoutActivated(v, o1),
                    [rt EXCEPT
                       !.layout = None,
                       !.shown = IF isPage THEN [what |-> "page", scope |-> o1.scope,
                                                 uri |-> page.uri]
                                 ELSE @,
                       !.activated = IF named THEN rt.nav ELSE @,
                       !.nav = IF named THEN None ELSE @])

ExecPrepareResizeProjection ==
    /\ Executing("PrepareResizeProjection")
    /\ \/ v.presize # o1 /\ Ignore
       \/ v.presize = o1 /\ Rejected
       \/ /\ v.presize = o1
          /\ Done(ResizeProjectionPrepared(v, o1),
                  [rt EXCEPT !.layout = Slot(o1, [uri |-> None, cached |-> TRUE])])

ExecLoadWasm ==
    /\ Executing("LoadWasm")
    /\ LET stored == [rt EXCEPT !.pwasm = Slot(o1, Head1.x)]
           possible == InScope(rt.batch, o1.scope) /\ rt.pwasm = None
                       /\ InScope(rt.parsed, o1.scope)
       IN \/ ~Owns(v, o1) /\ Ignore
          \/ Owns(v, o1) /\ possible /\ Done(WasmPrepared(v, o1), stored)
          \/ Owns(v, o1) /\ Done(WasmRejected(v, o1), rt)

ExecActivateWasm ==
    /\ Executing("ActivateWasm")
    /\ IF Owns(v, o1) /\ Holds(rt.pwasm, o1)
       THEN Done(WasmActivated(v, o1), [rt EXCEPT !.pwasm = None])
       ELSE Ignore

ExecTickWasm ==
    /\ Executing("TickWasm")
    /\ IF ~Owns(v, o1) THEN Ignore
       ELSE \/ Rejected
            \/ IF rt.pwasm # None THEN Panic
               ELSE Done(WasmPrepared(v, o1), [rt EXCEPT !.pwasm = Slot(o1, 0)])

ExecSubscribe ==
    /\ Executing("Subscribe")
    /\ \/ /\ rt.cs = o1.scope /\ \A s \in rt.live \cup rt.kept : s[2] # Head1.x
          /\ Done(SubscriptionCompleted(v, o1, Head1.x),
                  [rt EXCEPT !.live = @ \cup {<<o1, Head1.x>>}])
       \/ Done(SubscriptionFailed(v, o1), rt)

\* UNSUBSCRIBE that cannot be sent in time returns before the client's lists
\* are cleared, and both callers drop the error: what was subscribed stays.
UnsubscribeTimesOut(rt0) == [rt0 EXCEPT !.live = {}, !.kept = @ \cup rt0.live]

ExecRetireSubscriptionsKeeps ==
    Executing("RetireSubscriptions") /\ Done(Ret(v, <<>>), rt)
ExecRetireSubscriptions ==
    /\ Executing("RetireSubscriptions")
    /\ \/ v.scope # Head1.x /\ Ignore
       \/ v.scope = Head1.x /\ Done(Ret(v, <<>>), [rt EXCEPT !.live = {}, !.kept = {}])
       \/ v.scope = Head1.x /\ Done(Ret(v, <<>>), UnsubscribeTimesOut(rt))

ExecApplyUpdate == Executing("ApplyUpdate") /\ (Rejected \/ Ignore)

ExecDeferNavigation ==
    /\ Executing("DeferNavigation")
    /\ LET rt1 == [rt EXCEPT !.proposal = IF @ = o1.scope.gen THEN None ELSE @]
       IN \/ (v.scope # o1.scope \/ rt.proposal # o1.scope.gen) /\ Done(Ret(v, <<>>), rt1)
          \/ /\ v.scope = o1.scope /\ rt.proposal = o1.scope.gen
             /\ \/ Done(Ret(v, <<>>), [rt1 EXCEPT !.deferred = Slot(o1, "waiting")])
                \/ Done(DeferredNavigationRejected(v, o1), rt1)

ExecResumeNavigation ==
    /\ Executing("ResumeNavigation")
    /\ \/ ~Holds(rt.deferred, o1) /\ Ignore
       \/ Holds(rt.deferred, o1) /\ rt.resumed # None /\ Panic
       \/ /\ Holds(rt.deferred, o1) /\ rt.resumed = None
          /\ Done(Ret(v, <<>>), [rt EXCEPT !.deferred = None, !.resumed = Slot(o1, 0)])

ExecEvictResource ==
    /\ Executing("EvictResource")
    /\ Done(ResourceEvictionCompleted(v, rt.cache > 0),
            [rt EXCEPT !.cache = IF @ > 0 THEN @ - 1 ELSE 0])
ExecEvictHistory ==
    /\ Executing("EvictHistory")
    /\ Done(HistoryEvictionRequested(v),
            [rt EXCEPT !.shifted = @ \/ (v.pend # None /\ EvictableEntries(v) # {})])

\* The transport holds subscriptions of one scope only; held says that the
\* UNSUBSCRIBE sent for the scope current there timed out.
RetireWorkKeepsArtifact(rt0, s, held) ==
    [rt0 EXCEPT !.cs = IF @ = s THEN None ELSE @,
                !.live = {x \in @ : x[1].scope # s},
                !.kept = IF held /\ rt0.cs = s
                         THEN @ \cup {x \in rt0.live : x[1].scope = s}
                         ELSE {x \in @ : x[1].scope # s},
                !.layout = ClearScope(@, s), !.pwasm = ClearScope(@, s),
                !.batch = ClearScope(@, s), !.fetched = ClearScope(@, s),
                !.parsed = ClearScope(@, s), !.nav = ClearScope(@, s),
                !.proposal = IF @ = s.gen THEN None ELSE @,
                !.deferred = ClearScope(@, s), !.resumed = ClearScope(@, s),
                !.redirect = 0, !.activated = ClearScope(@, s)]
RetireWork(rt0, s, held) ==
    [rt0 EXCEPT !.cs = IF @ = s THEN None ELSE @,
                !.live = {x \in @ : x[1].scope # s},
                !.kept = IF held /\ rt0.cs = s
                         THEN @ \cup {x \in rt0.live : x[1].scope = s}
                         ELSE {x \in @ : x[1].scope # s},
                !.layout = ClearScope(@, s), !.pwasm = ClearScope(@, s),
                !.batch = ClearScope(@, s), !.fetched = ClearScope(@, s),
                !.parsed = ClearScope(@, s), !.nav = ClearScope(@, s),
                !.proposal = IF @ = s.gen THEN None ELSE @,
                !.deferred = ClearScope(@, s), !.resumed = ClearScope(@, s),
                !.redirect = 0, !.artifact = ClearScope(@, s),
                !.activated = ClearScope(@, s)]
ExecRetirePageWork ==
    /\ Executing("RetirePageWork")
    /\ \E held \in BOOLEAN : Done(Ret(v, <<>>), RetireWork(rt, Head1.x, held))

ExecActivateErrorPage ==
    /\ Executing("ActivateErrorPage")
    /\ Done(ErrorPageActivated(v),
            [rt EXCEPT !.shown = [what |-> "error", scope |-> None, uri |-> v.uri]])
ExecRender ==
    /\ q # <<>> /\ Head1.e \in {"RenderTerminal", "RestoreTerminal"}
    /\ Ignore
ExecPresentationAction ==
    /\ Executing("ApplyPresentationAction")
    /\ \/ v.scope # Head1.x.scope /\ Ignore
       \/ /\ v.scope = Head1.x.scope
          /\ \/ ~Head1.x.local /\ Rejected
             \/ Ignore
             \/ /\ Head1.x.local
                /\ Done(Ret(v, <<>>),
                        [rt EXCEPT !.shown = [what |-> "overlay", scope |-> None,
                                              uri |-> None]])

(***************************************************************************)
(* The main loop.  Follow-ups of a finished dispatch come before the next  *)
(* outside event: the activated page is taken and its live regions are     *)
(* subscribed anew, a pinned certificate re-issues its navigation, and a   *)
(* resumed link navigates.                                                 *)
(***************************************************************************)
Quiet == q = <<>> /\ v.phase # "ShuttingDown" /\ ~panicked
Enqueue(r, rt2) == /\ v' = r.v
                   /\ rt' = rt2
                   /\ q' = r.fx
                   /\ hops' = 0
                   /\ UNCHANGED panicked

TakeActivated ==
    /\ Quiet /\ InScope(rt.activated, v.scope)
    /\ Enqueue(SubscriptionsRetired(v), [rt EXCEPT !.activated = None])
    /\ UNCHANGED events
RetryAfterTrust ==
    /\ Quiet /\ rt.activated = None /\ rt.trust # None
    /\ Enqueue(Navigate(v, rt.trust), [rt EXCEPT !.trust = None])
    /\ UNCHANGED events
FollowResumed ==
    /\ Quiet /\ rt.activated = None /\ InScope(rt.resumed, v.scope)
    /\ \E p \in Pages : Enqueue(Navigate(v, p), [rt EXCEPT !.resumed = None])
    /\ UNCHANGED events

\* An outside event of the given kind.  The loop only runs once a first page
\* has been committed to history.
Outside(kind) ==
    /\ kind \in Inputs
    /\ Quiet /\ events < MaxEvents /\ v.hist # <<>>
    /\ rt.activated = None /\ rt.trust = None /\ rt.resumed = None
    /\ events' = events + 1

ClientOwned == rt.shown.what \in {"error", "overlay"}
HistoryIdx == IF v.pos = 0 THEN Len(v.hist) ELSE v.pos

OpenLink == Outside("navigate") /\ \E p \in Pages : Enqueue(Navigate(v, p), rt)
SubmitForm ==
    /\ Outside("submit")
    /\ \E p \in Pages : Origin(p) = v.scope.org /\ Enqueue(FormSubmitted(v, p), rt)
ReloadPage == Outside("reload") /\ Enqueue(Reload(v), rt)
GoBack ==
    /\ Outside("back")
    /\ \/ ClientOwned /\ Enqueue(RestoreCurrentEntry(v), rt)
       \/ ~ClientOwned /\ HistoryIdx > 1 /\ Enqueue(Back(v), rt)
GoForward ==
    /\ Outside("forward") /\ HistoryIdx + 1 <= Len(v.hist)
    /\ Enqueue(Forward(v), rt)
JumpHistory ==
    /\ Outside("jump")
    /\ \E i \in DOMAIN v.hist : i # HistoryIdx /\ Enqueue(JumpToHistory(v, i), rt)
ResizeTerminal == Outside("resize") /\ Enqueue(Resize(v), rt)
Tick == Outside("tick") /\ Enqueue(Timer(v), rt)
LoseTransport ==
    /\ Outside("lost") /\ rt.cs # None /\ rt.live \cup rt.kept # {}
    /\ Enqueue(TransportLost(v, rt.cs.org), rt)
SubscribeRegion ==
    /\ Outside("subscribe") /\ rt.shown.what = "page"
    /\ Enqueue(SubscribeRequested(v, "region"), rt)
Resubscribe == Outside("subscribe") /\ rt.live = {} /\ Enqueue(SubscriptionsRetired(v), rt)
ReceiveUpdate ==
    /\ Outside("update")
    /\ \E s \in rt.live \cup rt.kept : Enqueue(LiveUpdate(v, s[1], s[2]), rt)
DeferLink ==
    /\ Outside("defer") /\ rt.deferred = None
    /\ Enqueue(DeferredNavigationRequested(v), [rt EXCEPT !.proposal = v.scope.gen])
FinishDeferred ==
    /\ Outside("defer") /\ InScope(rt.deferred, v.scope)
    /\ Enqueue(DeferredNavigationCompleted(v, rt.deferred.o), rt)
\* The animation a link waits for has gone: the loop forgets the link, and the
\* reducer is not told.
ForgetDeferred ==
    /\ Outside("forget") /\ rt.deferred # None
    /\ Enqueue(Ret(v, <<>>), [rt EXCEPT !.deferred = None, !.lost = @ \cup {rt.deferred.o}])
PresentFrame ==
    /\ Outside("present") /\ rt.shown.what # "error"
    /\ LET r1 == SubscriptionsRetired(v)
           r2 == PresentationFailed(r1.v, None)
       IN Enqueue(Ret(r2.v, r1.fx \o r2.fx), rt)
PresentationActionRequested ==
    /\ Outside("action")
    /\ \E local \in BOOLEAN :
         Enqueue(Ret(v, <<Fx("ApplyPresentationAction", None,
                            [scope |-> v.scope, local |-> local])>>), rt)
Quit == Outside("quit") /\ Enqueue(Shutdown(v), rt)

Init ==
    /\ \E p \in Pages : LET r == Navigate(InitialModel, p)
                         IN v = r.v /\ q = r.fx
    /\ rt = InitialRuntime
    /\ events = 0 /\ hops = 0 /\ panicked = FALSE

Execute ==
    \/ ExecClose \/ ExecConnect \/ ExecFetch \/ ExecSubmit \/ ExecParse
    \/ ExecActivateCachedHistory \/ ExecPrepareLayout
    \/ ExecAdmitHistoryArtifact \/ ExecInstallHistoryArtifact
    \/ ExecReleaseHistoryArtifact \/ ExecActivateLayout
    \/ ExecPrepareResizeProjection \/ ExecLoadWasm \/ ExecActivateWasm
    \/ ExecTickWasm \/ ExecSubscribe \/ ExecRetireSubscriptions
    \/ ExecApplyUpdate \/ ExecDeferNavigation \/ ExecResumeNavigation
    \/ ExecEvictResource \/ ExecEvictHistory \/ ExecRetirePageWork
    \/ ExecActivateErrorPage \/ ExecRender \/ ExecPresentationAction

FollowUp == TakeActivated \/ RetryAfterTrust \/ FollowResumed

Ingress ==
    \/ OpenLink \/ SubmitForm \/ ReloadPage \/ GoBack \/ GoForward
    \/ JumpHistory \/ ResizeTerminal \/ Tick \/ LoseTransport
    \/ SubscribeRegion \/ Resubscribe \/ ReceiveUpdate \/ DeferLink
    \/ FinishDeferred \/ ForgetDeferred \/ PresentFrame
    \/ PresentationActionRequested \/ Quit

Next == ~panicked /\ (Execute \/ FollowUp \/ Ingress)

Spec == Init /\ [][Next]_vars
\* The dispatcher runs until its queue is empty; nothing else is scheduled.
FairSpec == Spec /\ WF_vars(~panicked /\ Execute)

(***************************************************************************)
(* Properties                                                              *)
(***************************************************************************)
\* Shape of the reducer's state: the cursor, the requests and the queue.
TypeOK ==
    /\ v.phase \in {"Idle", "Connecting", "Fetching", "Parsing", "Layout", "Ready",
                    "Failed", "ShuttingDown"}
    /\ v.conn \in {"Disconnected", "Connecting", "Connected"}
    /\ v.out \subseteq 1..(v.nreq - 1)
    /\ Cardinality(v.out) <= MaxOutstanding
    /\ v.commit \in {"Append", "ReplaceCurrent"}
    /\ rt.redirect \in 0..RedirectLimit

\* No dispatch ends with a navigation half done: once the queue is empty the
\* page is Ready or Failed.  (The runner returns no completion at all when a
\* slot is held by another owner, so a stale slot would strand the phase.)
NavigationSettles == Quiet => v.phase \in {"Ready", "Failed"}

\* "terminal history artifacts must project reducer-owned history": when the
\* loop looks, the runtime holds an artifact for exactly the reducer's
\* entries, so no lease is leaked and no entry has lost its artifact.
ArtifactsProject == Quiet => rt.arts = {v.hist[i].id : i \in DOMAIN v.hist}

\* Prepared work does not outlive its dispatch: a page that was fetched,
\* parsed or laid out for a navigation that failed is released.
SlotsDrained ==
    Quiet => /\ rt.fetched = None /\ rt.parsed = None /\ rt.nav = None
             /\ rt.layout = None /\ rt.artifact = None /\ rt.batch = None
             /\ rt.pwasm = None

\* Requests are not leaked: between events the only outstanding request is
\* that of the link waiting for its animation (or of one the loop forgot).
OutstandingAccounted ==
    Quiet => v.out \subseteq {s.o.req : s \in {rt.deferred} \ {None}}
                             \cup {o.req : o \in rt.lost}

\* Every update the transport can still deliver belongs to the page shown: its
\* subscriptions are the reducer's own, but for those that an UNSUBSCRIBE
\* which timed out left behind.
LiveOwned ==
    Quiet => \A s \in rt.live : s[1].scope = v.scope /\ <<s[1].req, s[2]>> \in v.subs

\* The same of all the transport holds.
\* It does not hold for the code: see the README, known divergences.
EverySubscriptionOwned ==
    Quiet => \A s \in rt.live \cup rt.kept :
                s[1].scope = v.scope /\ <<s[1].req, s[2]>> \in v.subs

\* While a page of history is shown, the cursor points at its entry; unless an
\* entry was evicted while another was being activated, which leaves the
\* positions that activation remembers where they were.
CursorShown ==
    (Quiet /\ ~rt.shifted /\ v.phase = "Ready" /\ rt.shown.what = "page") =>
        /\ v.pos \in DOMAIN v.hist
        /\ v.hist[v.pos].scope = rt.shown.scope
        /\ v.hist[v.pos].uri = rt.shown.uri

\* At most RedirectLimit redirects are followed for one navigation.
\* It does not hold for the code: see the README, known divergences.
RedirectsBounded == hops <= RedirectLimit

=============================================================================
