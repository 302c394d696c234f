# A TLA+ verification of dustnet

dustnet is a terminal hypertext system: a server that speaks ATP (framed messages
over TLS) and serves AML pages from a directory, and a terminal viewer that fetches,
lays out, animates and navigates those pages. Pages can have *live regions*: the
client subscribes to a file and the server pushes `UPDATE` frames as it changes.

This directory holds TLA+ modules of dustnet's components, TLC configurations that
check them on small instances, and TLAPS proofs that hold for every size.

| modules | what they are |
|---|---|
| `LiveWatch`, `LiveWatchProofs` | the server's live-region watcher and the subscriptions it feeds |
| `Admission`, `AdmissionProofs` | accept loop, connection limits, task lifetimes, shutdown |
| `AtpLink`, `AtpLinkProofs` | one viewer's connection: client, both state machines, server task |
| `Viewer`, `ViewerProofs` | the viewer's reducer and the runner that executes its effects |
| `Choreography`, `ChoreographyProofs` | panels, animations, the event cascade, deferred links |
| `ClientStores`, `ClientStoresProofs` | session tokens and trust pins, in memory and in their files |
| `Resources`, `UpdateQueue`, `ResourcesProofs` | the byte governor, the resource cache, the ring of pending updates |
| `Aml` | scanner, serializer and server includes |
| `Components`, `Elements`, `Validate`, `Markup` | component expansion, attributes, the parser, the validator |
| `Messages`, `Wire` | the message codec; framing, TLS verification, capability checks |
| `SceneGraph`, `Layout`, `Compositor`, `Scene` | the scene tree and its patches, the layout engine, composition, and the runner's frame loop over them |
| `Subsequences`, `Totals`, `DataLemmas` | a subsequence operator, the sum of a sequence and of a function, and the lemmas on data the proofs share |
| `MC*.tla`, `*.cfg` | the TLC instances, one per run |
| `PROJECT.json` | components, runs, mutants, definition-to-source map, hazards, theorems |

To check: `tlc -config Resources.cfg MCResources`, `tlapm ResourcesProofs.tla`.

## 1. Inventory of the system

Four crates carry the program: `dustnet-core` (protocol messages and state machine,
AML, sessions), `dustnet-server`, `dustnet-client` (connection manager, reducer,
stores, terminal runner, compositor) and the command line programs.

### Server

**Live-region watcher** (`live_watch.rs`). State: the registry (`files`: per watched
path the last generation, its stamp, a dirty flag, wake senders), the reference count
per watched directory, the shared byte budget. Operations: attach (SUBSCRIBE),
change and rescan events, the end of the settle window, the reconcile tick, stat,
read and publish, reap. One task owns it all; it awaits file I/O in the middle of a
pass. Connections talk to it through a command channel, a `watch` receiver per
subscription and a wake channel of capacity one. Correct when: no publish is missed,
nothing with a subscriber is reaped, the budget is never exceeded, and every region
catches up with its file without file-system events.

**Server subscriptions** (`lib.rs`: `handle_subscribe`, `flush_subscriptions`).
State: per connection a list of subscriptions, each with its delta baseline.
Operations: subscribe, unsubscribe, flush after a wake. Correct when the text the
UPDATEs of a region add up to is the baseline the next delta is cut from.

**Admission and shutdown** (`lib.rs`: `run`, `serve_connection`). State: a semaphore
of permits, a per-address counter map, the `JoinSet` of tasks, the shutdown flag,
deadlines. Operations: accept, refuse, TLS handshake, HELLO, request, BYE, release,
panic, abort, drain. Correct when permits and counters match the tasks in every
interleaving, the limits hold, and shutdown ends.

**Request handling and includes.** A connection's frame loop is sequential; which
reply a path gets is a function of the file system and of the embedder's hooks.
Includes (`include.rs`) scan a page, replace include tags by tokens the embedder
generates, and write the page out again. Correct when the client scans what was meant.

### Client

**Connection manager** (`client.rs`, `transport.rs`). State: at most one connection
with its state machine and poison flag, the current origin and page scope, the active
subscriptions, a bounded queue of pending updates. Operations: connect, replay,
fetch, submit, resource, subscribe, unsubscribe, poll, ping, reconnect, retire.
Every operation awaits the network in several places under a timeout and leaves the
connection in some state when the timeout fires. Correct when a reply reaches the
request it answers, an update the page it was pushed for, and nothing of a left page
stays subscribed.

**Connection state machine** (`protocol/state.rs`, core). One table per endpoint.
Correct when two endpoints that both obey it, with a queue in between, never meet a
frame the table refuses.

**Message codec and transports** (`protocol/message.rs`, `transport.rs` at both
ends). Stateless conversions, then per endpoint the negotiated capabilities and a
poison flag. Correct when a message is delivered as it was meant or not at all.

**Viewer reducer** (`viewer.rs`). State: page generations, outstanding requests,
history and its cursor, artifacts, subscriptions, deferred links, cache pressure. A
pure reducer from events to effects; its hard part is completions of superseded work.

**Terminal runner** (`compositor/terminal/runner.rs`). The event loop: executes
effects, prepares pages on a worker, polls updates, sends keepalives, runs the
authored actions, ticks animations, lays out again what an update changed, composes
and presents frames. Correct when what it derived from the scene follows the scene,
and an event that is refused half-way leaves no trace.

**Session and trust stores** (`session_store.rs`, `session_file.rs`, `trust.rs`).
Tokens set and cleared by directives, eligible by scope; certificate pins. Both are
files replaced by write, sync and rename. Correct when a revoked token never comes
back, a pin is never lost, and a token is sent only where its directive allows.

**Resource governor and cache** (`resource.rs`, `client.rs`). Reservations in bytes
and units per category, leases held by the objects they pay for, an LRU cache, the ring
of pending updates. Correct when the books equal what is alive and stay within limits.

**Panels, events, animations** (`panels.rs`, `terminal/events.rs`, `animate/`).
State: the active state of each panel, the runtime's animation instances, announced
ends, the queue of authored actions with their due times, deferred links. Correct when
the runtime holds the animations of the active states and each action runs once.

**Parser** (`scanner/`, `parser/` with `components.rs` and `validate.rs`): token stream
to element tree, with limits. **Compositor** (`scene/`, `layout/`, `composite.rs`,
`present/`): element tree to scene, scene to buffers, buffers to terminal rows.

### How they interact

The runner turns reducer effects into calls of the connection manager, one at a time.
On a navigation: retire the old page's work (UNSUBSCRIBE, drop its pending updates),
close if the origin changes, connect, request. The reply is parsed and built on a
worker; when the page is shown its regions are subscribed. In between the runner polls
for updates, executes due actions, ticks animations and presents. All client objects
of some size share the governor. At the server each connection is a task; all tasks
share the admission counters, the watcher and the byte budget.

### What is hard here

`PROJECT.json` lists 40 hazards, each at its line, with the properties that cover it.
The main ones: a wake that meets a full channel; a file that changes between stat and
read; reap against an attach in progress; permits and counters touched by the accept
loop, by task tails, by panics and by aborts; a reply that arrives after its request
timed out; an UPDATE that crosses an UNSUBSCRIBE; a cancelled read that already
consumed bytes; a completion of superseded work; pressure that evicts half-way; a crash
between write and rename; a clone of a lease that outlives its owner; a relayout
refused after some of it was applied; a cascade that feeds itself.

## 2. The modules

### LiveWatch

| TLA+ | code |
|---|---|
| `disk` | the files: text, existence, and the stamp (length, mtime, inode) as a number |
| `files`, `dirRefs`, `source` | `WatchRegistry.files`, `NotifyChangeSource`'s counts, its thread |
| `job` | where the registry task is: idle, about to stat, or in the read of one file |
| `subs`, `wake`, `pc`, `at`, `want` | a connection's subscriptions, its wake channel, and where it is: in its loop, awaiting attach, sending the first UPDATE, or at index `at` of a flush |
| `Write`, `WriteSameTick`, `Delete` | writers; a same-tick write leaves the stamp as it was |
| `EventTouched`, `EventRescan`, `SourceDies`, `SourceEnds` | change events, and the watcher thread's end |
| `AttachStart`, `AttachRefused`, `Stat`, `ReadFile` | `attach` and `refresh_if_changed`, split at their awaits |
| `Settle`, `Reconcile` | the two timer arms |
| `EndArm` | `reap`, which ends every arm and so is part of every action that ends one |
| `Subscribe`, `SendInitial`, `Unsubscribe`, `Woken`, `FlushOne`, `Disconnect` | the connection task |

The server's byte budget is computed by `Used` from what is alive (leases are dropped
with their owners): generations shared by identity are counted once, and a read in
progress holds its peak. Texts are short sequences over a small alphabet, because
delta against replace is about prefixes.

### Admission

`task` gives each accepted connection its place (`tls`, `hello`, `idle`, `busy`,
`bye`, `release`, ...) and the ticks left of its deadline; `free` is the semaphore,
`perIp` the counter map. The tail of a task is two steps, `Release` (decrement the
counter, drop an entry at zero) and `DropPermit`, as in the code; `Panics` is an
embedder's hook that unwinds past the first. Time is in ticks of 5 s: handshake and
write deadlines are 10 s, the drain 5 s. `Tick` passes time for everyone at once, and
only after every expired deadline has fired.

### AtpLink

| TLA+ | code |
|---|---|
| `cli` | `AtpClient` and its `AtpConnection`: phase, poisoned, origin, scope, active, pending |
| `wire` | the two FIFO queues and the server task: phase, subscriptions, the request being answered |
| `view` | what the reducer knows: the page, whether it is loaded, whether it is connected |
| `op` | the client operation in progress and the await it is blocked at |
| `ClientNext`, `ServerNext` | the rows of `ConnectionStateMachine::apply` for each endpoint |
| `Send`, `Read` | `send_frame`, `recv_frame`: capability check, state check, poison on error |
| `Navigate`, `ActivateCachedHistory`, `FetchResource`, `ResubscribeLive`, `SendPing`, `Disconnect` | what the runner starts |
| `Reuse`, `DialFails`, `DialSucceeds`, `HelloReads`, `ReplayOne` | `ensure_connected_to`, `handshake`, the replay of subscriptions |
| `SendRequest`, `ReplyReads`, `TimesOut`, `SubscribeOne` | `send_request`, `recv_response`, timeouts |
| `PollQueued`, `PollReads`, `PollTimesOut` | `poll_update` |
| `ServerReads`, `Answer`, `Push`, `ServerLeaves`, `ServerShutsDown`, `Reset` | `serve_connection` and the network |

The client is one task and only blocks where it dials or reads, so an operation is
split exactly there. Dropping the client's connection drops the server task with
everything in flight, so a new dial starts from empty queues. Messages carry a ghost
`id` (the request, or the page generation a subscription was made for) that no guard
reads; it exists so that properties can say which reply belongs to which request.

### Viewer

`ViewerState::apply` as one operator per event over the reducer's record, with the
effects it returns put in a queue that the runner's side executes one by one
(`Execute`): fetches, parses, prepared-work slots, artifacts, resize projections,
subscriptions, deferred links. Completions come back as events in any order and carry
the generation they were started for. A page is a name with a size; the byte budget of
the history and a nondeterministic refusal at each site in `PressureSites` produce the
evict-and-retry paths. The pressure retries, the redirect hops and the user's events
are bounded by `MaxEvents`, `MaxHops` and the `Inputs` set. The types at the head of the
module say what its records hold; `live` and `kept` are the transport's subscriptions, the
latter those whose UNSUBSCRIBE timed out (`UnsubscribeTimesOut`), which the code keeps; `Subsequence` keeps the entries a trim leaves.

### Choreography

State: `active` (each panel's state) and `trans` (its transitions), `built` and `run`
(the animation instances), what has been announced, the queue of authored actions with
due times, the deferred link, the page transition (`xition`, `overlay`), and the calls
the event loop still makes in this turn (`plan`). Actions: `Input`
(the user's), `Poll`, and the stages of one pass of the loop under `Step`: due actions
with their cascades, ticks, the relayout that may be refused and undone, the eviction
retry, the rebuild of the runtime after a change of topology. `PageAssumption` says
what the validator establishes of a page before it gets here.

### ClientStores

| TLA+ | code |
|---|---|
| `proc[p]` | a process: `SiteSessionStore` (`mem`), the pins, the sessions still to be restored (`todo`), the save in progress (`job`) |
| `disk` | the two files and their temporary names, each with its body and whether it was written whole |
| `SaveOpen`, `SaveWrite`, `SaveRename`, `SaveFails` | `write_private` and the rename, in the steps between which a process may die or fail |
| `Remove` | `SessionFile::remove`, the fallback when a clear could not be saved |
| `Start`, `StartUnreadable`, `RestoreOne`, `RestoreEnds` | a launch, which admits each line of the file as a server's directive |
| `SetSession`, `ClearSession`, `ClearStorageKey`, `ClearAll`, `PinSite`, `ForgetSite`, `SendRequest` | the operations |
| `Stop`, `Tick` | the process dies or is left at any step; time passes |

Ghosts record the site that issued a token (`earned`), which tokens were revoked, which
sessions' saves returned (`kept`), which pins were recorded, and what has failed or was
killed (`broken`), so that a property can name its exceptions.

### Resources

`usage` are the governor's books, `cache` the entries in LRU order with their leases,
`held` the clones of a cached body still alive outside the cache, `ring` the pending
updates as slots with a head and a length, `subs` the subscription records, `page` the
page's own lease. One action per operation of the client on them (`FetchMiss`,
`FetchHit`, `EvictOldest`, `DropClone`, `UpdateDuringRequest`, `PollQueued`,
`Activate`, `ResizePage`, ...). The ring
is modelled slot by slot, with its wrapping head and the rotation that retires a
scope; `UpdateQueue` is the plain queue it promises to be.

### Aml, Components, Elements, Validate, Markup

Pure algorithms over short token sequences, checked against separately written
definitions. `Aml`: `sanitize`, the scanner's states, the serializer, `resolve_page`.
`Components`: definitions, slots and the expansion with its counts. `Elements`: the
attributes of each element. `Markup`: the recursive-descent parser with its depth and
element limits. `Validate`: the checks of references. The state machine of each
instance only chooses an input and runs it.

### Messages, Wire

`Messages` serializes and parses every message over bodies made of the lexical tokens
the parsers distinguish, with the size and character checks. `Wire` has two endpoints, a
connection that is plain or TLS (with the verifiers' verdicts on a peer that may or may
not hold its key), `send_frame` and `recv_frame` with capability and state checks,
poisoning, streams cut inside a frame, and bytes from a foreign peer.

### SceneGraph, Layout, Compositor, Scene

`SceneGraph` builds the scene from elements and applies the runner's patches with the
journal that undoes them. `Layout` measures and places every kind of node (wrapping,
boxes, tables, rows, memoised measures) on buffers of cells. `Compositor` walks the
retained buffers to rows, and presents full or diffed frames. `Scene` is the frame loop
over them: keys, resizes, live updates, tweens, refused admissions, page changes. It keeps
no history variables: `SceneShown` recomputes from the scene what the screen, focus list,
regions and placed rectangles must be, `EventAtomic` compares before and after.

## 3. The runs

Every run passes. `expect` is never a violation: where a documented claim does not
hold for the code the module keeps the claim as a definition that no run checks, and
the next section lists it.

| run | asks | size of the instance |
|---|---|---|
| `livewatch` | `NoLostWake`, `SubscribedIsWatched`, `BaselineIsShown`, `BudgetRespected`: no publish is missed, nothing is reaped under a subscriber, the UPDATEs add up to the delta baseline, the leases alive stay within the budget | one file, two connections (symmetric), two writes, a stamp that may not change, a budget of 9 that two subscribers overrun |
| `livewatch_converge` | `LiveRegionsConverge`, `AttachAnswered`: without one file-system event every region reaches its file, and every SUBSCRIBE is answered | two files in one directory, one connection, three writes, fair |
| `admission` | `BooksBalance`, `LimitsEnforced`, `ShutdownCompletes`: permits and counters match the tasks, limits hold, shutdown ends whatever the peers do | three tasks, two addresses, two permits, a per-address limit configured as zero, hooks that panic |
| `atplink` | `OneOutstanding`, `NoProtocolViolation`, `ReplyMatchesRequest`, `NoLeakedSubscription`, `OperationEnds` | two origins, two regions, three requests, one pending update, two frames in flight, frames that arrive in parts |
| `viewer` | `NavigationSettles`, `ArtifactsProject`, `SlotsDrained`, `OutstandingAccounted`, `LiveOwned`, `CursorShown` | two pages of different size, three outside events, one redirect, a history of three and of five bytes, pressure at seven sites; a fetched or cached page may need a module; an UNSUBSCRIBE may time out, and `LiveOwned` exempts what that left behind; `CursorShown` exempts what an eviction during a restore shifted |
| `choreography` | `RuntimeMatchesScene`, `ActionsConserved`, `AnnouncedStayFinished`, `LoopReturns`, `DeferredResolves` | three panels, four animations, seven bindings, three inputs, one refused admission |
| `clientstores` | `RevokedGone`, `KeptOnDisk`, `PinsSurvive`, `SentWhereEarned` | one process, two hosts, two per site and in all, five operations, one fault, two stops, a clock to 2. `PinsSurvive` is stated for any number of clients, as section 5 proves it |
| `resources` | `BooksExact`, `WithinLimits`, `CacheExact`, `RingIsQueue` | two keys, two regions, two scopes, cache of two entries, ring of three, six operations |
| `aml` | `RoundTrip`: what the client scans are the author's tokens with the generated ones in place of the includes, less the control characters it strips, unless a generated text or value holds a sequence introducer | pages and includes of every short string over the characters the scanner and the sanitizer tell apart: escapes, carriage returns, other controls and direction marks included |
| `markup` | `GrammarParsed`, `Bounded`, `ReferencesResolve` | token streams of the listed elements (boxes in streams of up to eight), nesting 3, five elements, one definition, two uses; every pair of references, right and wrong, with and without the panel, and in an inline summary |
| `scene` | `SceneShown`, `EventAtomic`: the screen, focus list, regions and placed rectangles follow the scene, and a refused event leaves no trace | five pages with every kind of node, three terminal sizes (another width, another height), faults at the second node of a layout and at every later step of a pass |
| `wire` | `WireFaithful`: a message arrives as meant or not at all; readers agree; negotiation agrees; a pinned peer proved its key | three frames per end, two foreign frames, one cut, every TLS mode and peer |

### Bounds

Numbers that the code leaves free are capped in guards by constants: `MaxWrites`,
`MaxAsks` (LiveWatch), `MaxRequests`, `MaxInFlight` (AtpLink), `MaxEvents`, `MaxHops`
(Viewer), `MaxInputs`, `MaxFaults` (Choreography), `MaxOps`, `MaxClock`, `MaxFaults`,
`MaxStops` (ClientStores), `MaxOps` (Resources), `MaxSends`, `MaxForeign` (Wire),
`PageLen`, `Bodies`, `Streams` (the pure algorithms). Limits of the code are constants
of their own at small values, so that each is met: a cache of two entries evicts, a
ring of three wraps and rotates, a budget of 9 refuses the second read, a history of
three drops its oldest entry, two tokens per site replace.

They are enough in this sense: `PROJECT.json` gives each property a mutant, a
plausible bug in a definition that models code, and TLC finds each of the 40
properties violated by its mutant within the same bounds. For what section 5 proves
the bounds do not matter at all.

`CHECK_DEADLOCK FALSE` is set where the system may stop: at the bounds of the
instance, after shutdown, after the user quit. The live-region watcher never stops, and
its runs check for deadlock.

### Fairness

- LiveWatch: weak fairness of the file operations and of a connection that was woken
  (futures a runtime polls once ready); strong fairness of the reconcile arm and of a
  pending attach, because `tokio::select!` picks at random among ready arms, so an arm
  that is ready again and again is taken. Nothing is assumed of writers or events.
- Admission: weak fairness of runnable tasks, expired deadlines and of time; strong
  fairness of a task's shutdown arm, for the same reason. Peers need not do anything.
- AtpLink: weak fairness of the client at its await, of its timeout, and of the poll
  in the runner's loop. None of the server or the network.
- Choreography: weak fairness of a pass of the event loop and of the poll that returns
  nothing. None of the user.
- Viewer, ClientStores, Resources, Scene, Wire, Aml, Markup: safety only.

## 4. Known divergences

Where the code and a document, comment or test of the repository disagree, or where a
property one would expect does not hold. The names in brackets are definitions no run
checks because the code violates them.

Live regions
- A generation too large for its region moves the delta baseline though nothing was
  sent (`lib.rs:1188` against 248-251) [`ShownIsSomeVersion`]; `BaselineIsShown` states
  what remains true.
- The count of a directory is raised once per file and lowered once per directory that
  empties, so a directory stays watched after its last file left (`live_watch.rs:534`
  against 267-268) [`LastOneUnwatches`].
- A same-length write within one mtime tick of the last read is never noticed; attach
  hands out the previous generation when its refresh fails; resubscribing adds a wake
  sender (`live_watch.rs:601`).

The connection
- An UPDATE that crossed an UNSUBSCRIBE is shown for the next page's region of that
  name (`client.rs:2149` against `02-protocol.md:175`) [`UpdateIsOfThisPage`], or
  fails an operation (`client.rs:2089` against `02-protocol.md:177`)
  [`UpdatesDoNotFailRequests`].
- A connection that a poll finds closed is not opened again until the next request
  (`client.rs:2010` against 1104-1106) [`LiveUpdatesRecover`]; a poll that times out may
  have read part of a frame (`client.rs:1979` against 2016) [`PollsReadWholeFrames`]. The waits for TLS and HELLO have no shutdown
  arm; a WELCOME that arrives late and is consumed by a poll counts as ready, without
  the replay of subscriptions.
- The server's 505 for an unsupported version (`lib.rs:616`) cannot be sent: its
  transport refuses ERROR before the handshake (`transport.rs:355`), though
  `state.rs:56,76` and `tests/conformance/README.md:29` allow it.
- A second HELLO overwrites the offered capabilities before it is refused;
  `ErrorMessage.serialize` writes codes that are not three digits; `encode_body` does
  not validate tokens and scopes; a port may be written "+1985".

Navigation
- The redirect limit is never reached: the depth restarts at every hop
  (`navigation.rs:105` against `02-protocol.md:219`) [`RedirectsBounded`].
- An eviction while a history entry is being restored leaves the entry's index stale
  (`pending_history.target`, `viewer.rs:1605-1640`), so another page may end up under the
  cursor; `CursorShown` says nothing once that happened (`shifted`).
- An UNSUBSCRIBE that times out returns before the client's ownership is cleared
  (`client.rs:1841-1843` against the comment at 1293), and both callers drop the error
  (`client.rs:1295`, `runner.rs:2337`), while the reducer has forgotten its subscriptions
  [`EverySubscriptionOwned`, `RetiredOwnsNothing`]. On the same page the region then
  stops being updated without a message: its updates are for owners the reducer no
  longer knows, and subscribing it again is refused as other metadata
  (`client.rs:1765-1778`).
- A failed activation of a cached page restores "Connected";
  `ForgetDeferred` leaks an outstanding id; the result of a retry after a trust
  decision is dropped; a resize on the error page sets Ready.

Stores and memory
- Two processes on the same files break `RevokedGone`, `SentWhereEarned` and
  `KeptOnDisk`: each rewrites a file from what it read at its start, without a lock. A
  pin is lost the same way when two clients pin or forget side by side
  (`trust.rs:345`) [`PinsSurviveTogether`]; `PinsSurvive` marks those saves as a race
  (`MeetsSave`, `MeetsClient`) and says what remains for any number of clients.
- A restore that is killed after its first save loses the sessions not yet restored
  (`session_file.rs:255`) [`KeptSurvivesCrash`]. A `.tmp` file stays after a crash; a
  pin is recorded in memory before it is persisted.
- Replacing a key in a full
  cache evicts an unrelated entry; a refused insert has already evicted others.

Panels and animations
- Transitions only advance while some animation is unfinished (`runner.rs:3981`
  against 3641) [`TransitionsSettle`]. Toggling a panel again in mid-transition is
  refused, for there is one slot, and ends in evictions and the error page
  [`PanelsKeepWorking`].
- A change of topology during a page transition drops the adapter and leaves its
  overlay [`OverlayOwned`]; a deferred link hangs when its exit animation is stopped or
  reset [`DeferredAlive`]; `SetPanel` commits before its announcement is queued
  (`events.rs:11`), so a full queue loses the announcement [`ChangesAnnounced`].
- A rebuild restarts running animations; an authored stop never announces an end. The
  documents limit cascades to depth 4, the runtime to 16; `select` and
  `scroll-into-view` events are documented and never fired.
- Live regions resubscribe in a storm while one is refused (`runner.rs:4049`).

Pages
- The serializer writes control characters of a text or a value as they are
  (`serialize.rs:115-141`), though "any byte can be escaped" (`serialize.rs:71`) and
  `scan(to_aml(tokens)) == tokens` (lines 25-26): the client's sanitizer strips them
  before it scans, and with a sequence introducer (ESC, CSI, OSC) the characters of the
  sequence after it. Generated text that ends in one may so take the start of the tag
  after it, and a value its closing quote, after which the rest of the page is scanned
  in another state: what lines 14-18 and `include.rs:17-23` rule out
  [`AnyTextRoundTrips`]. `RoundTrip` covers all other text, and says that it loses
  nothing but the characters stripped.
- `[ include` and `[INCLUDE` pass unresolved (`include.rs:106`).
- A void element that is not self-closed inside option, button, art or tween swallows
  the rest of the page; a slot's default is inserted twice (`components.rs:715` against
  `06-interactivity.md:423`); forward references and more than four levels of nesting
  leave component tags in the page (`06-interactivity.md:430`); a nested use of the
  same component closes at the inner tag; an unclosed one swallows the rest.
- The first Text child of a `details` becomes its summary; a heading reorders its
  spans; a styled sole text child loses its style; the validator does not walk the
  summary (`validate.rs:28`), so a reference there may dangle on a page without errors
  [`SummariesResolve`].

Screen
- A closed `details` is built without a body, so opening it shows none
  (`scene/build.rs:1217` against `03-markup.md:159`); the composite walk paints retained
  buffers of inactive panel states (`composite.rs:612` against
  `06-interactivity.md:479`); the index of details differs between `panels.rs` and
  `scene/tree.rs:799`.
- The size-change cascade compares widths and heights only (`runner.rs:7803` against
  7676), relays out panels for their old rectangle, and never moves the siblings of a
  top-level element; an in-place relayout uses the default style.
- After a resize that changes the height only, rows that become visible are not
  drawn: the projection is committed without invalidating the frame
  (`runner.rs:1791-1855`) and the frame is as high as the document, so `present_main` draws what differs from the
  last frame only (`composite.rs:369-400`) [`EveryRowShown`]. `SceneShown` compares the rows
  that have been on the screen since the last full frame.
- Draining the layout of a page with a sticky bar can grow the page past the
  split; the focus highlight of a control can be drawn over the sticky bar. `SceneShown`
  compares the scrolling rows for that reason. It compares them with the walk as the
  code does it, so what the walk leaves in or out (the first point) is not its subject.
- A refused composite of the error page still counts as drawn.
- Where an admission on the way to the error page itself is refused, the code has no
  further fallback; the Scene model takes these to be admitted.

## 5. What is proved

TLAPS checks these for all values of the constants, from the assumptions named in
each module. Every inductive invariant was first checked by TLC as an invariant of
the component's run.

`LiveWatchProofs` (`DirectoryWatchedAlways`, `TypeCorrect`, `NoLostWakeAlways`,
`SubscribedIsWatchedAlways`, `BaselineIsShownAlways`, `BudgetRespectedAlways`). `TypeOK` and the three safety
properties are not inductive: a read in progress publishes what it was asked for, and a
flush goes on from an index. The invariant adds that the job's file is watched and has a
subscriber or an attach to answer (`JobOK`), that an attach's answer is for an entry
still there (`GivenOK`), that a flush has only to send what it has not passed
(`FlushOK`) and that closed connections hold nothing (`ClosedOK`). `BaselineIsShown`
rests on `StripPrefix` (appending the difference to a prefix gives the whole) and
`FlushedShown` (one flush moves baseline and shown text together).

`BudgetRespectedAlways` is about a sum over generations that are shared by identity: one
is charged for once, as long as the registry, some subscription or an answer on its way
points at it (`Pinned`). `LeaseStep` bounds what a step adds to the budget by what it
adds to each of its parts, from `SumOfGrows` (a sum grows by no more than its one new or
larger term); then it remains that a step either pins nothing new, or was let have what
it takes. A publish is the one case that takes without asking: it pins a generation and
gives back the read's lease, which was reserved for the peak of scratch and text, at the
length the stat saw; a file grown since then fails the read. The attach's answer takes
over the lease of its request, and a flush moves to a generation the registry pins
(`SubscribedIsWatched`).

`AdmissionProofs` (`BooksBalanceAlways`, `LimitsEnforcedAlways`). Permits and counters
are cardinalities of sets of tasks; a step moves one task, so it adds or removes one
element. The limits follow because a permit is taken before a task starts and a counter
is compared before it is raised.

`AtpLinkProofs` (`LinkInvariant`, `OneRequestOutstanding`, `TablesAgree`,
`RepliesMatch`, `NothingLeaks`). The invariant relates five things at every await: the
client's phase, both queues, the server's phase, the subscriptions at either end and the
operation in progress. It says which combinations of phase and wire there are
(`Greeting`, `Quiet`, `Outstanding`), that the id the client waits for is the one the
wire carries, that a subscription at the server is of an active region or is about to be
removed by an UNSUBSCRIBE in flight, and that without a connection nothing is in flight.
From it follow that the two tables never refuse each other's frames, though each endpoint
only knows its own, and that replies need no id. The pending queue's elements are not
typed by it, so `AtpLink!TypeOK` is only checked.

`ChoreographyProofs` (`ChoreographyInvariant`, `RuntimeAlwaysMatches`,
`ActionsAlwaysConserved`, `AnnouncedNeverReplayed`), for every page the validator
accepts (`PageAssumption`). `AnnouncedStayFinished` needs that an announced animation is
still built: otherwise a rebuild would start it afresh.

`ResourcesProofs` (`OwnersSound`, `WithinLimitsAlways`, `RingImplementsQueue`). The last
of these is the refinement: every step of the ring, slot by slot, is a step of `UpdateQueue` or a
stutter under `ViewOf`. It needs `RingIndex` (the i-th slot after the head, modulo the
size, is hit once), that every live slot holds an update, that pushing back an update
just popped cannot fail, and that after k turns of a rotation the ring holds the
untouched rest followed by what was kept of the first k.

`BookedAlways`, `BooksExactAlways` and `CacheExactAlways` (same module) are about sums.
The books are read one gauge at a time (`Gauges`: the bytes, and the units and the leases
of each category), so that a reservation adds to a gauge, a release takes from it, and
books that read the same on every gauge are the same (`SameBooks`). The invariant
(`Booked`) says that each gauge reads what the owners have leased:
the queue, the subscriptions, the update in hand, the page and the cache. A cached body
is shared, so an entry stands for its key's lease, and for its bytes unless a clone of it
is out, in which case the clone does (`Owed`): a clone handed out or dropped moves the
bytes from one term to the other (`HoldOne`), an entry evicted gives back just what it
stood for. This needs that clones are known by their numbers and the number of a new
entry is nobody's (`Shared`, `NextRidFresh`). `saturating_sub` never saturates on the way,
since what is released is always a term of the sum. For `insert`, `Keeps` is what both of
its eviction loops preserve, whatever they evict and whether or not the governor admits
the bytes in the end (`InsertExact`).

`ClientStoresProofs` (`StoresInvariant`, `RevokedGoneAlways`, `PinsSurviveAlways`,
`SentWhereEarnedAlways`, `KeptOnDiskAlways`, `TypeCorrect`). `PinsSurviveAlways` is for any
number of clients on the same files: a client holds what is recorded, one that saves will
install what is recorded with its change (`PinsHeld`), and while it saves no other client
is up (`PinsOnly`), until a save fails or meets another client. The others are under `Alone`: one process uses the
files, any process it is. Section 4 says why that is needed; a launch may stop and start
any number of times. The first invariant collects the sessions known anywhere
(memory, those still to be restored, the save's body, the files): a token belongs to
the site that issued it and names one session; a revoked one is known nowhere except in
a file that the save in progress is about to replace; and a rename installs what the job
holds. The second (`KeptInv`) is about what must not be lost: memory with what is to be
restored, every file and the body under way are within the admission bounds, with one
session per scope, so that restoring a file neither refuses nor replaces anything; what
is remembered came from verified issuers, because a line on disk carries no security
label and a restore gives it that one; and it is on disk unless a restore is rewriting
the file, when it is in memory or still to be restored.

`ViewerProofs` (`DispatchCorrect`, `AssertionsHold`, `NavigationsSettle`,
`ArtifactsProjected`, `SlotsAreDrained`, `RequestsAccounted`, `LiveIsOwned`,
`CursorIsShown`), for any pages, origins, history limits, pressure sites and number of
events. The six properties speak of a viewer with an empty queue, and between two effects
none of them holds: the history is committed before the artifact is installed, a request
is outstanding until its effect is answered. The invariant therefore describes the queue:

- Its shape (`Stage`). One event's effects are queued at a time, and they are: trivial
  ones (drawing, closing, releases), then at most one other effect or one pair (a
  connection and the request on it, a module and the layout of its page), then drawing.
- What the effect at the front finds (`SoloOK`, `NavOK`, `PairOK`, `ErrorOK`): it belongs
  to the current scope, its request is outstanding and no other is without a holder
  (`Accounted`), exactly its input is staged, a restore under way can still be undone
  (`Pending`).
- How far the renderer lags (`Projects`): it holds the artifacts of the history, less
  those queued to be installed, plus those queued to be released.
- Three detours, read through what they lead to: an effect that ran out of memory is held
  back while room is made (`Evicting`: with it at the front again the queue is good); the
  reducer has left a scope whose work is still to be retired (`RetiringWork`), or
  subscriptions whose regions are still live (`RetiringSubs`). Shutdown is the last
  (`Closing`).

With an empty queue only `AtRest` is left (`QuietRest`), and the six follow. The same
conditions at the front show that none of the runner's assertions fires
(`AssertionsHold`), so that the properties are not about a viewer that has panicked.
`NoneAssumption` says that `None` is no page, scope, slot, effect or record of the
reducer, as `Option::None` is no value of the type it wraps.

`DataLemmas` holds the lemmas several proofs need. Its `LeastNat` (a non-empty set of
naturals has a least element) gives induction over a range (`IntervalInduction`) and the
existence of a recursively defined function (`RecursionExists`) without operators as
parameters. Sums are recursive functions in `Totals`, not the folds of the community
modules: `Total` adds up a sequence; `SumOf` adds up a function over a finite domain, in
whatever order its members are listed (`WeightOfLists`, `SumOfSplit`, `SumOfGrows`).

### Only model-checked

- All liveness (`LiveRegionsConverge`, `AttachAnswered`, `ShutdownCompletes`,
  `OperationEnds`, `LoopReturns`, `DeferredResolves`): liveness under fairness and
  ENABLED are out of the prover's reach.
- `RoundTrip`, `GrammarParsed`, `Bounded`, `ReferencesResolve`, `SceneShown`,
  `EventAtomic`, `WireFaithful`: they are about recursive algorithms (`Aml`,
  `Components`, `Markup`, `Validate`, `Messages`, `Wire`, `SceneGraph`, `Layout`,
  `Compositor`, `Scene`) written with RECURSIVE operators, which the prover does not
  read, and for which induction over data would be needed.

## 6. Not modelled

- Client configuration, argument parsing, certificates and the checker command: read
  once at the start, no state afterwards.
- The WASM host's fuel, memory and frame limits: enforced by the embedded engine; the
  effect modules are drawing code. Loading, failing and rejecting a module is in Viewer.
- Server input and session handlers: per request and stateless.
- Scene patches that change the tree's shape (`InsertNode`, `RemoveNode`,
  `ReplaceChildren`), `SetPlacement`, `SetVisible`, `SetZIndex`, `SetScroll` and
  overlays: nothing in the program sends them.
- Styles other than underline and background, wide glyphs in focusables, the HUD and
  status line, escape sequences, URL encoding of forms.
- Sends in AtpLink are atomic: a write that times out half-way (`client.rs:2061`) is the
  one hazard of `PROJECT.json` that no definition states.

## 7. Plan

Every safety property that a run checks on a module without RECURSIVE operators is proved.
Next: sends in parts in AtpLink.
