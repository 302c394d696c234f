---------------------------- MODULE ClientStores ----------------------------
(***************************************************************************)
(* What the client keeps on disk: remembered sessions (session.rs,         *)
(* session_store.rs, session_file.rs) and pinned certificates (trust.rs,   *)
(* the TLS policy of client.rs), written by processes that may be killed   *)
(* between any two system calls, on a disk that may refuse a call.         *)
(*                                                                         *)
(* A file name is bound to an inode.  A writer opens the temporary name,   *)
(* truncating what is there, writes through its descriptor, and renames:   *)
(* where its descriptor points when another process renames first is the   *)
(* field at of its job.  Token text, host names and fingerprints are       *)
(* abstract values; a scope is a sequence of path segments and whether it  *)
(* ends in a slash.                                                        *)
(***************************************************************************)
EXTENDS Naturals, Sequences, FiniteSets, Subsequences

CONSTANTS
    Procs,           \* client processes sharing the user's files
    Hosts, Vouched,  \* sites, and those a certification authority vouches for
    Modes,           \* TLS modes a process may be started with
    Segments, Scopes, Paths,   \* path segments, session scopes and request paths
    Expiries,        \* the times at which a session may expire
    Certs,           \* certificates a site may present
    None,
    MaxPerSite, MaxTotal,   \* MAX_SESSIONS_PER_SITE, MAX_TOTAL_SESSIONS
    MaxOps, MaxClock, MaxFaults, MaxStops   \* bounds of the run

Scope == [segs : Seq(Segments), dir : BOOLEAN]
Securities == {"PlaintextLoopback", "InsecureTls", "PinnedTls", "VerifiedTls"}
Site == [host : Hosts, sec : Securities]
Session == [org : Site, scope : Scopes, tok : Nat, exp : Nat \cup {None}]
Line == [host : Hosts, scope : Scopes, tok : Nat, exp : Nat]
Pins == UNION {[known -> Certs] : known \in SUBSET Hosts}
SessionFile == [body : Seq(Line), whole : BOOLEAN]
PinFile == [body : Pins, whole : BOOLEAN]

ASSUME StoresAssumption ==
    /\ MaxPerSite \in Nat \ {0} /\ MaxTotal \in Nat \ {0}
    /\ Vouched \subseteq Hosts /\ Scopes \subseteq Scope /\ Paths \subseteq Seq(Segments)
    /\ Expiries \subseteq Nat /\ None \notin Nat \cup Certs \cup SessionFile \cup PinFile

VARIABLES
    proc,      \* the processes
    disk,      \* the two files and their temporary names
    clock, ops, faults, stops,
    earned,    \* token -> the origin that issued it
    revoked,   \* tokens whose clearing was carried out
    kept,      \* sessions whose save returned, not since cleared or replaced
    recorded,  \* host -> certificate whose pin was recorded and not forgotten
    sent,      \* the last request: [tok, org, path] or None
    broken     \* what a fault, a kill or another client has left undone

vars == <<proc, disk, clock, ops, faults, stops, earned, revoked, kept, recorded,
          sent, broken>>
counters == <<clock, ops, faults, stops>>

File == {"sessions", "pins"}
Absent == [main |-> None, tmp |-> None]
Range1(s) == {s[i] : i \in DOMAIN s}
Down == [st |-> "down", mode |-> None, mem |-> <<>>, pins |-> <<>>, todo |-> <<>>,
         kept |-> 0, stored |-> 0, job |-> None]

(***************************************************************************)
(* The session store in memory                                             *)
(***************************************************************************)
InOrigin(mem, org) == {i \in DOMAIN mem : mem[i].org = org}
InScope(mem, org, scope) == {i \in InOrigin(mem, org) : mem[i].scope = scope}
First(I) == CHOOSE i \in I : \A j \in I : i <= j
Without(mem, i) == SubSeq(mem, 1, i - 1) \o SubSeq(mem, i + 1, Len(mem))

Refused(mem, e) ==
    /\ InScope(mem, e.org, e.scope) = {}
    /\ Cardinality(InOrigin(mem, e.org)) < MaxPerSite
    /\ Len(mem) >= MaxTotal

\* Replaces the token of the same scope in place; at the site bound the
\* oldest token of the site makes room.
try_set_token(mem, e) ==
    IF InScope(mem, e.org, e.scope) # {}
    THEN [mem EXCEPT ![First(InScope(mem, e.org, e.scope))] = e]
    ELSE IF Cardinality(InOrigin(mem, e.org)) >= MaxPerSite
    THEN Append(Without(mem, First(InOrigin(mem, e.org))), e)
    ELSE Append(mem, e)

Live(e) == e.exp = None \/ e.exp > clock

IsPrefixSeq(a, b) == Len(a) <= Len(b) /\ SubSeq(b, 1, Len(a)) = a
\* "/" and equality match; otherwise the scope is a prefix that ends at a
\* segment boundary, and one written with a slash does not match itself bare.
scope_matches(scope, path) ==
    \/ scope.segs = <<>>
    \/ IsPrefixSeq(scope.segs, path) /\ (scope.dir => Len(path) > Len(scope.segs))
ScopeLen(scope) == 2 * Len(scope.segs) + (IF scope.dir THEN 1 ELSE 0)

find_token(mem, org, path) ==
    LET fit == {e \in Range1(mem) : e.org = org /\ scope_matches(e.scope, path) /\ Live(e)}
    IN IF fit = {} THEN None
       ELSE CHOOSE e \in fit : \A x \in fit : ScopeLen(x.scope) <= ScopeLen(e.scope)

(***************************************************************************)
(* The session file                                                        *)
(***************************************************************************)
EligibleAny(e) == e.exp # None /\ e.exp > clock
Eligible(e) == e.org.sec = "VerifiedTls" /\ e.exp # None /\ e.exp > clock
\* Written without a security label, and read back as VerifiedTls.
LineOf(e) == [host |-> e.org.host, scope |-> e.scope, tok |-> e.tok, exp |-> e.exp]
Lines(es) == {LineOf(e) : e \in es}
EntryOf(l) == [org |-> [host |-> l.host, sec |-> "VerifiedTls"], scope |-> l.scope,
               tok |-> l.tok, exp |-> l.exp]
Written(mem) ==
    LET lines == Subsequence(mem, {i \in DOMAIN mem : Eligible(mem[i])})
    IN [i \in DOMAIN lines |-> LineOf(lines[i])]
LoadedEarly(lines) ==
    LET live == Subsequence(lines, {i \in DOMAIN lines : lines[i].exp > clock + 1})
    IN [i \in DOMAIN live |-> EntryOf(live[i])]
Loaded(lines) ==
    LET live == Subsequence(lines, {i \in DOMAIN lines : lines[i].exp > clock})
    IN [i \in DOMAIN live |-> EntryOf(live[i])]

(***************************************************************************)
(* The TLS policy                                                          *)
(***************************************************************************)
PinOf(pins, host) == IF host \in DOMAIN pins THEN pins[host] ELSE None
pinned(s, host) ==
    IF s.mode \in {"Verified", "TrustOnFirstUse"} THEN PinOf(s.pins, host) ELSE None
security_for(s, host) ==
    CASE s.mode = "PlaintextLoopback" -> "PlaintextLoopback"
      [] s.mode = "Insecure" -> "InsecureTls"
      [] s.mode = "TrustOnFirstUse" -> "PinnedTls"
      [] OTHER -> IF pinned(s, host) # None THEN "PinnedTls" ELSE "VerifiedTls"
\* A handshake that gets through: the site presents what the mode accepts.
Connects(s, host) ==
    \/ s.mode \in {"PlaintextLoopback", "Insecure"}
    \/ pinned(s, host) # None
    \/ s.mode = "Verified" /\ host \in Vouched
OriginFor(s, host) == [host |-> host, sec |-> security_for(s, host)]

(***************************************************************************)
(* Replacing a file: create_dir_all, open, write and sync, rename.  A job  *)
(* is one such replacement; save of an empty session store only removes.   *)
(***************************************************************************)
Job(file, body, why, next, what) ==
    [file |-> file, body |-> body, why |-> why, next |-> next, what |-> what,
     step |-> IF file = "sessions" /\ body = <<>> THEN "remove" ELSE "open",
     at |-> "tmp"]
\* what is the session, or the pin, the operation is about.
SaveSessions(s, why, next, what) ==
    [s EXCEPT !.st = "saving", !.job = Job("sessions", Written(s.mem), why, next, what)]
SavePinsOnlyNew(s, next, what) ==
    [s EXCEPT !.st = "saving",
              !.job = Job("pins", [h \in {what.host} \cap DOMAIN s.pins |-> s.pins[h]],
                          "pin", next, what)]
SavePins(s, next, what) ==
    [s EXCEPT !.st = "saving", !.job = Job("pins", s.pins, "pin", next, what)]

WithPin(pins, host, cert) ==
    [h \in DOMAIN pins \cup {host} |-> IF h = host THEN cert ELSE pins[h]]
WithoutPin(pins, host) == [h \in DOMAIN pins \ {host} |-> pins[h]]
Recorded(what) == IF what.cert = None THEN WithoutPin(recorded, what.host)
                  ELSE WithPin(recorded, what.host, what.cert)
Finished(s) == IF s.job.next = "down" THEN Down ELSE [s EXCEPT !.st = s.job.next, !.job = None]

SaveOpen(p) ==
    /\ proc[p].st = "saving" /\ proc[p].job.step = "open"
    /\ disk' = [disk EXCEPT ![proc[p].job.file].tmp = [body |-> <<>>, whole |-> FALSE]]
    /\ proc' = [proc EXCEPT ![p].job.step = "write", ![p].job.at = "tmp"]
    /\ UNCHANGED <<counters, earned, revoked, kept, recorded, sent, broken>>

\* The descriptor still points at the inode opened, whatever its name is now.
SaveWrite(p) ==
    LET j == proc[p].job
        whole == [body |-> j.body, whole |-> TRUE]
    IN /\ proc[p].st = "saving" /\ j.step = "write"
       /\ disk' = IF j.at = "gone" THEN disk
                  ELSE IF j.at = "main" THEN [disk EXCEPT ![j.file].main = whole]
                  ELSE [disk EXCEPT ![j.file].tmp = whole]
       /\ proc' = [proc EXCEPT ![p].job.step = "rename"]
       /\ UNCHANGED <<counters, earned, revoked, kept, recorded, sent, broken>>

Unexpired(ls, now) == {l \in ls : l.exp > now}
MovedOn(q, p, file) ==
    IF q = p \/ proc[q].job = None THEN proc[q]
    ELSE IF proc[q].job.file # file THEN proc[q]
    ELSE [proc[q] EXCEPT !.job.at = IF @ = "tmp" THEN "main" ELSE "gone"]
Renamed(p) ==
    LET j == proc[p].job
    IN /\ disk' = [disk EXCEPT ![j.file] = [main |-> @.tmp, tmp |-> None]]
       /\ proc' = [q \in Procs |-> IF q = p THEN Finished(proc[p]) ELSE MovedOn(q, p, j.file)]
       /\ kept' = IF j.file = "sessions" THEN Unexpired(kept \cup j.what, clock) ELSE kept
       /\ recorded' = IF j.file = "pins" THEN Recorded(j.what) ELSE recorded
       /\ UNCHANGED broken

Remove(p) ==
    LET j == proc[p].job
    IN /\ proc[p].st = "saving" /\ j.step \in {"remove", "delete"}
       /\ disk' = [disk EXCEPT ![j.file].main = None]
       /\ proc' = [proc EXCEPT ![p] = Finished(@)]
       /\ kept' = IF j.step = "delete" THEN {} ELSE kept
       /\ UNCHANGED <<counters, earned, revoked, recorded, sent, broken>>

SaveFailedGivesUp(p) ==
    /\ proc' = [proc EXCEPT ![p] = Finished(@)]
    /\ broken' = broken \cup {proc[p].job.file}
\* persist_after_set gives up; persist_after_clear deletes the file instead;
\* a pin that cannot be written stays in memory and the error is returned.
SaveFailed(p) ==
    LET j == proc[p].job
    IN IF j.why = "clear" /\ j.step # "delete"
       THEN proc' = [proc EXCEPT ![p].job.step = "delete"] /\ UNCHANGED broken
       ELSE /\ proc' = [proc EXCEPT ![p] = Finished(@)]
            /\ broken' = broken \cup {IF j.why = "clear" THEN "remove" ELSE j.file}

SaveFails(p) ==
    /\ proc[p].st = "saving" /\ faults < MaxFaults
    /\ SaveFailed(p)
    /\ faults' = faults + 1
    /\ UNCHANGED <<disk, clock, ops, stops, earned, revoked, kept, recorded, sent>>
\* The rename fails when another process has renamed the name away.
SaveRename(p) ==
    /\ proc[p].st = "saving" /\ proc[p].job.step = "rename"
    /\ IF disk[proc[p].job.file].tmp # None THEN Renamed(p)
       ELSE SaveFailed(p) /\ UNCHANGED <<disk, kept, recorded>>
    /\ UNCHANGED <<counters, earned, revoked, sent>>

(***************************************************************************)
(* Starting, stopping and restoring                                        *)
(***************************************************************************)
\* A half-written session file restores nothing, and so does one that cannot
\* be read; a pin file that cannot be read ends the process.
LinesOnDisk ==
    LET f == disk["sessions"].main
    IN IF f = None THEN <<>> ELSE IF f.whole THEN f.body ELSE <<>>
PinsOnDisk == LET f == disk["pins"].main IN IF f = None THEN <<>> ELSE f.body
\* No lock is taken on the files: a client loads the pins at its start and
\* writes back what it holds, whatever another has recorded since.
SavingPins(s) == s.st = "saving" /\ s.job.file = "pins"
MeetsSave(p) == IF \E q \in Procs \ {p} : SavingPins(proc[q]) THEN {"race"} ELSE {}
MeetsClient(p) == IF \E q \in Procs \ {p} : proc[q].st # "down" THEN {"race"} ELSE {}
Starting(p, mode, todo) ==
    proc' = [proc EXCEPT ![p] = [Down EXCEPT !.st = "restoring", !.mode = mode,
                                             !.pins = PinsOnDisk, !.todo = todo,
                                             !.stored = Len(todo)]]
Start(p) ==
    /\ proc[p].st = "down" /\ ops < MaxOps
    /\ \E mode \in Modes : Starting(p, mode, Loaded(LinesOnDisk))
    /\ ops' = ops + 1 /\ broken' = broken \cup MeetsSave(p)
    /\ UNCHANGED <<disk, clock, faults, stops, earned, revoked, kept, recorded, sent>>
StartUnreadable(p) ==
    /\ proc[p].st = "down" /\ ops < MaxOps /\ faults < MaxFaults
    /\ \E mode \in Modes : Starting(p, mode, <<>>)
    /\ ops' = ops + 1 /\ faults' = faults + 1
    /\ broken' = broken \cup {"restore"} \cup MeetsSave(p)
    /\ UNCHANGED <<disk, clock, stops, earned, revoked, kept, recorded, sent>>

\* restore replays each line through apply_directive, and apply_directive
\* saves: the file is rewritten from the part restored so far.
RestoreOne(p) ==
    /\ proc[p].st = "restoring" /\ proc[p].todo # <<>>
    /\ LET s == proc[p]
           e == Head(s.todo)
           rest == [s EXCEPT !.todo = Tail(@)]
           set == [rest EXCEPT !.mem = try_set_token(@, e), !.kept = @ + 1]
       IN proc' = [proc EXCEPT ![p] = IF Refused(s.mem, e) THEN rest
                                      ELSE SaveSessions(set, "set", "restoring", {})]
    /\ UNCHANGED <<disk, counters, earned, revoked, kept, recorded, sent, broken>>
RestoreEnds(p) ==
    /\ proc[p].st = "restoring" /\ proc[p].todo = <<>>
    /\ LET s == proc[p]
       IN proc' = [proc EXCEPT ![p] = IF s.kept = s.stored THEN [s EXCEPT !.st = "idle"]
                                      ELSE SaveSessions(s, "set", "idle", {})]
    /\ UNCHANGED <<disk, counters, earned, revoked, kept, recorded, sent, broken>>

\* The process exits or is killed, at any point.
Stop(p) ==
    /\ proc[p].st # "down" /\ stops < MaxStops
    /\ LET s == proc[p]
           replaying == s.st = "restoring" \/ (s.st = "saving" /\ s.job.next = "restoring")
           lost == (IF replaying THEN {"restore"} ELSE {})
                   \cup (IF s.st = "saving" /\ s.job.why = "clear" THEN {"remove"} ELSE {})
       IN broken' = broken \cup lost
    /\ proc' = [proc EXCEPT ![p] = Down]
    /\ stops' = stops + 1
    /\ UNCHANGED <<disk, clock, ops, faults, earned, revoked, kept, recorded, sent>>

Tick ==
    /\ clock < MaxClock /\ clock' = clock + 1
    /\ kept' = Unexpired(kept, clock')
    /\ UNCHANGED <<proc, disk, ops, faults, stops, earned, revoked, recorded, sent, broken>>

(***************************************************************************)
(* Directives and commands                                                 *)
(***************************************************************************)
Operating(p) == proc[p].st = "idle" /\ ops < MaxOps /\ ops' = ops + 1

SetSession(p) ==
    /\ Operating(p)
    /\ \E host \in Hosts, scope \in Scopes, exp \in Expiries \cup {None} :
         LET s == proc[p]
             tok == Cardinality(DOMAIN earned) + 1
             e == [org |-> OriginFor(s, host), scope |-> scope, tok |-> tok, exp |-> exp]
             mem == try_set_token(s.mem, e)
             set == [s EXCEPT !.mem = mem]
         IN /\ Connects(s, host) /\ ~Refused(s.mem, e)
            /\ proc' = [proc EXCEPT ![p] =
                          SaveSessions(set, "set", "idle",
                                       IF Eligible(e) THEN Lines({e}) ELSE {})]
            /\ earned' = [t \in DOMAIN earned \cup {tok} |->
                              IF t = tok THEN e.org ELSE earned[t]]
            /\ kept' = kept \ Lines(Range1(s.mem) \ Range1(mem))
    /\ UNCHANGED <<disk, clock, faults, stops, revoked, recorded, sent, broken>>

\* Clear-Session, :sessions clear <site> and :sessions clear differ in what
\* they drop.
Clear(p, gone) ==
    /\ Operating(p)
    /\ LET s    == proc[p]
           left == Subsequence(s.mem, {i \in DOMAIN s.mem : s.mem[i] \notin gone})
       IN /\ proc' = [proc EXCEPT ![p] =
                          SaveSessions([s EXCEPT !.mem = left], "clear", "idle", {})]
          /\ revoked' = revoked \cup {e.tok : e \in gone}
          /\ kept' = kept \ Lines(gone)
    /\ UNCHANGED <<disk, clock, faults, stops, earned, recorded, sent, broken>>

ClearSession(p) ==
    \E host \in Hosts, scope \in Scopes :
        Clear(p, {e \in Range1(proc[p].mem) : e.org = OriginFor(proc[p], host) /\ e.scope = scope})

ClearStorageKey(p) ==
    \E host \in Hosts, sec \in {"VerifiedTls", "PinnedTls"} :
        Clear(p, {e \in Range1(proc[p].mem) : e.org = [host |-> host, sec |-> sec]})

ClearAll(p) == Clear(p, Range1(proc[p].mem))

\* session_for_origin, as GET and INPUT call it.
SendRequest(p) ==
    /\ Operating(p)
    /\ \E host \in Hosts, path \in Paths :
         LET org == OriginFor(proc[p], host)
             e == IF proc[p].mode = "PlaintextLoopback" THEN None
                  ELSE find_token(proc[p].mem, org, path)
         IN /\ Connects(proc[p], host) /\ e # None
            /\ sent' = [tok |-> e.tok, scope |-> e.scope, exp |-> e.exp, at |-> clock,
                        org |-> org, path |-> path]
    /\ UNCHANGED <<proc, disk, clock, faults, stops, earned, revoked, kept, recorded, broken>>

\* A site without a pin: pinned unasked in trust-on-first-use mode, and in the
\* verified mode, where no authority vouches for it, when the user accepts.
PinSite(p) ==
    /\ Operating(p)
    /\ \E host \in Hosts, cert \in Certs :
         LET s == proc[p]
         IN /\ pinned(s, host) = None
            /\ \/ s.mode = "TrustOnFirstUse"
               \/ s.mode = "Verified" /\ host \notin Vouched
            /\ proc' = [proc EXCEPT ![p] =
                          SavePins([s EXCEPT !.pins = WithPin(@, host, cert)], "idle",
                                   [host |-> host, cert |-> cert])]
    /\ broken' = broken \cup MeetsClient(p)
    /\ UNCHANGED <<disk, clock, faults, stops, earned, revoked, kept, recorded, sent>>
\* dustnet trust forget: a process that loads, drops one pin and persists.
ForgetSite(p) ==
    /\ proc[p].st = "down" /\ ops < MaxOps /\ ops' = ops + 1
    /\ \E host \in DOMAIN PinsOnDisk :
         proc' = [proc EXCEPT ![p] =
            SavePins([Down EXCEPT !.pins = WithoutPin(PinsOnDisk, host)], "down",
                     [host |-> host, cert |-> None])]
    /\ broken' = broken \cup MeetsClient(p)
    /\ UNCHANGED <<disk, clock, faults, stops, earned, revoked, kept, recorded, sent>>

Init ==
    /\ proc = [p \in Procs |-> Down]
    /\ disk = [f \in File |-> Absent]
    /\ clock = 0 /\ ops = 0 /\ faults = 0 /\ stops = 0
    /\ earned = <<>> /\ revoked = {} /\ kept = {} /\ recorded = <<>>
    /\ sent = None /\ broken = {}

Next ==
    \/ Tick
    \/ \E p \in Procs :
         \/ Start(p) \/ StartUnreadable(p) \/ RestoreOne(p) \/ RestoreEnds(p) \/ Stop(p)
         \/ SaveOpen(p) \/ SaveWrite(p) \/ SaveRename(p) \/ Remove(p)
         \/ SaveFails(p)
         \/ SetSession(p) \/ ClearSession(p) \/ ClearStorageKey(p) \/ ClearAll(p)
         \/ SendRequest(p) \/ PinSite(p) \/ ForgetSite(p)

Spec == Init /\ [][Next]_vars

(***************************************************************************)
(* Properties                                                              *)
(***************************************************************************)
Settled(p) == proc[p].st \in {"idle", "down"}
AllSettled == \A p \in Procs : Settled(p)

SessionJob == [file : {"sessions"}, body : Seq(Line), why : {"set", "clear"},
               next : {"idle", "restoring"}, what : SUBSET Line,
               step : {"open", "write", "rename", "remove", "delete"},
               at : {"tmp", "main", "gone"}]
PinJob == [file : {"pins"}, body : Pins, why : {"pin"}, next : {"idle", "down"},
           what : [host : Hosts, cert : Certs \cup {None}],
           step : {"open", "write", "rename"}, at : {"tmp", "main", "gone"}]
JobType(j) == IF j.file = "sessions" THEN j \in SessionJob ELSE j \in PinJob
ProcessType(s) ==
    /\ s \in [st : {"down", "restoring", "idle", "saving"}, mode : Modes \cup {None},
              mem : Seq(Session), pins : Pins, todo : Seq(Session), kept : Nat,
              stored : Nat, job : {s.job}]
    /\ IF s.st = "saving" THEN JobType(s.job) ELSE s.job = None

\* Shape of the processes and of the files, and the admission bounds on the
\* sessions in memory (a restored file is admitted like a server's directives).
TypeOK ==
    /\ DOMAIN proc = Procs
    /\ \A p \in Procs :
         /\ ProcessType(proc[p])
         /\ Len(proc[p].mem) <= MaxTotal
         /\ \A e \in Range1(proc[p].mem) :
               Cardinality(InOrigin(proc[p].mem, e.org)) <= MaxPerSite
    /\ disk["sessions"] \in [main : SessionFile \cup {None}, tmp : SessionFile \cup {None}]
    /\ disk["pins"] \in [main : PinFile \cup {None}, tmp : PinFile \cup {None}]
    /\ recorded \in Pins

\* Revocation reaches the disk: once a clear has returned, the token is in no
\* file a later launch would restore, through failing writes too, unless the
\* deletion itself failed or the process died during the clear.
RevokedGone ==
    (AllSettled /\ "remove" \notin broken) =>
        /\ \A l \in Range1(LinesOnDisk) : l.tok \notin revoked
        /\ \A p \in Procs : \A e \in Range1(proc[p].mem) : e.tok \notin revoked

\* Remembered sessions stay remembered: a session whose save returned, and
\* which nothing cleared, replaced, evicted or outlived, is on disk whenever
\* nothing is being written, if no write failed and no restore was cut short.
KeptOnDisk ==
    (AllSettled /\ broken = {}) => kept \subseteq Range1(LinesOnDisk)

\* The same without the exception for a restore that was cut short: a crash
\* leaves the previous store.
KeptSurvivesCrash ==
    (AllSettled /\ broken \subseteq {"restore"} /\ faults = 0) =>
        kept \subseteq Range1(LinesOnDisk)

\* The pins on disk are exactly those recorded and not forgotten, and every
\* client at rest honours those, through kills and leftover temporary files,
\* however many clients have run on them, as long as no save of the pins failed
\* and none met another client: two that pin or forget side by side are the
\* exception ("race").
PinsHonoured ==
    /\ PinsOnDisk = recorded
    /\ \A p \in Procs : proc[p].st = "idle" => proc[p].pins = recorded
PinsSurvive ==
    (AllSettled /\ "pins" \notin broken /\ "race" \notin broken) => PinsHonoured

\* The same for clients side by side: a pin recorded is never lost.
PinsSurviveTogether == (AllSettled /\ "pins" \notin broken) => PinsHonoured

\* A token goes only to the origin, security level included, that issued it,
\* within its scope, before it expires, and not once it was revoked (with the
\* exception of RevokedGone); a launch in between, which reads a file without
\* security labels, changes nothing.
SentWhereEarned ==
    [][sent' # sent =>
        /\ sent'.org = earned[sent'.tok]
        /\ "remove" \notin broken => sent'.tok \notin revoked
        /\ IsPrefixSeq(sent'.scope.segs, sent'.path)
        /\ sent'.exp # None => sent'.exp > clock]_vars
=============================================================================
