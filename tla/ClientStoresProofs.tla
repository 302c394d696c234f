--------------------------- MODULE ClientStoresProofs ---------------------------
(***************************************************************************)
(* ClientStores: what revocation, the choice of a token and a save that    *)
(* returned promise, for one process on the user's files, any sessions,    *)
(* limits, clock and faults.  Two processes that share the files break     *)
(* these: the code takes no lock on them.  What the pins promise is for    *)
(* any number of processes, and names the meeting that breaks it.          *)
(***************************************************************************)
EXTENDS ClientStores, DataLemmas, SequenceTheorems

\* One process uses the files.
Alone == \E p \in Procs : Procs = {p}

\* The sessions a process and the files hold between them, as entries.
Entries(lines) == {EntryOf(l) : l \in Range1(lines)}
InFile(f) == IF f = None THEN {} ELSE Entries(f.body)
InJob(s) == IF s.st = "saving" /\ s.job.file = "sessions" THEN Entries(s.job.body) ELSE {}
InMemory(s) == Range1(s.mem) \cup Range1(s.todo)
Known(s) == InMemory(s) \cup InJob(s)
            \cup InFile(disk["sessions"].main) \cup InFile(disk["sessions"].tmp)

\* A token belongs to the site that issued it, wherever it lies, and names one
\* session.
Tokens(S) ==
    /\ \A e \in S : e.tok \in DOMAIN earned /\ earned[e.tok] = e.org
    /\ \A e, f \in S : e.tok = f.tok => e = f
Issued ==
    /\ Cardinality(DOMAIN earned) \in Nat
    /\ DOMAIN earned = 1 .. Cardinality(DOMAIN earned)
    /\ revoked \subseteq DOMAIN earned

\* A save holds what its writes have left of it, so a rename installs all of it.
Progress(s) ==
    s.st = "saving" =>
        /\ s.job.at = "tmp"
        /\ s.job.step = "rename" =>
              disk[s.job.file].tmp = [body |-> s.job.body, whole |-> TRUE]
        /\ s.job.step = "delete" => s.job.why = "clear"

\* Nothing is left to replay once a process takes commands.
Replayed(s) ==
    s.st = "idle" \/ (s.st = "saving" /\ s.job.next # "restoring") => s.todo = <<>>

\* A cleared session is nowhere a launch could find it, except in the file that
\* the clearing is about to replace.
Live1(S) == \A e \in S : e.tok \notin revoked
Clearing(s) == s.st = "saving" /\ s.job.why = "clear"
Revocation(s) ==
    "remove" \notin broken =>
        /\ Live1(InMemory(s)) /\ Live1(InJob(s))
        /\ ~Clearing(s) => Live1(InFile(disk["sessions"].main))

\* The pins on disk are the recorded ones; a save in progress holds the next.
Pinned(s) ==
    "pins" \notin broken =>
        /\ PinsOnDisk = recorded
        /\ IF s.st = "saving" /\ s.job.file = "pins"
           THEN s.job.body = s.pins /\ s.pins = Recorded(s.job.what)
           ELSE s.st # "down" => s.pins = recorded

ProcessInv(s) ==
    /\ ProcessType(s) /\ Progress(s) /\ Replayed(s)
    /\ Tokens(Known(s)) /\ Revocation(s) /\ Pinned(s)
FilesType ==
    /\ DOMAIN disk = File
    /\ disk = [f \in File |-> disk[f]]
    /\ disk["sessions"] \in [main : SessionFile \cup {None}, tmp : SessionFile \cup {None}]
    /\ disk["pins"] \in [main : PinFile \cup {None}, tmp : PinFile \cup {None}]
Shared == FilesType /\ Issued /\ recorded \in Pins /\ clock \in Nat
Inv ==
    /\ Shared
    /\ proc = [p \in Procs |-> proc[p]]
    /\ \A p \in Procs : ProcessInv(proc[p])

-----------------------------------------------------------------------------
(* Sequences of sessions and lines.                                        *)

LEMMA SubsequenceRange ==
    ASSUME NEW S, NEW seq \in Seq(S), NEW I \in SUBSET DOMAIN seq
    PROVE  Range1(Subsequence(seq, I)) = {seq[i] : i \in I}
<1> DEFINE sub == Subsequence(seq, I)
           n == Cardinality(I)
<1>1. /\ DOMAIN sub = 1 .. n
      /\ \A k \in 1 .. n : Nth(I, k) \in I /\ sub[k] = seq[Nth(I, k)]
      /\ \A i \in I : \E k \in 1 .. n : Nth(I, k) = i
  BY SubsequenceProperties
<1> HIDE DEF sub, n
<1>2. Range1(sub) \subseteq {seq[i] : i \in I}
  BY <1>1 DEF Range1
<1>3. {seq[i] : i \in I} \subseteq Range1(sub)
  BY <1>1 DEF Range1
<1>4. Range1(sub) = {seq[i] : i \in I}
  BY <1>2, <1>3
<1> QED BY <1>4 DEF sub

\* A remembered session is written and read back as it was.
LEMMA LineOfSession ==
    ASSUME NEW e \in Session, e.org.sec = "VerifiedTls", e.exp # None
    PROVE  LineOf(e) \in Line /\ EntryOf(LineOf(e)) = e
<1>1. /\ e = [org |-> e.org, scope |-> e.scope, tok |-> e.tok, exp |-> e.exp]
      /\ e.org \in Site /\ e.scope \in Scopes /\ e.tok \in Nat /\ e.exp \in Nat
  BY DEF Session
<1>2. e.org = [host |-> e.org.host, sec |-> "VerifiedTls"] /\ e.org.host \in Hosts
  BY <1>1 DEF Site
<1> QED BY <1>1, <1>2 DEF LineOf, EntryOf, Line

LEMMA EntryOfLine ==
    ASSUME NEW l \in Line
    PROVE  /\ EntryOf(l) \in Session /\ LineOf(EntryOf(l)) = l
           /\ EntryOf(l).exp = l.exp /\ EntryOf(l).org.sec = "VerifiedTls"
<1>1. /\ l = [host |-> l.host, scope |-> l.scope, tok |-> l.tok, exp |-> l.exp]
      /\ l.host \in Hosts /\ l.scope \in Scopes /\ l.tok \in Nat /\ l.exp \in Nat
  BY DEF Line
<1>2. [host |-> l.host, sec |-> "VerifiedTls"] \in Site
  BY <1>1 DEF Site, Securities
<1> QED BY <1>1, <1>2 DEF LineOf, EntryOf, Session

LEMMA WrittenProperties ==
    ASSUME NEW mem \in Seq(Session)
    PROVE  /\ Written(mem) \in Seq(Line)
           /\ Entries(Written(mem)) = {e \in Range1(mem) : Eligible(e)}
           /\ Range1(Written(mem)) = Lines({e \in Range1(mem) : Eligible(e)})
<1> DEFINE I == {i \in DOMAIN mem : Eligible(mem[i])}
           sub == Subsequence(mem, I)
           w == Written(mem)
<1>1. sub \in Seq(Session)
  BY SubsequenceProperties
<1>2. Range1(sub) = {mem[i] : i \in I}
  BY SubsequenceRange
<1>3. w = [k \in DOMAIN sub |-> LineOf(sub[k])]
  BY DEF Written
<1> HIDE DEF sub, I, w
<1>4. {mem[i] : i \in I} = {e \in Range1(mem) : Eligible(e)}
  BY DEF I, Range1
<1>5. \A e \in Range1(sub) : LineOf(e) \in Line /\ EntryOf(LineOf(e)) = e
  <2> SUFFICES ASSUME NEW e \in Range1(sub)
               PROVE  LineOf(e) \in Line /\ EntryOf(LineOf(e)) = e
    OBVIOUS
  <2>1. e \in Session
    BY <1>1 DEF Range1
  <2>2. e.org.sec = "VerifiedTls" /\ e.exp # None
    BY <1>2, <1>4 DEF Eligible
  <2> QED BY <2>1, <2>2, LineOfSession
<1>6. \A k \in DOMAIN sub : sub[k] \in Range1(sub)
  BY DEF Range1
<1>7. w \in Seq(Line)
  <2>1. DOMAIN sub = 1 .. Len(sub) /\ Len(sub) \in Nat
    BY <1>1
  <2>2. \A k \in 1 .. Len(sub) : LineOf(sub[k]) \in Line
    BY <1>5, <1>6, <2>1
  <2> QED BY <1>3, <2>1, <2>2
<1>8. Range1(w) = {LineOf(e) : e \in Range1(sub)}
  BY <1>3 DEF Range1
<1>9. Entries(w) = Range1(sub)
  BY <1>5, <1>8 DEF Entries
<1> QED BY <1>2, <1>4, <1>7, <1>8, <1>9 DEF w, Lines

LEMMA LoadedProperties ==
    ASSUME NEW lines \in Seq(Line)
    PROVE  /\ Loaded(lines) \in Seq(Session)
           /\ Range1(Loaded(lines)) \subseteq Entries(lines)
           /\ Range1(Loaded(lines)) = {EntryOf(l) : l \in {x \in Range1(lines) : x.exp > clock}}
<1> DEFINE I == {i \in DOMAIN lines : lines[i].exp > clock}
           sub == Subsequence(lines, I)
           r == Loaded(lines)
<1>1. sub \in Seq(Line)
  BY SubsequenceProperties
<1>2. Range1(sub) = {lines[i] : i \in I}
  BY SubsequenceRange
<1>3. r = [k \in DOMAIN sub |-> EntryOf(sub[k])]
  BY DEF Loaded
<1> HIDE DEF sub, I, r
<1>4. {lines[i] : i \in I} = {x \in Range1(lines) : x.exp > clock}
  BY DEF I, Range1
<1>5. r \in Seq(Session)
  <2>1. DOMAIN sub = 1 .. Len(sub) /\ Len(sub) \in Nat /\ \A k \in 1 .. Len(sub) : sub[k] \in Line
    BY <1>1
  <2>2. \A k \in 1 .. Len(sub) : EntryOf(sub[k]) \in Session
    BY <2>1, EntryOfLine
  <2> QED BY <1>3, <2>1, <2>2
<1>6. Range1(r) = {EntryOf(l) : l \in Range1(sub)}
  BY <1>3 DEF Range1
<1> QED BY <1>2, <1>4, <1>5, <1>6 DEF r, Entries

\* The first of a set of positions.
LEMMA FirstProperties ==
    ASSUME NEW I \in SUBSET Nat, I # {}
    PROVE  First(I) \in I
<1>1. \E i \in I : \A j \in I : i <= j
  BY LeastNat
<1> QED BY <1>1 DEF First

LEMMA WithoutProperties ==
    ASSUME NEW S, NEW mem \in Seq(S), NEW i \in DOMAIN mem
    PROVE  /\ Without(mem, i) \in Seq(S)
           /\ Len(Without(mem, i)) = Len(mem) - 1
           /\ \A k \in 1 .. (i - 1) : Without(mem, i)[k] = mem[k]
           /\ \A k \in i .. (Len(mem) - 1) : Without(mem, i)[k] = mem[k + 1]
<1> DEFINE a == SubSeq(mem, 1, i - 1)
           b == SubSeq(mem, i + 1, Len(mem))
<1>1. i \in 1 .. Len(mem) /\ Len(mem) \in Nat /\ i \in Nat /\ \A k \in 1 .. Len(mem) : mem[k] \in S
  OBVIOUS
<1>2. a \in Seq(S) /\ Len(a) = i - 1 /\ \A k \in 1 .. i - 1 : a[k] = mem[k]
  BY <1>1, SubSeqProperties
<1>3. b \in Seq(S) /\ Len(b) = Len(mem) - i /\ \A k \in 1 .. Len(mem) - i : b[k] = mem[i + k]
  BY <1>1, SubSeqProperties
<1>4. Without(mem, i) = a \o b
  BY DEF Without
<1> HIDE DEF a, b
<1>5. /\ a \o b \in Seq(S) /\ Len(a \o b) = Len(a) + Len(b)
      /\ \A k \in 1 .. Len(a) + Len(b) : (a \o b)[k] = IF k <= Len(a) THEN a[k] ELSE b[k - Len(a)]
  BY <1>2, <1>3, ConcatProperties
<1>6. Len(a \o b) = Len(mem) - 1
  BY <1>1, <1>2, <1>3, <1>5
<1>7. \A k \in 1 .. (i - 1) : (a \o b)[k] = mem[k]
  BY <1>1, <1>2, <1>3, <1>5, SMTT(30)
<1>8. ASSUME NEW k \in i .. (Len(mem) - 1) PROVE (a \o b)[k] = mem[k + 1]
  <2>1. /\ k \in 1 .. Len(a) + Len(b) /\ ~(k <= Len(a)) /\ k - Len(a) \in 1 .. Len(mem) - i
        /\ i + (k - Len(a)) = k + 1
    BY SMTT(30), <1>1, <1>2, <1>3
  <2> QED BY <1>3, <1>5, <2>1
<1> QED BY <1>4, <1>5, <1>6, <1>7, <1>8

LEMMA AppendRange ==
    ASSUME NEW S, NEW s \in Seq(S), NEW x \in S
    PROVE  /\ Append(s, x) \in Seq(S) /\ Len(Append(s, x)) = Len(s) + 1
           /\ Range1(Append(s, x)) = Range1(s) \cup {x}
<1> DEFINE a == Append(s, x)
           n == Len(s)
<1>1. /\ a \in Seq(S) /\ DOMAIN a = 1 .. n + 1 /\ n \in Nat /\ DOMAIN s = 1 .. n
      /\ \A k \in 1 .. n : a[k] = s[k]
      /\ a[n + 1] = x /\ Len(a) = n + 1
  BY AppendProperties
<1> HIDE DEF a, n
<1>2. 1 .. n + 1 = (1 .. n) \cup {n + 1}
  BY <1>1
<1> QED BY <1>1, <1>2 DEF Range1, a, n

\* Setting a token adds no session but its own.
LEMMA SetTokenProperties ==
    ASSUME NEW mem \in Seq(Session), NEW e \in Session
    PROVE  /\ try_set_token(mem, e) \in Seq(Session)
           /\ Range1(try_set_token(mem, e)) \subseteq Range1(mem) \cup {e}
           /\ e \in Range1(try_set_token(mem, e))
<1> DEFINE same == InScope(mem, e.org, e.scope)
           site == InOrigin(mem, e.org)
<1>0. site \in SUBSET DOMAIN mem /\ same \in SUBSET site /\ DOMAIN mem \in SUBSET Nat
  BY DEF InScope, InOrigin
<1>1. CASE same # {}
  <2> DEFINE i == First(same)
             r == [mem EXCEPT ![i] = e]
  <2>1. i \in DOMAIN mem
    BY <1>0, <1>1, FirstProperties
  <2>2. try_set_token(mem, e) = r
    BY <1>1 DEF try_set_token
  <2> HIDE DEF i
  <2>3. r \in Seq(Session) /\ DOMAIN r = DOMAIN mem /\ r[i] = e
        /\ \A k \in DOMAIN mem : k # i => r[k] = mem[k]
    BY <2>1
  <2> HIDE DEF r
  <2> QED BY <2>1, <2>2, <2>3 DEF Range1
<1>2. CASE same = {} /\ Cardinality(site) >= MaxPerSite
  <2> DEFINE i == First(site)
             w == Without(mem, i)
             r == Append(w, e)
  <2>1. site # {}
    <3>1. ~(0 >= MaxPerSite)
      BY StoresAssumption
    <3> QED BY <1>2, <3>1, FS_EmptySet
  <2>2. i \in DOMAIN mem
    BY <1>0, <2>1, FirstProperties
  <2>3. try_set_token(mem, e) = r
    BY <1>2 DEF try_set_token
  <2> HIDE DEF i
  <2>4. /\ w \in Seq(Session) /\ Len(w) = Len(mem) - 1
        /\ \A k \in 1 .. (i - 1) : w[k] = mem[k]
        /\ \A k \in i .. (Len(mem) - 1) : w[k] = mem[k + 1]
    BY <2>2, WithoutProperties
  <2> HIDE DEF w
  <2>5. Range1(w) \subseteq Range1(mem)
    <3> SUFFICES ASSUME NEW k \in 1 .. Len(mem) - 1 PROVE w[k] \in Range1(mem)
      BY <2>4 DEF Range1
    <3>1. i \in 1 .. Len(mem) /\ Len(mem) \in Nat
      BY <2>2
    <3>2. CASE k <= i - 1
      BY SMTT(30), <2>4, <3>1, <3>2 DEF Range1
    <3>3. CASE k >= i
      BY <2>4, <3>1, <3>3 DEF Range1
    <3> QED BY <3>1, <3>2, <3>3
  <2>6. r \in Seq(Session) /\ Range1(r) = Range1(w) \cup {e}
    BY <2>4, AppendRange
  <2> QED BY <2>3, <2>5, <2>6
<1>3. CASE same = {} /\ ~(Cardinality(site) >= MaxPerSite)
  <2>1. try_set_token(mem, e) = Append(mem, e)
    BY <1>3 DEF try_set_token
  <2>2. Append(mem, e) \in Seq(Session) /\ Range1(Append(mem, e)) = Range1(mem) \cup {e}
    BY AppendRange
  <2> QED BY <2>1, <2>2
<1> QED BY <1>1, <1>2, <1>3

\* Lengths of scopes are bounded within a memory, so a longest match exists.
LEMMA LongestMatch ==
    ASSUME NEW mem \in Seq(Session), NEW S \in SUBSET Range1(mem), S # {}
    PROVE  \E e \in S : \A x \in S : ScopeLen(x.scope) <= ScopeLen(e.scope)
<1> DEFINE len(x) == ScopeLen(x.scope)
<1>1. \A x \in Range1(mem) : len(x) \in Nat
  <2> SUFFICES ASSUME NEW x \in Range1(mem) PROVE len(x) \in Nat
    OBVIOUS
  <2>1. x \in Session
    BY DEF Range1
  <2>2. x.scope \in Scope
    BY <2>1, StoresAssumption DEF Session
  <2>3. Len(x.scope.segs) \in Nat
    BY <2>2 DEF Scope
  <2> DEFINE n == Len(x.scope.segs)
             b == IF x.scope.dir THEN 1 ELSE 0
  <2>4. n \in Nat /\ b \in Nat /\ len(x) = 2 * n + b
    BY <2>3 DEF ScopeLen
  <2> HIDE DEF n, b, len
  <2> QED BY <2>4
<1> DEFINE n == Len(mem)
           T == {k \in 0 .. n : \E b \in Nat : \A i \in 1 .. k : len(mem[i]) <= b}
<1>2. n \in Nat /\ \A i \in 1 .. n : mem[i] \in Range1(mem)
  BY DEF Range1
<1> HIDE DEF n, len
<1>3. 0 \in T
  <2>1. 0 \in 0 .. n /\ \A i \in 1 .. 0 : len(mem[i]) <= 0
    BY <1>2
  <2> QED BY <2>1
<1>4. ASSUME NEW k \in 0 .. n - 1, k \in T PROVE k + 1 \in T
  <2>1. PICK b \in Nat : \A i \in 1 .. k : len(mem[i]) <= b
    BY <1>4
  <2>2. k + 1 \in 1 .. n /\ k + 1 \in 0 .. n /\ k \in Nat
    BY <1>2
  <2>3. len(mem[k + 1]) \in Nat
    BY <1>1, <1>2, <2>2
  <2> DEFINE c == IF b <= len(mem[k + 1]) THEN len(mem[k + 1]) ELSE b
  <2>4. c \in Nat /\ b <= c /\ len(mem[k + 1]) <= c
    BY <2>3
  <2> HIDE DEF c
  <2>5. ASSUME NEW i \in 1 .. k + 1 PROVE len(mem[i]) <= c
    <3>1. CASE i = k + 1
      BY <2>4, <3>1
    <3>2. CASE i # k + 1
      <4>1. i \in 1 .. k /\ i \in 1 .. n
        BY <2>2, <3>2, <1>2
      <4>2. len(mem[i]) <= b /\ len(mem[i]) \in Nat
        BY <4>1, <2>1, <1>1, <1>2
      <4> QED BY <4>2, <2>4
    <3> QED BY <3>1, <3>2
  <2> QED BY <2>2, <2>4, <2>5
<1>5. n \in T
  <2> HIDE DEF T
  <2>1. 0 .. n \subseteq T
    BY <1>2, <1>3, <1>4, IntervalInduction
  <2> QED BY <2>1, <1>2
<1> DEFINE Bounds == {b \in Nat : \A x \in S : len(x) <= b}
<1>6. Bounds # {}
  <2>1. PICK b \in Nat : \A i \in 1 .. n : len(mem[i]) <= b
    BY <1>5
  <2>2. \A x \in S : \E i \in 1 .. n : x = mem[i]
    BY DEF Range1, n
  <2> QED BY <2>1, <2>2
<1>7. PICK b \in Bounds : \A c \in Bounds : b <= c
  <2>1. Bounds \in SUBSET Nat
    OBVIOUS
  <2> HIDE DEF Bounds
  <2> QED BY <1>6, <2>1, LeastNat
<1>8. b \in Nat /\ \A x \in S : len(x) <= b
  OBVIOUS
<1>9. \E e \in S : len(e) = b
  <2> SUFFICES ASSUME \A e \in S : len(e) # b PROVE FALSE
    OBVIOUS
  <2>1. \A x \in S : len(x) \in Nat /\ len(x) <= b - 1
    BY <1>1, <1>8
  <2>2. b - 1 \in Nat
    BY <2>1, <1>8
  <2>3. b - 1 \in Bounds
    BY <2>1, <2>2
  <2>4. b <= b - 1
    BY <1>7, <2>3
  <2> QED BY <2>4, <1>8
<1>10. PICK e \in S : len(e) = b
  BY <1>9
<1>11. \A x \in S : len(x) <= len(e)
  BY <1>8, <1>10
<1> QED BY <1>11 DEF len

-----------------------------------------------------------------------------
(* Steps.  One process moves; what it and the files hold is followed as    *)
(* the set of known sessions.                                              *)

\* One process meets no other.
LEMMA MeetsNone ==
    ASSUME Alone, NEW p \in Procs
    PROVE  MeetsSave(p) = {} /\ MeetsClient(p) = {}
<1>1. Procs \ {p} = {}
  BY DEF Alone
<1> QED BY <1>1 DEF MeetsSave, MeetsClient

LEMMA Concludes ==
    ASSUME Alone, NEW p \in Procs, DOMAIN proc' = Procs, proc' = [q \in Procs |-> proc'[q]],
           Shared', ProcessInv(proc[p])'
    PROVE  Inv'
<1>1. \A q \in Procs : q = p
  BY DEF Alone
<1> QED BY <1>1 DEF Inv

LEMMA Moves ==
    ASSUME Inv, NEW p \in Procs, NEW t, proc' = [proc EXCEPT ![p] = t]
    PROVE  proc'[p] = t /\ DOMAIN proc' = Procs /\ proc' = [q \in Procs |-> proc'[q]]
<1>1. DOMAIN proc = Procs
  BY DEF Inv
<1> QED BY <1>1

\* Fewer known sessions, and none issued: the tokens stay as they were.
LEMMA TokensShrink ==
    ASSUME NEW S, Tokens(S), NEW T, T \subseteq S
    PROVE  Tokens(T)
BY DEF Tokens

\* The fields of a process.
LEMMA Fields ==
    ASSUME NEW s, ProcessType(s)
    PROVE  /\ DOMAIN s = {"st", "mode", "mem", "pins", "todo", "kept", "stored", "job"}
           /\ s = [f \in DOMAIN s |-> s[f]]
           /\ s.mem \in Seq(Session) /\ s.todo \in Seq(Session) /\ s.pins \in Pins
           /\ s.mode \in Modes \cup {None} /\ s.kept \in Nat /\ s.stored \in Nat
           /\ s.st \in {"down", "restoring", "idle", "saving"}
BY DEF ProcessType

LEMMA DownType ==
    /\ ProcessType(Down)
    /\ Down.st = "down" /\ Down.mem = <<>> /\ Down.todo = <<>> /\ Down.pins = <<>>
    /\ Down.job = None /\ Down.mode = None /\ Down.kept = 0 /\ Down.stored = 0
<1>1. <<>> \in Seq(Session)
  OBVIOUS
<1>2. <<>> \in Pins
  <2>1. <<>> \in [{} -> Certs]
    OBVIOUS
  <2> QED BY <2>1 DEF Pins
<1> QED BY <1>1, <1>2 DEF Down, ProcessType

\* A job, whichever file it replaces.
LEMMA JobFields ==
    ASSUME NEW j, JobType(j)
    PROVE  /\ DOMAIN j = {"file", "body", "why", "next", "what", "step", "at"}
           /\ j = [f \in DOMAIN j |-> j[f]]
           /\ j.file \in File
           /\ j.file = "sessions" => j \in SessionJob
           /\ j.file = "pins" => j \in PinJob
           /\ j.step \in {"open", "write", "rename", "remove", "delete"}
           /\ j.at \in {"tmp", "main", "gone"}
           /\ j.next \in {"idle", "restoring", "down"}
<1>1. CASE j.file = "sessions"
  BY <1>1 DEF JobType, SessionJob, File
<1>2. CASE j.file # "sessions"
  BY <1>2 DEF JobType, PinJob, File
<1> QED BY <1>1, <1>2

\* Moving a job on keeps its type.
LEMMA JobMoves ==
    ASSUME NEW s, ProcessType(s), s.st = "saving",
           NEW step \in {"write", "rename", "delete"},
           step = "delete" => s.job.file = "sessions",
           NEW t, t = [s EXCEPT !.job = [s.job EXCEPT !.step = step]]
    PROVE  /\ ProcessType(t) /\ t.job.step = step
           /\ t.st = "saving" /\ t.mem = s.mem /\ t.todo = s.todo /\ t.pins = s.pins
           /\ t.job.file = s.job.file /\ t.job.body = s.job.body /\ t.job.why = s.job.why
           /\ t.job.next = s.job.next /\ t.job.what = s.job.what /\ t.job.at = s.job.at
<1> DEFINE k == [s.job EXCEPT !.step = step]
<1>1. JobType(s.job)
  BY DEF ProcessType
<1>2. /\ k.step = step /\ k.file = s.job.file /\ k.body = s.job.body /\ k.why = s.job.why
      /\ k.next = s.job.next /\ k.what = s.job.what /\ k.at = s.job.at
  BY <1>1, JobFields
<1>3. JobType(k)
  <2>1. CASE s.job.file = "sessions"
    <3>1. s.job \in SessionJob
      BY <1>1, <2>1, JobFields
    <3>2. k \in SessionJob
      BY <3>1 DEF SessionJob
    <3> QED BY <3>2, <1>2, <2>1 DEF JobType
  <2>2. CASE s.job.file # "sessions"
    <3>1. s.job \in PinJob
      BY <1>1, <2>2, JobFields DEF JobType
    <3>2. k \in PinJob
      BY <3>1, <2>2 DEF PinJob
    <3> QED BY <3>2, <1>2, <2>2 DEF JobType
  <2> QED BY <2>1, <2>2
<1>0. t = [s EXCEPT !.job = k]
  OBVIOUS
<1> HIDE DEF k
<1>4. /\ t.job = k /\ t.st = "saving" /\ t.mem = s.mem /\ t.todo = s.todo /\ t.pins = s.pins
      /\ t.mode = s.mode /\ t.kept = s.kept /\ t.stored = s.stored
      /\ t = [f \in DOMAIN s |-> t[f]]
  BY <1>0, Fields
<1>5. ProcessType(t)
  BY <1>3, <1>4, Fields DEF ProcessType
<1> QED BY <1>2, <1>4, <1>5 DEF k

\* The job in progress moves on and writes at most the temporary name.
LEMMA JobStep ==
    ASSUME Alone, Inv, NEW p \in Procs, proc[p].st = "saving",
           NEW step \in {"write", "rename", "delete"},
           step = "delete" => proc[p].job.file = "sessions",
           proc' = [proc EXCEPT ![p] =
                       [proc[p] EXCEPT !.job = [proc[p].job EXCEPT !.step = step]]],
           UNCHANGED <<clock, earned, revoked, recorded, broken>>,
           FilesType', \A f \in File : disk'[f].main = disk[f].main,
           InFile(disk'["sessions"].tmp) \subseteq Known(proc[p]),
           step = "rename" =>
               disk'[proc[p].job.file].tmp = [body |-> proc[p].job.body, whole |-> TRUE],
           step = "delete" => proc[p].job.why = "clear"
    PROVE  Inv'
<1> DEFINE s == proc[p]
           t == [s EXCEPT !.job = [s.job EXCEPT !.step = step]]
<1>1. ProcessInv(s) /\ Shared /\ DOMAIN proc = Procs
  BY DEF Inv
<1>2. proc'[p] = t /\ DOMAIN proc' = Procs /\ proc' = [q \in Procs |-> proc'[q]]
  BY Moves
<1> HIDE DEF t
<1>3. /\ ProcessType(t) /\ t.job.step = step
      /\ t.st = "saving" /\ t.mem = s.mem /\ t.todo = s.todo /\ t.pins = s.pins
      /\ t.job.file = s.job.file /\ t.job.body = s.job.body /\ t.job.why = s.job.why
      /\ t.job.what = s.job.what /\ t.job.at = s.job.at /\ t.job.next = s.job.next
  <2>1. ProcessType(s) /\ s.st = "saving" /\ (step = "delete" => s.job.file = "sessions")
    BY <1>1 DEF ProcessInv
  <2> HIDE DEF s
  <2> QED BY <2>1, JobMoves DEF t
<1> HIDE DEF s
<1>4. s.st = "saving" /\ s = proc[p]
  BY DEF s
<1>5. Progress(proc[p])'
  <2>1. s.job.at = "tmp"
    BY <1>1, <1>4 DEF ProcessInv, Progress
  <2>2. step = "rename" => disk'[t.job.file].tmp = [body |-> t.job.body, whole |-> TRUE]
    BY <1>3, <1>4
  <2>3. step = "delete" => t.job.why = "clear"
    BY <1>3, <1>4
  <2> QED BY <1>2, <1>3, <2>1, <2>2, <2>3 DEF Progress
<1>6. InMemory(t) = InMemory(s) /\ InJob(t) = InJob(s)
  BY <1>3, <1>4 DEF InMemory, InJob
<1>7. disk'["sessions"].main = disk["sessions"].main /\ disk'["pins"].main = disk["pins"].main
  BY DEF File
<1>8. Tokens(Known(proc[p]))'
  <2>1. Known(proc[p])' = InMemory(t) \cup InJob(t) \cup InFile(disk'["sessions"].main)
                          \cup InFile(disk'["sessions"].tmp)
    BY <1>2 DEF Known
  <2>2. Known(proc[p])' \subseteq Known(s)
    BY <2>1, <1>4, <1>6, <1>7 DEF Known
  <2>3. Tokens(Known(s))
    BY <1>1 DEF ProcessInv
  <2> QED BY <2>2, <2>3 DEF Tokens
<1>9. Revocation(proc[p])'
  <2>1. Revocation(s)
    BY <1>1 DEF ProcessInv
  <2>2. Clearing(t) = Clearing(s)
    BY <1>3, <1>4 DEF Clearing
  <2> QED BY <1>2, <1>6, <1>7, <2>1, <2>2 DEF Revocation, Live1
<1>10. Pinned(proc[p])'
  <2>1. Pinned(s)
    BY <1>1 DEF ProcessInv
  <2>2. PinsOnDisk' = PinsOnDisk
    BY <1>7 DEF PinsOnDisk
  <2> QED BY <1>2, <1>3, <1>4, <2>1, <2>2 DEF Pinned, Recorded
<1>11. Shared'
  BY <1>1 DEF Shared, Issued
<1>12. Replayed(proc[p])'
  <2>1. Replayed(s)
    BY <1>1 DEF ProcessInv
  <2> QED BY <1>2, <1>3, <1>4, <2>1 DEF Replayed
<1>13. ProcessInv(proc[p])'
  BY <1>2, <1>3, <1>5, <1>8, <1>9, <1>10, <1>12 DEF ProcessInv
<1> QED BY <1>2, <1>11, <1>13, Concludes

\* The files, after the temporary name of one was given a content.
LEMMA FilesAfterWrite ==
    ASSUME FilesType, NEW file \in File,
           NEW c, file = "sessions" => c \in SessionFile, file = "pins" => c \in PinFile,
           disk' = [disk EXCEPT ![file].tmp = c]
    PROVE  /\ FilesType' /\ disk'[file].tmp = c
           /\ \A f \in File : disk'[f].main = disk[f].main
           /\ \A f \in File : f # file => disk'[f] = disk[f]
<1>1. "sessions" \in File /\ "pins" \in File /\ file \in {"sessions", "pins"}
  BY DEF File
<1>2. /\ disk["sessions"] \in [main : SessionFile \cup {None}, tmp : SessionFile \cup {None}]
      /\ disk["pins"] \in [main : PinFile \cup {None}, tmp : PinFile \cup {None}]
      /\ DOMAIN disk = File
  BY DEF FilesType
<1>3. /\ DOMAIN disk' = File /\ disk' = [f \in File |-> disk'[f]]
      /\ disk'[file] = [disk[file] EXCEPT !.tmp = c]
      /\ \A f \in File : f # file => disk'[f] = disk[f]
  BY <1>2
<1>4. /\ file = "sessions" => disk'[file] \in [main : SessionFile \cup {None}, tmp : SessionFile \cup {None}]
      /\ file = "pins" => disk'[file] \in [main : PinFile \cup {None}, tmp : PinFile \cup {None}]
      /\ disk'[file].tmp = c /\ disk'[file].main = disk[file].main
  BY <1>1, <1>2, <1>3
<1> QED BY <1>1, <1>2, <1>3, <1>4 DEF FilesType

LEMMA SaveOpenMoves ==
    ASSUME Inv, NEW p \in Procs, SaveOpen(p)
    PROVE  proc' = [proc EXCEPT ![p] =
                       [proc[p] EXCEPT !.job = [proc[p].job EXCEPT !.step = "write"]]]
<1> DEFINE s == proc[p]
<1>1. ProcessType(s) /\ JobType(s.job) /\ s.job.at = "tmp"
  BY DEF Inv, SaveOpen, ProcessInv, ProcessType, Progress
<1>2. proc' = [proc EXCEPT ![p] = [s EXCEPT !.job.step = "write", !.job.at = "tmp"]]
  BY DEF SaveOpen
<1> DEFINE k == [s.job EXCEPT !.step = "write"]
<1>3. k.at = "tmp" /\ "at" \in DOMAIN k /\ k = [f \in DOMAIN k |-> k[f]]
  BY <1>1, JobFields
<1> HIDE DEF k
<1>4. [k EXCEPT !.at = "tmp"] = k
  BY <1>3
<1>5. [s EXCEPT !.job = [k EXCEPT !.at = "tmp"]] = [s EXCEPT !.job = k]
  BY <1>4
<1>6. [s EXCEPT !.job.step = "write", !.job.at = "tmp"] = [s EXCEPT !.job = [k EXCEPT !.at = "tmp"]]
  BY <1>1, Fields, ZenonT(60) DEF k
<1> QED BY <1>2, <1>5, <1>6 DEF k

LEMMA SaveOpenStep ==
    ASSUME Alone, Inv, NEW p \in Procs, SaveOpen(p)
    PROVE  Inv'
<1> DEFINE s == proc[p]
           c == [body |-> <<>>, whole |-> FALSE]
<1>1. ProcessInv(s) /\ Shared /\ FilesType /\ DOMAIN proc = Procs /\ s.st = "saving"
  BY DEF Inv, SaveOpen, Shared
<1>2. ProcessType(s) /\ JobType(s.job) /\ s.job.at = "tmp"
  BY <1>1 DEF ProcessInv, ProcessType, Progress
<1>3. s.job.file \in File
  BY <1>2, JobFields
<1>4. c \in SessionFile /\ c \in PinFile
  <2>1. <<>> \in Seq(Line)
    OBVIOUS
  <2>2. <<>> \in Pins
    BY DownType DEF ProcessType
  <2> QED BY <2>1, <2>2 DEF SessionFile, PinFile
<1>5. disk' = [disk EXCEPT ![s.job.file].tmp = c]
  BY DEF SaveOpen
<1>6. /\ FilesType' /\ disk'[s.job.file].tmp = c
      /\ \A f \in File : disk'[f].main = disk[f].main
      /\ \A f \in File : f # s.job.file => disk'[f] = disk[f]
  <2> HIDE DEF s, c
  <2> QED BY <1>1, <1>3, <1>4, <1>5, FilesAfterWrite
<1>7. InFile(disk'["sessions"].tmp) \subseteq Known(s)
  <2>1. CASE s.job.file = "sessions"
    <3>1. InFile(c) = {}
      BY DEF InFile, Entries, Range1
    <3> QED BY <1>6, <2>1, <3>1
  <2>2. CASE s.job.file # "sessions"
    BY <1>6, <2>2 DEF Known, File
  <2> QED BY <2>1, <2>2
<1>8. proc' = [proc EXCEPT ![p] = [s EXCEPT !.job = [s.job EXCEPT !.step = "write"]]]
  BY SaveOpenMoves
<1>9. UNCHANGED <<clock, earned, revoked, recorded, broken>>
  BY DEF SaveOpen, counters
<1> QED BY <1>1, <1>6, <1>7, <1>8, <1>9, JobStep

LEMMA SaveWriteStep ==
    ASSUME Alone, Inv, NEW p \in Procs, SaveWrite(p)
    PROVE  Inv'
<1> DEFINE s == proc[p]
           c == [body |-> s.job.body, whole |-> TRUE]
<1>1. ProcessInv(s) /\ Shared /\ FilesType /\ DOMAIN proc = Procs /\ s.st = "saving"
  BY DEF Inv, SaveWrite, Shared
<1>2. ProcessType(s) /\ JobType(s.job) /\ s.job.at = "tmp"
  BY <1>1 DEF ProcessInv, ProcessType, Progress
<1>3. s.job.file \in File
  BY <1>2, JobFields
<1>4. (s.job.file = "sessions" => c \in SessionFile) /\ (s.job.file = "pins" => c \in PinFile)
  <2> HIDE DEF s
  <2>1. s.job.file = "sessions" => s.job.body \in Seq(Line)
    BY <1>2, JobFields DEF SessionJob
  <2>2. s.job.file = "pins" => s.job.body \in Pins
    BY <1>2, JobFields DEF PinJob
  <2> QED BY <2>1, <2>2 DEF SessionFile, PinFile
<1>5. disk' = [disk EXCEPT ![s.job.file].tmp = c]
  BY <1>2 DEF SaveWrite
<1>6. /\ FilesType' /\ disk'[s.job.file].tmp = c
      /\ \A f \in File : disk'[f].main = disk[f].main
      /\ \A f \in File : f # s.job.file => disk'[f] = disk[f]
  <2> HIDE DEF s, c
  <2> QED BY <1>1, <1>3, <1>4, <1>5, FilesAfterWrite
<1>7. InFile(disk'["sessions"].tmp) \subseteq Known(s)
  <2>1. CASE s.job.file = "sessions"
    <3>1. InFile(c) \subseteq InJob(s)
      BY <1>1, <2>1 DEF InFile, InJob
    <3> HIDE DEF c, s
    <3> QED BY <1>6, <2>1, <3>1 DEF Known
  <2>2. CASE s.job.file # "sessions"
    BY <1>6, <2>2 DEF Known, File
  <2> QED BY <2>1, <2>2
<1>8. proc' = [proc EXCEPT ![p] = [s EXCEPT !.job = [s.job EXCEPT !.step = "rename"]]]
  BY DEF SaveWrite
<1>9. UNCHANGED <<clock, earned, revoked, recorded, broken>>
  BY DEF SaveWrite, counters
<1> QED BY <1>1, <1>6, <1>7, <1>8, <1>9, JobStep

LEMMA FinishedFields ==
    ASSUME NEW s, ProcessType(s), s.st = "saving", NEW t, t = Finished(s)
    PROVE  /\ ProcessType(t) /\ t.st \in {"idle", "restoring", "down"} /\ t.st = s.job.next
           /\ t.st = "down" => t.mem = <<>> /\ t.todo = <<>>
           /\ t.st # "down" => t.mem = s.mem /\ t.todo = s.todo /\ t.pins = s.pins
<1>1. JobType(s.job) /\ s.job.next \in {"idle", "restoring", "down"}
  BY JobFields DEF ProcessType
<1>2. CASE s.job.next = "down"
  BY <1>2, DownType DEF Finished
<1>3. CASE s.job.next # "down"
  <2>1. t = [s EXCEPT !.st = s.job.next, !.job = None]
    BY <1>3 DEF Finished
  <2>2. /\ t.st = s.job.next /\ t.job = None /\ t.mem = s.mem /\ t.todo = s.todo /\ t.pins = s.pins
        /\ t.mode = s.mode /\ t.kept = s.kept /\ t.stored = s.stored
        /\ DOMAIN t = DOMAIN s /\ t = [f \in DOMAIN s |-> t[f]]
    BY <2>1, Fields
  <2>3. ProcessType(t)
    BY <2>2, <1>1, <1>3, Fields DEF ProcessType
  <2> QED BY <1>1, <1>3, <2>2, <2>3
<1> QED BY <1>2, <1>3

\* A job ends, in whatever way: the files hold nothing new, and what the
\* invariant grants a save in progress is no longer granted.
LEMMA JobEnds ==
    ASSUME Alone, Inv, NEW p \in Procs, proc[p].st = "saving",
           proc' = [proc EXCEPT ![p] = Finished(proc[p])],
           UNCHANGED <<clock, earned, revoked>>, broken \subseteq broken',
           FilesType', recorded' \in Pins,
           InFile(disk'["sessions"].main) \subseteq Known(proc[p]),
           InFile(disk'["sessions"].tmp) \subseteq Known(proc[p]),
           "remove" \notin broken' => Live1(InFile(disk'["sessions"].main)),
           "pins" \notin broken' =>
               PinsOnDisk' = recorded' /\ (proc[p].job.next # "down" => proc[p].pins = recorded')
    PROVE  Inv'
<1> DEFINE s == proc[p]
           t == Finished(s)
<1>1. ProcessInv(s) /\ ProcessType(s) /\ Shared
  BY DEF Inv, ProcessInv
<1>2. proc'[p] = t /\ DOMAIN proc' = Procs /\ proc' = [q \in Procs |-> proc'[q]]
  BY Moves
<1> HIDE DEF t
<1> HIDE DEF s
<1>3. s.st = "saving" /\ s = proc[p]
  BY DEF s
<1>4. /\ ProcessType(t) /\ t.st \in {"idle", "restoring", "down"} /\ t.st = s.job.next
      /\ t.st = "down" => t.mem = <<>> /\ t.todo = <<>>
      /\ t.st # "down" => t.mem = s.mem /\ t.todo = s.todo /\ t.pins = s.pins
  BY <1>1, <1>3, FinishedFields DEF t
<1>5. InMemory(t) \subseteq InMemory(s)
  BY <1>4 DEF InMemory, Range1
<1>6. InJob(t) = {}
  BY <1>4 DEF InJob
<1>7. Tokens(Known(proc[p]))'
  <2>1. Known(proc[p])' = InMemory(t) \cup InJob(t) \cup InFile(disk'["sessions"].main)
                          \cup InFile(disk'["sessions"].tmp)
    BY <1>2 DEF Known
  <2>2. InMemory(s) \subseteq Known(s)
    BY DEF Known
  <2>3. Known(proc[p])' \subseteq Known(s)
    BY <2>1, <2>2, <1>3, <1>5, <1>6
  <2>4. Tokens(Known(s))
    BY <1>1 DEF ProcessInv
  <2> QED BY <2>3, <2>4 DEF Tokens
<1>8. Revocation(proc[p])'
  <2>1. ASSUME "remove" \notin broken'
        PROVE  /\ Live1(InMemory(proc[p]))' /\ Live1(InJob(proc[p]))'
               /\ Live1(InFile(disk["sessions"].main))'
    <3>1. Live1(InMemory(s))
      BY <1>1, <2>1 DEF ProcessInv, Revocation
    <3> QED BY <3>1, <2>1, <1>2, <1>5, <1>6 DEF Live1
  <2> QED BY <2>1 DEF Revocation
<1>9. Pinned(proc[p])'
  BY <1>2, <1>3, <1>4 DEF Pinned
<1>10. Shared'
  BY <1>1 DEF Shared, Issued
<1>11. Progress(proc[p])'
  BY <1>2, <1>4 DEF Progress
<1>12. Replayed(proc[p])'
  <2>1. Replayed(s)
    BY <1>1 DEF ProcessInv
  <2> QED BY <1>2, <1>3, <1>4, <2>1 DEF Replayed
<1>13. ProcessInv(proc[p])'
  BY <1>2, <1>4, <1>7, <1>8, <1>9, <1>11, <1>12 DEF ProcessInv
<1> QED BY <1>2, <1>10, <1>13, Concludes

LEMMA PinsChange ==
    ASSUME NEW pins \in Pins, NEW host \in Hosts
    PROVE  /\ \A cert \in Certs : WithPin(pins, host, cert) \in Pins
           /\ WithoutPin(pins, host) \in Pins
<1>1. PICK known \in SUBSET Hosts : pins \in [known -> Certs]
  BY DEF Pins
<1>2. ASSUME NEW cert \in Certs PROVE WithPin(pins, host, cert) \in [known \cup {host} -> Certs]
  BY <1>1 DEF WithPin
<1>3. WithoutPin(pins, host) \in [known \ {host} -> Certs]
  BY <1>1 DEF WithoutPin
<1> QED BY <1>2, <1>3 DEF Pins

LEMMA SaveFailedStep ==
    ASSUME Alone, Inv, NEW p \in Procs, proc[p].st = "saving", SaveFailed(p),
           UNCHANGED <<disk, clock, earned, revoked, recorded>>
    PROVE  Inv'
<1> DEFINE s == proc[p]
<1>1. ProcessInv(s) /\ Shared /\ FilesType /\ s.st = "saving" /\ DOMAIN proc = Procs
  BY DEF Inv, Shared
<1>2. ProcessType(s) /\ JobType(s.job)
  BY <1>1 DEF ProcessInv, ProcessType
<1>3. s.job.why = "clear" => s.job.file = "sessions"
  <2> HIDE DEF s
  <2> QED BY <1>2, JobFields DEF JobType, PinJob
<1>4. FilesType'
  BY <1>1 DEF FilesType
<1>5. /\ InFile(disk'["sessions"].tmp) \subseteq Known(s)
      /\ InFile(disk'["sessions"].main) \subseteq Known(s)
  BY DEF Known
<1>6. CASE s.job.why = "clear" /\ s.job.step # "delete"
  <2>1. proc' = [proc EXCEPT ![p] = [s EXCEPT !.job = [s.job EXCEPT !.step = "delete"]]]
        /\ UNCHANGED broken
    BY <1>6 DEF SaveFailed
  <2>2. \A f \in File : disk'[f].main = disk[f].main
    OBVIOUS
  <2> QED BY <1>1, <1>3, <1>4, <1>5, <1>6, <2>1, <2>2, JobStep
<1>7. CASE ~(s.job.why = "clear" /\ s.job.step # "delete")
  <2>1. /\ proc' = [proc EXCEPT ![p] = Finished(s)]
        /\ broken' = broken \cup {IF s.job.why = "clear" THEN "remove" ELSE s.job.file}
    BY <1>1, <1>7 DEF SaveFailed
  <2>2. "remove" \notin broken' => Live1(InFile(disk'["sessions"].main))
    BY <1>1, <2>1 DEF ProcessInv, Revocation, Clearing
  <2>3. "pins" \notin broken' => s.job.file # "pins"
    BY <1>3, <2>1
  <2>4. PinsOnDisk' = PinsOnDisk
    BY DEF PinsOnDisk
  <2>5. "pins" \notin broken' => PinsOnDisk' = recorded' /\ s.pins = recorded'
    BY <1>1, <2>1, <2>3, <2>4 DEF ProcessInv, Pinned
  <2>6. recorded' \in Pins
    BY <1>1 DEF Shared
  <2>7. broken \subseteq broken'
    BY <2>1
  <2> QED BY <1>1, <1>4, <1>5, <2>1, <2>2, <2>5, <2>6, <2>7, JobEnds
<1> QED BY <1>6, <1>7

LEMMA SaveFailsStep ==
    ASSUME Alone, Inv, NEW p \in Procs, SaveFails(p)
    PROVE  Inv'
BY SaveFailedStep DEF SaveFails

LEMMA SaveRenameStep ==
    ASSUME Alone, Inv, NEW p \in Procs, SaveRename(p)
    PROVE  Inv'
<1> DEFINE s == proc[p]
           j == s.job
           c == [body |-> j.body, whole |-> TRUE]
<1>1. /\ ProcessInv(s) /\ Shared /\ FilesType /\ s.st = "saving" /\ DOMAIN proc = Procs
      /\ j.step = "rename" /\ UNCHANGED <<clock, earned, revoked>>
  BY DEF Inv, Shared, SaveRename, counters
<1>2. ProcessType(s) /\ JobType(j) /\ disk[j.file].tmp = c
  BY <1>1 DEF ProcessInv, ProcessType, Progress
<1>3. /\ j.file \in File
      /\ j.file = "sessions" => j \in SessionJob
      /\ j.file = "pins" => j \in PinJob
  <2> HIDE DEF j
  <2> QED BY <1>2, JobFields
<1> HIDE DEF s, j
<1>4. /\ j.file = "sessions" => c \in SessionFile
      /\ j.file = "pins" => c \in PinFile
  BY <1>3 DEF SessionJob, PinJob, SessionFile, PinFile
<1> HIDE DEF c
<1>5. c # None
  BY <1>3, <1>4, StoresAssumption DEF File
<1>6. /\ disk' = [disk EXCEPT ![j.file] = [main |-> disk[j.file].tmp, tmp |-> None]]
      /\ proc' = [q \in Procs |-> IF q = p THEN Finished(proc[p]) ELSE MovedOn(q, p, j.file)]
      /\ recorded' = IF j.file = "pins" THEN Recorded(j.what) ELSE recorded
      /\ UNCHANGED broken
  BY <1>2, <1>5 DEF SaveRename, Renamed, s, j
<1>7. proc' = [proc EXCEPT ![p] = Finished(proc[p])]
  <2>1. \A q \in Procs : q = p
    BY DEF Alone
  <2> QED BY <1>1, <1>6, <2>1
<1>8. /\ disk'[j.file] = [main |-> c, tmp |-> None]
      /\ \A f \in File : f # j.file => disk'[f] = disk[f]
      /\ DOMAIN disk' = File /\ disk' = [f \in File |-> disk'[f]]
  BY <1>1, <1>2, <1>3, <1>6 DEF FilesType
<1>9. FilesType'
  <2>1. CASE j.file = "sessions"
    BY <2>1, <1>1, <1>4, <1>8 DEF FilesType, File
  <2>2. CASE j.file = "pins"
    BY <2>2, <1>1, <1>4, <1>8 DEF FilesType, File
  <2> QED BY <1>3, <2>1, <2>2 DEF File
<1>10. /\ InFile(disk'["sessions"].tmp) \subseteq Known(s)
       /\ InFile(disk'["sessions"].main) \subseteq Known(s)
       /\ "remove" \notin broken' => Live1(InFile(disk'["sessions"].main))
  <2>1. CASE j.file = "sessions"
    <3>1. InFile(disk'["sessions"].tmp) = {}
      BY <2>1, <1>8 DEF InFile
    <3>2. InFile(disk'["sessions"].main) = InJob(s)
      <4>1. c.body = j.body
        BY DEF c
      <4> QED BY <2>1, <1>1, <1>5, <1>8, <4>1 DEF InFile, InJob, j
    <3>3. "remove" \notin broken' => Live1(InJob(s))
      BY <1>1, <1>6 DEF ProcessInv, Revocation
    <3> QED BY <3>1, <3>2, <3>3 DEF Known
  <2>2. CASE j.file = "pins"
    <3>1. disk'["sessions"] = disk["sessions"]
      BY <2>2, <1>8 DEF File
    <3>2. ~Clearing(s)
      BY <2>2, <1>3 DEF Clearing, PinJob, j
    <3> QED BY <3>1, <3>2, <1>1, <1>6 DEF Known, ProcessInv, Revocation
  <2> QED BY <1>3, <2>1, <2>2 DEF File
<1>11. /\ recorded' \in Pins
       /\ "pins" \notin broken' => PinsOnDisk' = recorded' /\ s.pins = recorded'
  <2>1. CASE j.file = "sessions"
    <3>1. disk'["pins"] = disk["pins"] /\ recorded' = recorded
      BY <2>1, <1>6, <1>8 DEF File
    <3>2. Pinned(s) /\ recorded \in Pins
      BY <1>1 DEF ProcessInv, Shared
    <3> QED BY <2>1, <3>1, <3>2, <1>1, <1>6 DEF PinsOnDisk, Pinned, j
  <2>2. CASE j.file = "pins"
    <3>1. recorded' = Recorded(j.what) /\ j.what \in [host : Hosts, cert : Certs \cup {None}]
      BY <2>2, <1>3, <1>6 DEF PinJob
    <3>2. recorded' \in Pins
      BY <3>1, <1>1, PinsChange DEF Recorded, Shared
    <3>3. PinsOnDisk' = j.body
      <4>1. c.body = j.body
        BY DEF c
      <4> QED BY <2>2, <1>5, <1>8, <4>1 DEF PinsOnDisk
    <3>4. Pinned(s)
      BY <1>1 DEF ProcessInv
    <3> QED BY <2>2, <3>1, <3>2, <3>3, <3>4, <1>1, <1>6 DEF Pinned, j
  <2> QED BY <1>3, <2>1, <2>2 DEF File
<1>12. broken \subseteq broken'
  BY <1>6
<1> QED BY <1>1, <1>7, <1>9, <1>10, <1>11, <1>12, JobEnds DEF s

LEMMA RemoveStep ==
    ASSUME Alone, Inv, NEW p \in Procs, Remove(p)
    PROVE  Inv'
<1> DEFINE s == proc[p]
           j == s.job
<1>1. /\ ProcessInv(s) /\ Shared /\ FilesType /\ s.st = "saving" /\ DOMAIN proc = Procs
      /\ j.step \in {"remove", "delete"} /\ UNCHANGED <<clock, earned, revoked, recorded, broken>>
      /\ disk' = [disk EXCEPT ![j.file].main = None]
      /\ proc' = [proc EXCEPT ![p] = Finished(s)]
  BY DEF Inv, Shared, Remove, counters
<1>2. j.file = "sessions"
  <2>1. JobType(j)
    BY <1>1 DEF ProcessInv, ProcessType
  <2> HIDE DEF j
  <2> QED BY <1>1, <2>1 DEF JobType, PinJob
<1>3. /\ disk'["sessions"] = [disk["sessions"] EXCEPT !.main = None]
      /\ disk'["pins"] = disk["pins"]
      /\ DOMAIN disk' = File /\ disk' = [f \in File |-> disk'[f]]
  BY <1>1, <1>2 DEF FilesType, File
<1>4. disk'["sessions"].main = None /\ disk'["sessions"].tmp = disk["sessions"].tmp
  <2>1. disk["sessions"] \in [main : SessionFile \cup {None}, tmp : SessionFile \cup {None}]
    BY <1>1 DEF FilesType
  <2> DEFINE d == disk["sessions"]
             e == disk'["sessions"]
  <2>2. e = [d EXCEPT !.main = None]
    BY <1>3
  <2>3. d \in [main : SessionFile \cup {None}, tmp : SessionFile \cup {None}]
    BY <2>1
  <2> HIDE DEF d, e
  <2>4. e.main = None /\ e.tmp = d.tmp
    BY <2>2, <2>3
  <2> QED BY <2>4 DEF d, e
<1>5. FilesType'
  <2>1. disk["sessions"] \in [main : SessionFile \cup {None}, tmp : SessionFile \cup {None}]
        /\ disk["pins"] \in [main : PinFile \cup {None}, tmp : PinFile \cup {None}]
    BY <1>1 DEF FilesType
  <2> DEFINE d == disk["sessions"]
             e == disk'["sessions"]
  <2>2. e = [d EXCEPT !.main = None]
    BY <1>3
  <2>3. d \in [main : SessionFile \cup {None}, tmp : SessionFile \cup {None}]
    BY <2>1
  <2> HIDE DEF d, e
  <2>4. e \in [main : SessionFile \cup {None}, tmp : SessionFile \cup {None}]
    BY <2>2, <2>3, SMTT(30)
  <2> QED BY <1>3, <2>1, <2>4, Zenon DEF FilesType, e
<1>6. /\ InFile(disk'["sessions"].main) = {}
      /\ InFile(disk'["sessions"].tmp) \subseteq Known(s)
  BY <1>4 DEF InFile, Known
<1>7. "pins" \notin broken' => PinsOnDisk' = recorded' /\ s.pins = recorded'
  BY <1>1, <1>2, <1>3 DEF ProcessInv, Pinned, PinsOnDisk
<1>8. recorded' \in Pins
  BY <1>1 DEF Shared
<1>9. Live1(InFile(disk'["sessions"].main))
  BY <1>6 DEF Live1
<1>10. InFile(disk'["sessions"].main) \subseteq Known(s)
  BY <1>6
<1> QED BY <1>1, <1>5, <1>6, <1>7, <1>8, <1>9, <1>10, JobEnds

LEMMA SaveSessionsFields ==
    ASSUME NEW s, ProcessType(s), NEW why \in {"set", "clear"}, NEW next \in {"idle", "restoring"},
           NEW what \in SUBSET Line, NEW t, t = SaveSessions(s, why, next, what)
    PROVE  /\ ProcessType(t) /\ t.st = "saving"
           /\ t.mem = s.mem /\ t.todo = s.todo /\ t.pins = s.pins
           /\ t.kept = s.kept /\ t.stored = s.stored
           /\ t.job.file = "sessions" /\ t.job.body = Written(s.mem) /\ t.job.why = why
           /\ t.job.next = next /\ t.job.what = what
           /\ t.job.step \in {"open", "remove"} /\ t.job.at = "tmp"
           /\ InMemory(t) = InMemory(s) /\ InJob(t) \subseteq InMemory(s)
<1> DEFINE j == Job("sessions", Written(s.mem), why, next, what)
<1>1. /\ s.mem \in Seq(Session) /\ DOMAIN s = {"st", "mode", "mem", "pins", "todo", "kept", "stored", "job"}
      /\ s = [f \in DOMAIN s |-> s[f]]
  BY Fields
<1>2. Written(s.mem) \in Seq(Line) /\ Entries(Written(s.mem)) \subseteq Range1(s.mem)
  BY <1>1, WrittenProperties
<1>3. /\ j.file = "sessions" /\ j.body = Written(s.mem) /\ j.why = why /\ j.next = next
      /\ j.what = what /\ j.at = "tmp" /\ j.step \in {"open", "remove"}
  BY DEF Job
<1>4. j \in SessionJob
  BY <1>2 DEF Job, SessionJob
<1>5. t = [s EXCEPT !.st = "saving", !.job = j]
  BY DEF SaveSessions
<1> HIDE DEF j
<1>6. /\ t.st = "saving" /\ t.job = j /\ t.mem = s.mem /\ t.todo = s.todo /\ t.pins = s.pins
      /\ t.mode = s.mode /\ t.kept = s.kept /\ t.stored = s.stored
      /\ DOMAIN t = DOMAIN s /\ t = [f \in DOMAIN s |-> t[f]]
  BY <1>1, <1>5
<1>7. ProcessType(t)
  BY <1>1, <1>3, <1>4, <1>6, Fields DEF ProcessType, JobType
<1>8. InMemory(t) = InMemory(s) /\ InJob(t) = Entries(Written(s.mem))
  BY <1>3, <1>6 DEF InMemory, InJob
<1>9. InJob(t) \subseteq InMemory(s)
  BY <1>2, <1>8 DEF InMemory
<1> QED BY <1>3, <1>6, <1>7, <1>8, <1>9

LEMMA SavePinsFields ==
    ASSUME NEW s, ProcessType(s), NEW next \in {"idle", "down"},
           NEW what \in [host : Hosts, cert : Certs \cup {None}],
           NEW t, t = SavePins(s, next, what)
    PROVE  /\ ProcessType(t) /\ t.st = "saving"
           /\ t.mem = s.mem /\ t.todo = s.todo /\ t.pins = s.pins
           /\ t.job.file = "pins" /\ t.job.body = s.pins /\ t.job.why = "pin"
           /\ t.job.next = next /\ t.job.what = what
           /\ t.job.step = "open" /\ t.job.at = "tmp"
           /\ InMemory(t) = InMemory(s) /\ InJob(t) = {}
<1> DEFINE j == Job("pins", s.pins, "pin", next, what)
<1>1. /\ s.pins \in Pins /\ DOMAIN s = {"st", "mode", "mem", "pins", "todo", "kept", "stored", "job"}
      /\ s = [f \in DOMAIN s |-> s[f]]
  BY Fields
<1>2. /\ j.file = "pins" /\ j.body = s.pins /\ j.why = "pin" /\ j.next = next
      /\ j.what = what /\ j.at = "tmp" /\ j.step = "open"
  BY DEF Job
<1>3. j \in PinJob
  BY <1>1 DEF Job, PinJob
<1>4. t = [s EXCEPT !.st = "saving", !.job = j]
  BY DEF SavePins
<1> HIDE DEF j
<1>5. /\ t.st = "saving" /\ t.job = j /\ t.mem = s.mem /\ t.todo = s.todo /\ t.pins = s.pins
      /\ t.mode = s.mode /\ t.kept = s.kept /\ t.stored = s.stored
      /\ DOMAIN t = DOMAIN s /\ t = [f \in DOMAIN s |-> t[f]]
  BY <1>1, <1>4, ZenonT(60)
<1>6. ProcessType(t)
  BY <1>1, <1>2, <1>3, <1>5, Fields DEF ProcessType, JobType
<1>7. InMemory(t) = InMemory(s) /\ InJob(t) = {}
  BY <1>2, <1>5 DEF InMemory, InJob
<1> QED BY <1>2, <1>5, <1>6, <1>7

\* A process changes while the files and what was issued stay.
LEMMA NewProcess ==
    ASSUME Alone, Inv, NEW p \in Procs, NEW t, ProcessType(t), Replayed(t),
           proc' = [proc EXCEPT ![p] = t],
           UNCHANGED <<disk, earned, recorded>>, clock' \in Nat, revoked' \subseteq DOMAIN earned,
           t.st = "saving" => t.job.at = "tmp" /\ t.job.step \in {"open", "remove"},
           InMemory(t) \subseteq Known(proc[p]), InJob(t) \subseteq Known(proc[p]),
           "remove" \notin broken' =>
               /\ \A e \in InMemory(t) \cup InJob(t) : e.tok \notin revoked'
               /\ ~Clearing(t) => \A e \in InFile(disk["sessions"].main) : e.tok \notin revoked',
           "pins" \notin broken' =>
               /\ PinsOnDisk = recorded
               /\ IF t.st = "saving" /\ t.job.file = "pins"
                  THEN t.job.body = t.pins /\ t.pins = Recorded(t.job.what)
                  ELSE t.st # "down" => t.pins = recorded
    PROVE  Inv'
<1> DEFINE s == proc[p]
<1>1. ProcessInv(s) /\ Shared
  BY DEF Inv
<1>2. proc'[p] = t /\ DOMAIN proc' = Procs /\ proc' = [q \in Procs |-> proc'[q]]
  BY Moves
<1>3. Shared'
  BY <1>1 DEF Shared, FilesType, Issued
<1>4. Progress(proc[p])'
  BY <1>2 DEF Progress
<1>5. Tokens(Known(proc[p]))'
  <2>1. Known(proc[p])' = InMemory(t) \cup InJob(t) \cup InFile(disk["sessions"].main)
                          \cup InFile(disk["sessions"].tmp)
    BY <1>2 DEF Known
  <2>2. Known(proc[p])' \subseteq Known(s)
    BY <2>1 DEF Known
  <2>3. Tokens(Known(s))
    BY <1>1 DEF ProcessInv
  <2> QED BY <2>2, <2>3 DEF Tokens
<1>6. Revocation(proc[p])'
  BY <1>2 DEF Revocation, Live1
<1>7. Pinned(proc[p])'
  <2>1. PinsOnDisk' = PinsOnDisk
    BY DEF PinsOnDisk
  <2> QED BY <1>2, <2>1 DEF Pinned, Recorded
<1>8. ProcessInv(proc[p])'
  BY <1>2, <1>4, <1>5, <1>6, <1>7 DEF ProcessInv, Replayed
<1> QED BY <1>2, <1>3, <1>8, Concludes

LEMMA LinesTyped ==
    ASSUME FilesType
    PROVE  /\ LinesOnDisk \in Seq(Line) /\ Entries(LinesOnDisk) \subseteq InFile(disk["sessions"].main)
           /\ PinsOnDisk \in Pins
<1>1. <<>> \in Seq(Line) /\ <<>> \in Pins /\ Entries(<<>>) = {}
  <2>1. Entries(<<>>) = {}
    BY DEF Entries, Range1
  <2> QED BY <2>1, DownType DEF ProcessType
<1>2. /\ disk["sessions"].main \in SessionFile \cup {None}
      /\ disk["pins"].main \in PinFile \cup {None}
  BY DEF FilesType
<1>3. LinesOnDisk \in Seq(Line) /\ Entries(LinesOnDisk) \subseteq InFile(disk["sessions"].main)
  BY <1>1, <1>2 DEF LinesOnDisk, InFile, SessionFile
<1>4. PinsOnDisk \in Pins
  BY <1>1, <1>2 DEF PinsOnDisk, PinFile
<1> QED BY <1>3, <1>4

LEMMA StartingStep ==
    ASSUME Alone, Inv, NEW p \in Procs, proc[p].st = "down", NEW mode \in Modes,
           NEW todo \in Seq(Session), Range1(todo) \subseteq InFile(disk["sessions"].main),
           Starting(p, mode, todo),
           UNCHANGED <<disk, clock, earned, revoked, recorded>>, broken \subseteq broken'
    PROVE  Inv'
<1> DEFINE s == proc[p]
           t == [Down EXCEPT !.st = "restoring", !.mode = mode,
                             !.pins = PinsOnDisk, !.todo = todo, !.stored = Len(todo)]
<1>1. ProcessInv(s) /\ Shared /\ s.st = "down"
  BY DEF Inv
<1>2. proc' = [proc EXCEPT ![p] = t]
  BY DEF Starting
<1>3. PinsOnDisk \in Pins /\ Len(todo) \in Nat
  BY <1>1, LinesTyped DEF Shared
<1>4. /\ t.st = "restoring" /\ t.mode = mode /\ t.pins = PinsOnDisk /\ t.todo = todo
      /\ t.stored = Len(todo) /\ t.mem = <<>> /\ t.kept = 0 /\ t.job = None
      /\ DOMAIN t = DOMAIN Down /\ t = [f \in DOMAIN Down |-> t[f]]
  BY DEF Down
<1> HIDE DEF t
<1>5. ProcessType(t)
  <2>1. DOMAIN Down = {"st", "mode", "mem", "pins", "todo", "kept", "stored", "job"}
    BY DEF Down
  <2>2. <<>> \in Seq(Session)
    OBVIOUS
  <2>3. /\ DOMAIN t = {"st", "mode", "mem", "pins", "todo", "kept", "stored", "job"}
        /\ t = [f \in DOMAIN t |-> t[f]]
        /\ t.mode \in Modes \cup {None} /\ t.mem \in Seq(Session) /\ t.pins \in Pins
        /\ t.todo \in Seq(Session) /\ t.kept \in Nat /\ t.stored \in Nat
    BY <1>3, <1>4, <2>1, <2>2
  <2> QED BY <1>4, <2>3 DEF ProcessType
<1>6. InMemory(t) = Range1(todo) /\ InJob(t) = {}
  BY <1>4 DEF InMemory, InJob, Range1
<1>7. InFile(disk["sessions"].main) \subseteq Known(s)
  BY DEF Known
<1>8. ASSUME "remove" \notin broken'
      PROVE  \A e \in InFile(disk["sessions"].main) : e.tok \notin revoked'
  BY <1>1, <1>8 DEF ProcessInv, Revocation, Clearing, Live1
<1>9. ASSUME "pins" \notin broken' PROVE PinsOnDisk = recorded
  BY <1>1, <1>9 DEF ProcessInv, Pinned
<1>10. clock' \in Nat /\ revoked' \subseteq DOMAIN earned
  BY <1>1 DEF Shared, Issued
<1>11. t.st # "saving" /\ t.pins = PinsOnDisk
  BY <1>4
<1> HIDE DEF s
<1>12. InMemory(t) \subseteq Known(proc[p]) /\ InJob(t) \subseteq Known(proc[p])
  BY <1>6, <1>7 DEF s
<1>13. "remove" \notin broken' => \A e \in InMemory(t) \cup InJob(t) : e.tok \notin revoked'
  BY <1>6, <1>8
<1>14. Replayed(t)
  BY <1>4 DEF Replayed
<1> QED BY <1>2, <1>5, <1>8, <1>9, <1>10, <1>11, <1>12, <1>13, <1>14, NewProcess

LEMMA StartStep ==
    ASSUME Alone, Inv, NEW p \in Procs, Start(p)
    PROVE  Inv'
<1>1. PICK mode \in Modes : Starting(p, mode, Loaded(LinesOnDisk))
  BY DEF Start
<1>2. LinesOnDisk \in Seq(Line) /\ Entries(LinesOnDisk) \subseteq InFile(disk["sessions"].main)
  BY LinesTyped DEF Inv, Shared
<1>3. /\ Loaded(LinesOnDisk) \in Seq(Session)
      /\ Range1(Loaded(LinesOnDisk)) \subseteq InFile(disk["sessions"].main)
  BY <1>2, LoadedProperties
<1>4. UNCHANGED <<disk, clock, earned, revoked, recorded>> /\ broken \subseteq broken'
      /\ proc[p].st = "down"
  BY DEF Start
<1> QED BY <1>1, <1>3, <1>4, StartingStep

LEMMA StartUnreadableStep ==
    ASSUME Alone, Inv, NEW p \in Procs, StartUnreadable(p)
    PROVE  Inv'
<1>1. PICK mode \in Modes : Starting(p, mode, <<>>)
  BY DEF StartUnreadable
<1>2. <<>> \in Seq(Session) /\ Range1(<<>>) = {}
  BY DEF Range1
<1>3. UNCHANGED <<disk, clock, earned, revoked, recorded>> /\ broken \subseteq broken'
      /\ proc[p].st = "down"
  BY DEF StartUnreadable
<1> QED BY <1>1, <1>2, <1>3, StartingStep

\* A save of sessions begins: what is in memory was known, and lives unless
\* it is what the save clears.
LEMMA SaveBegins ==
    ASSUME Alone, Inv, NEW p \in Procs, proc[p].st \in {"idle", "restoring"},
           NEW s, ProcessType(s), s.pins = proc[p].pins, InMemory(s) \subseteq Known(proc[p]),
           NEW why \in {"set", "clear"}, NEW next \in {"idle", "restoring"},
           NEW what \in SUBSET Line, next = "idle" => s.todo = <<>>,
           proc' = [proc EXCEPT ![p] = SaveSessions(s, why, next, what)],
           UNCHANGED <<disk, clock, earned, recorded, broken>>, revoked' \subseteq DOMAIN earned,
           "remove" \notin broken =>
               /\ \A e \in InMemory(s) : e.tok \notin revoked'
               /\ why # "clear" => revoked' = revoked
    PROVE  Inv'
<1> DEFINE t == SaveSessions(s, why, next, what)
<1>1. /\ ProcessType(t) /\ t.st = "saving" /\ t.pins = s.pins
      /\ t.job.file = "sessions" /\ t.job.why = why /\ t.job.next = next /\ t.todo = s.todo
      /\ t.job.step \in {"open", "remove"} /\ t.job.at = "tmp"
      /\ InMemory(t) = InMemory(s) /\ InJob(t) \subseteq InMemory(s)
  BY SaveSessionsFields
<1>2. proc' = [proc EXCEPT ![p] = t]
  OBVIOUS
<1> HIDE DEF t
<1>3. ProcessInv(proc[p]) /\ Shared
  BY DEF Inv
<1>4. ASSUME "remove" \notin broken'
      PROVE  /\ \A e \in InMemory(t) \cup InJob(t) : e.tok \notin revoked'
             /\ ~Clearing(t) => \A e \in InFile(disk["sessions"].main) : e.tok \notin revoked'
  <2>1. \A e \in InMemory(t) \cup InJob(t) : e.tok \notin revoked'
    BY <1>1, <1>4
  <2>2. ASSUME ~Clearing(t) PROVE \A e \in InFile(disk["sessions"].main) : e.tok \notin revoked'
    <3>1. why # "clear"
      BY <1>1, <2>2 DEF Clearing
    <3>2. Live1(InFile(disk["sessions"].main))
      BY <1>3, <1>4 DEF ProcessInv, Revocation, Clearing
    <3> QED BY <3>1, <3>2, <1>4 DEF Live1
  <2> QED BY <2>1, <2>2
<1>5. ASSUME "pins" \notin broken' PROVE PinsOnDisk = recorded /\ t.pins = recorded
  BY <1>1, <1>3, <1>5 DEF ProcessInv, Pinned
<1>6. clock' \in Nat
  BY <1>3 DEF Shared
<1>7. t.job.file # "pins"
  BY <1>1
<1>8. InMemory(t) \subseteq Known(proc[p]) /\ InJob(t) \subseteq Known(proc[p])
  BY <1>1
<1>9. Replayed(t)
  BY <1>1 DEF Replayed
<1> QED BY <1>1, <1>2, <1>4, <1>5, <1>6, <1>7, <1>8, <1>9, NewProcess

LEMMA RestoreEndsStep ==
    ASSUME Alone, Inv, NEW p \in Procs, RestoreEnds(p)
    PROVE  Inv'
<1> DEFINE s == proc[p]
<1>1. /\ ProcessInv(s) /\ ProcessType(s) /\ Shared /\ s.st = "restoring"
      /\ UNCHANGED <<disk, clock, earned, revoked, recorded, broken>> /\ s.todo = <<>>
  BY DEF Inv, ProcessInv, RestoreEnds, counters
<1>2. InMemory(s) \subseteq Known(s) /\ revoked' \subseteq DOMAIN earned /\ clock' \in Nat
  BY <1>1 DEF Known, Shared, Issued
<1>3. "remove" \notin broken => \A e \in InMemory(s) : e.tok \notin revoked'
  BY <1>1 DEF ProcessInv, Revocation, Live1
<1>4. CASE s.kept = s.stored
  <2> DEFINE t == [s EXCEPT !.st = "idle"]
  <2>1. proc' = [proc EXCEPT ![p] = t]
    BY <1>4 DEF RestoreEnds
  <2>2. /\ t.st = "idle" /\ t.mem = s.mem /\ t.todo = s.todo /\ t.pins = s.pins
        /\ t.mode = s.mode /\ t.kept = s.kept /\ t.stored = s.stored /\ t.job = s.job
        /\ DOMAIN t = DOMAIN s /\ t = [f \in DOMAIN s |-> t[f]]
    <3> HIDE DEF s
    <3> QED BY <1>1, Fields
  <2> HIDE DEF t
  <2>3. ProcessType(t)
    BY <1>1, <2>2, Fields DEF ProcessType
  <2>4. InMemory(t) = InMemory(s) /\ InJob(t) = {}
    BY <2>2 DEF InMemory, InJob
  <2>5. "remove" \notin broken' =>
           /\ \A e \in InMemory(t) \cup InJob(t) : e.tok \notin revoked'
           /\ \A e \in InFile(disk["sessions"].main) : e.tok \notin revoked'
    BY <1>1, <1>3, <2>4 DEF ProcessInv, Revocation, Live1, Clearing
  <2>6. "pins" \notin broken' => PinsOnDisk = recorded /\ t.pins = recorded
    BY <1>1, <2>2 DEF ProcessInv, Pinned
  <2>7. t.st # "saving"
    BY <2>2
  <2>8. InMemory(t) \subseteq Known(proc[p]) /\ InJob(t) \subseteq Known(proc[p])
    BY <1>2, <2>4
  <2>9. Replayed(t)
    BY <1>1, <2>2 DEF Replayed
  <2> QED BY <1>1, <1>2, <2>1, <2>3, <2>5, <2>6, <2>7, <2>8, <2>9, NewProcess
<1>5. CASE s.kept # s.stored
  <2>1. proc' = [proc EXCEPT ![p] = SaveSessions(s, "set", "idle", {})]
    BY <1>5 DEF RestoreEnds
  <2>2. "remove" \notin broken =>
           /\ \A e \in InMemory(s) : e.tok \notin revoked'
           /\ "set" # "clear" => revoked' = revoked
    BY <1>1, <1>3
  <2>3. {} \in SUBSET Line /\ s.pins = proc[p].pins /\ proc[p].st \in {"idle", "restoring"}
        /\ InMemory(s) \subseteq Known(proc[p])
    BY <1>1, <1>2
  <2> HIDE DEF s
  <2> QED BY <1>1, <1>2, <2>1, <2>2, <2>3, SaveBegins
<1> QED BY <1>4, <1>5

LEMMA RestoreOneStep ==
    ASSUME Alone, Inv, NEW p \in Procs, RestoreOne(p)
    PROVE  Inv'
<1> DEFINE s == proc[p]
           e == Head(s.todo)
           rest == [s EXCEPT !.todo = Tail(s.todo)]
           set == [rest EXCEPT !.mem = try_set_token(rest.mem, e), !.kept = rest.kept + 1]
<1>1. /\ ProcessInv(s) /\ ProcessType(s) /\ Shared /\ s.st = "restoring"
      /\ UNCHANGED <<disk, clock, earned, revoked, recorded, broken>> /\ s.todo # <<>>
      /\ proc' = [proc EXCEPT ![p] = IF Refused(s.mem, e) THEN rest
                                     ELSE SaveSessions(set, "set", "restoring", {})]
  BY DEF Inv, ProcessInv, RestoreOne, counters
<1>2. InMemory(s) \subseteq Known(s) /\ revoked' \subseteq DOMAIN earned /\ clock' \in Nat
  BY <1>1 DEF Known, Shared, Issued
<1> HIDE DEF s
<1>3. "remove" \notin broken => \A x \in InMemory(s) : x.tok \notin revoked'
  BY <1>1 DEF ProcessInv, Revocation, Live1
<1>4. /\ e \in Session /\ e \in Range1(s.todo) /\ Tail(s.todo) \in Seq(Session)
      /\ Range1(Tail(s.todo)) \subseteq Range1(s.todo)
  <2>1. s.todo \in Seq(Session)
    BY <1>1, Fields
  <2>2. /\ Len(s.todo) \in Nat /\ Len(s.todo) >= 1 /\ Head(s.todo) = s.todo[1]
        /\ Tail(s.todo) \in Seq(Session) /\ Len(Tail(s.todo)) = Len(s.todo) - 1
        /\ \A i \in 1 .. Len(s.todo) - 1 : Tail(s.todo)[i] = s.todo[i + 1]
    BY <1>1, <2>1, HeadTailProperties
  <2>3. DOMAIN s.todo = 1 .. Len(s.todo) /\ DOMAIN Tail(s.todo) = 1 .. Len(s.todo) - 1
    BY <2>1, <2>2
  <2>4. 1 \in DOMAIN s.todo /\ s.todo[1] \in Session
    BY <2>1, <2>2, <2>3
  <2>5. \A i \in DOMAIN Tail(s.todo) : i + 1 \in DOMAIN s.todo
    BY <2>2, <2>3
  <2> QED BY <2>2, <2>3, <2>4, <2>5 DEF Range1
<1>5. /\ rest.todo = Tail(s.todo) /\ rest.mem = s.mem /\ rest.pins = s.pins /\ rest.st = s.st
      /\ ProcessType(rest)
  <2>1. /\ rest.todo = Tail(s.todo) /\ rest.mem = s.mem /\ rest.pins = s.pins /\ rest.st = s.st
        /\ rest.mode = s.mode /\ rest.kept = s.kept /\ rest.stored = s.stored /\ rest.job = s.job
        /\ DOMAIN rest = DOMAIN s /\ rest = [f \in DOMAIN s |-> rest[f]]
    BY <1>1, Fields, ZenonT(60)
  <2> HIDE DEF rest
  <2> QED BY <1>1, <1>4, <2>1, Fields DEF ProcessType
<1> HIDE DEF rest, e
<1>6. InMemory(rest) \subseteq InMemory(s)
  BY <1>4, <1>5 DEF InMemory
<1>7. CASE Refused(s.mem, e)
  <2>1. proc' = [proc EXCEPT ![p] = rest]
    BY <1>1, <1>7
  <2>2. rest.st # "saving" /\ InJob(rest) = {} /\ Replayed(rest)
    BY <1>1, <1>5 DEF InJob, Replayed
  <2>3. "remove" \notin broken' =>
           /\ \A x \in InMemory(rest) \cup InJob(rest) : x.tok \notin revoked'
           /\ \A x \in InFile(disk["sessions"].main) : x.tok \notin revoked'
    BY <1>1, <1>3, <1>6, <2>2 DEF ProcessInv, Revocation, Live1, Clearing
  <2>4. "pins" \notin broken' => PinsOnDisk = recorded /\ rest.pins = recorded
    BY <1>1, <1>5 DEF ProcessInv, Pinned
  <2>5. InMemory(rest) \subseteq Known(proc[p]) /\ InJob(rest) \subseteq Known(proc[p])
    BY <1>2, <1>6, <2>2 DEF s
  <2> QED BY <1>1, <1>2, <1>5, <2>1, <2>2, <2>3, <2>4, <2>5, NewProcess
<1>8. CASE ~Refused(s.mem, e)
  <2>1. proc' = [proc EXCEPT ![p] = SaveSessions(set, "set", "restoring", {})]
    BY <1>1, <1>8
  <2>2. s.mem \in Seq(Session)
    BY <1>1, Fields
  <2>3. /\ try_set_token(s.mem, e) \in Seq(Session)
        /\ Range1(try_set_token(s.mem, e)) \subseteq Range1(s.mem) \cup {e}
    BY <1>4, <2>2, SetTokenProperties
  <2>4. /\ set.mem = try_set_token(s.mem, e) /\ set.kept = rest.kept + 1
        /\ set.todo = rest.todo /\ set.pins = rest.pins /\ set.st = rest.st
        /\ set.mode = rest.mode /\ set.stored = rest.stored /\ set.job = rest.job
        /\ DOMAIN set = DOMAIN rest /\ set = [f \in DOMAIN rest |-> set[f]]
    BY <1>5, Fields
  <2> HIDE DEF set
  <2>5. ProcessType(set)
    <3>1. /\ DOMAIN rest = {"st", "mode", "mem", "pins", "todo", "kept", "stored", "job"}
          /\ rest.todo \in Seq(Session) /\ rest.pins \in Pins /\ rest.mode \in Modes \cup {None}
          /\ rest.kept \in Nat /\ rest.stored \in Nat
      BY <1>5, Fields
    <3>2. rest.st = "restoring" /\ rest.job = None
      BY <1>1, <1>5 DEF ProcessType
    <3>3. set = [f \in DOMAIN set |-> set[f]] /\ DOMAIN set = DOMAIN rest
      BY <2>4
    <3>4. set.kept \in Nat /\ set.mem \in Seq(Session)
      BY <2>3, <2>4, <3>1
    <3> QED BY <2>4, <3>1, <3>2, <3>3, <3>4 DEF ProcessType
  <2>6. InMemory(set) \subseteq InMemory(s)
    BY <1>4, <1>5, <2>3, <2>4 DEF InMemory
  <2>7. "remove" \notin broken =>
           /\ \A x \in InMemory(set) : x.tok \notin revoked'
           /\ "set" # "clear" => revoked' = revoked
    BY <1>1, <1>3, <2>6
  <2>8. {} \in SUBSET Line /\ set.pins = proc[p].pins /\ proc[p].st \in {"idle", "restoring"}
        /\ InMemory(set) \subseteq Known(proc[p])
    BY <1>1, <1>2, <1>5, <2>4, <2>6 DEF s
  <2> QED BY <1>1, <1>2, <2>1, <2>5, <2>7, <2>8, SaveBegins
<1> QED BY <1>7, <1>8

LEMMA StopStep ==
    ASSUME Alone, Inv, NEW p \in Procs, Stop(p)
    PROVE  Inv'
<1> DEFINE s == proc[p]
<1>1. /\ ProcessInv(s) /\ ProcessType(s) /\ Shared
      /\ UNCHANGED <<disk, clock, earned, revoked, recorded>>
      /\ proc' = [proc EXCEPT ![p] = Down]
      /\ broken \subseteq broken'
      /\ s.st = "saving" /\ s.job.why = "clear" => "remove" \in broken'
  BY DEF Inv, ProcessInv, Stop
<1> HIDE DEF s
<1>2. /\ ProcessType(Down) /\ Down.st = "down" /\ InMemory(Down) = {} /\ InJob(Down) = {}
      /\ Replayed(Down)
  BY DownType DEF InMemory, InJob, Range1, Replayed
<1>3. "remove" \notin broken' => \A e \in InFile(disk["sessions"].main) : e.tok \notin revoked'
  BY <1>1 DEF ProcessInv, Revocation, Clearing, Live1
<1>4. "pins" \notin broken' => PinsOnDisk = recorded
  BY <1>1 DEF ProcessInv, Pinned
<1>5. revoked' \subseteq DOMAIN earned /\ clock' \in Nat
  BY <1>1 DEF Shared, Issued
<1> QED BY <1>1, <1>2, <1>3, <1>4, <1>5, NewProcess

LEMMA SameInv ==
    ASSUME Inv, UNCHANGED <<proc, disk, earned, revoked, recorded, broken>>, clock' \in Nat
    PROVE  Inv'
<1>1. UNCHANGED <<proc, disk, earned, revoked, recorded, broken>> /\ clock' \in Nat
  OBVIOUS
<1>2. Shared'
  BY <1>1 DEF Inv, Shared, FilesType, Issued
<1>3. ASSUME NEW p \in Procs PROVE ProcessInv(proc[p])'
  <2>1. ProcessInv(proc[p])
    BY DEF Inv
  <2>2. Known(proc[p])' = Known(proc[p])
    BY <1>1 DEF Known
  <2>3. Tokens(Known(proc[p]))'
    BY <1>1, <2>1, <2>2 DEF ProcessInv, Tokens
  <2>4. Progress(proc[p])' /\ Replayed(proc[p])' /\ ProcessType(proc[p])'
    BY <1>1, <2>1 DEF ProcessInv, Progress
  <2>5. Revocation(proc[p])'
    BY <1>1, <2>1 DEF ProcessInv, Revocation, Live1
  <2>6. Pinned(proc[p])'
    BY <1>1, <2>1 DEF ProcessInv, Pinned, Recorded, PinsOnDisk
  <2> QED BY <2>3, <2>4, <2>5, <2>6 DEF ProcessInv
<1>4. proc' = [p \in Procs |-> proc'[p]]
  BY <1>1 DEF Inv
<1> QED BY <1>2, <1>3, <1>4 DEF Inv

LEMMA TickStep ==
    ASSUME Inv, Tick
    PROVE  Inv'
<1>1. UNCHANGED <<proc, disk, earned, revoked, recorded, broken>> /\ clock' \in Nat
  BY DEF Tick, Inv, Shared
<1> QED BY <1>1, SameInv

LEMMA OriginForSite ==
    ASSUME NEW s, NEW host \in Hosts
    PROVE  OriginFor(s, host) \in Site
<1>1. security_for(s, host) \in Securities
  BY DEF security_for, Securities
<1> QED BY <1>1 DEF OriginFor, Site

LEMMA SetSessionStep ==
    ASSUME Alone, Inv, NEW p \in Procs, SetSession(p)
    PROVE  Inv'
<1> DEFINE s == proc[p]
           n == Cardinality(DOMAIN earned)
           tok == n + 1
<1>1. PICK host \in Hosts, scope \in Scopes, exp \in Expiries \cup {None} :
          LET e == [org |-> OriginFor(s, host), scope |-> scope, tok |-> tok, exp |-> exp]
              set == [s EXCEPT !.mem = try_set_token(s.mem, e)]
          IN /\ proc' = [proc EXCEPT ![p] =
                            SaveSessions(set, "set", "idle",
                                         IF Eligible(e) THEN Lines({e}) ELSE {})]
             /\ earned' = [t \in DOMAIN earned \cup {tok} |->
                              IF t = tok THEN e.org ELSE earned[t]]
  BY ZenonT(60) DEF SetSession
<1> DEFINE e == [org |-> OriginFor(s, host), scope |-> scope, tok |-> tok, exp |-> exp]
           mem == try_set_token(s.mem, e)
           set == [s EXCEPT !.mem = mem]
           what == IF Eligible(e) THEN Lines({e}) ELSE {}
           t == SaveSessions(set, "set", "idle", what)
<1>2. /\ proc' = [proc EXCEPT ![p] = t]
      /\ earned' = [k \in DOMAIN earned \cup {tok} |-> IF k = tok THEN e.org ELSE earned[k]]
      /\ s.st = "idle" /\ UNCHANGED <<disk, clock, revoked, recorded, broken>>
  BY <1>1 DEF SetSession, Operating
<1>3. /\ ProcessInv(s) /\ ProcessType(s) /\ Shared /\ Issued
      /\ n \in Nat /\ DOMAIN earned = 1 .. n
  BY DEF Inv, ProcessInv, Shared, Issued
<1>4. e \in Session /\ e.tok = tok /\ e.exp = exp /\ e.org = OriginFor(s, host)
  <2>1. exp \in Nat \cup {None} /\ tok \in Nat
    BY <1>3, StoresAssumption
  <2> HIDE DEF tok, s
  <2> QED BY <2>1, OriginForSite DEF Session
<1> HIDE DEF e, t, s, n
<1>5. what \in SUBSET Line
  <2>1. ASSUME Eligible(e) PROVE LineOf(e) \in Line
    BY <1>4, <2>1, LineOfSession DEF Eligible
  <2> QED BY <2>1 DEF Lines
<1> HIDE DEF what
<1>6. mem \in Seq(Session) /\ Range1(mem) \subseteq Range1(s.mem) \cup {e}
  BY <1>3, <1>4, Fields, SetTokenProperties
<1> HIDE DEF mem
<1>7. ProcessType(set) /\ set.mem = mem /\ set.todo = s.todo /\ set.pins = s.pins
  <2>1. /\ set.st = s.st /\ set.mem = mem /\ set.todo = s.todo /\ set.pins = s.pins
        /\ set.mode = s.mode /\ set.kept = s.kept /\ set.stored = s.stored /\ set.job = s.job
        /\ DOMAIN set = DOMAIN s /\ set = [f \in DOMAIN s |-> set[f]]
    BY <1>3, Fields
  <2> HIDE DEF set
  <2> QED BY <1>3, <1>6, <2>1, Fields DEF ProcessType
<1> HIDE DEF set
<1>8. /\ ProcessType(t) /\ t.st = "saving" /\ t.pins = s.pins /\ t.todo = s.todo
      /\ t.job.file = "sessions" /\ t.job.why = "set" /\ t.job.next = "idle"
      /\ t.job.step \in {"open", "remove"} /\ t.job.at = "tmp"
      /\ InMemory(t) = InMemory(set) /\ InJob(t) \subseteq InMemory(set)
  BY <1>5, <1>7, SaveSessionsFields DEF t
<1>9. InMemory(set) \subseteq InMemory(s) \cup {e}
  BY <1>6, <1>7 DEF InMemory
<1>10. proc'[p] = t /\ DOMAIN proc' = Procs /\ proc' = [q \in Procs |-> proc'[q]]
  BY <1>2, Moves
<1>11. tok \notin DOMAIN earned /\ DOMAIN earned' = 1 .. n + 1 /\ DOMAIN earned \subseteq DOMAIN earned'
  <2>1. DOMAIN earned' = DOMAIN earned \cup {tok}
    BY <1>2
  <2> QED BY <1>3, <2>1
<1>12. Shared'
  <2>1. Cardinality(1 .. n + 1) = n + 1 /\ n + 1 \in Nat
    BY <1>3, FS_Interval
  <2>2. revoked' \subseteq DOMAIN earned'
    BY <1>2, <1>3, <1>11 DEF Issued
  <2>3. Issued'
    BY <1>11, <2>1, <2>2 DEF Issued
  <2> QED BY <1>2, <1>3, <2>3 DEF Shared, FilesType
<1>13. Tokens(Known(proc[p]))'
  <2>1. Tokens(Known(s))
    BY <1>3 DEF ProcessInv
  <2>2. Known(proc[p])' = InMemory(t) \cup InJob(t) \cup InFile(disk["sessions"].main)
                          \cup InFile(disk["sessions"].tmp)
    BY <1>2, <1>10 DEF Known
  <2>3. Known(proc[p])' \subseteq Known(s) \cup {e}
    BY <2>2, <1>8, <1>9 DEF Known, s
  <2>4. ASSUME NEW f \in Known(s) PROVE f.tok # tok /\ f.tok \in DOMAIN earned' /\ earned'[f.tok] = f.org
    <3>1. f.tok \in DOMAIN earned /\ earned[f.tok] = f.org
      BY <2>1 DEF Tokens
    <3> QED BY <3>1, <1>2, <1>11
  <2>5. e.tok \in DOMAIN earned' /\ earned'[e.tok] = e.org
    BY <1>2, <1>4
  <2>6. \A f, g \in Known(s) \cup {e} : f.tok = g.tok => f = g
    BY <2>1, <2>4, <1>4 DEF Tokens
  <2> QED BY <2>3, <2>4, <2>5, <2>6 DEF Tokens
<1>14. Revocation(proc[p])'
  <2>1. ASSUME "remove" \notin broken
        PROVE  /\ \A f \in InMemory(t) \cup InJob(t) : f.tok \notin revoked
               /\ \A f \in InFile(disk["sessions"].main) : f.tok \notin revoked
    <3>1. \A f \in InMemory(s) : f.tok \notin revoked
      BY <1>3, <2>1 DEF ProcessInv, Revocation, Live1
    <3>2. e.tok \notin revoked
      BY <1>3, <1>4, <1>11 DEF Issued
    <3>3. ~Clearing(s)
      BY <1>2 DEF Clearing
    <3>4. \A f \in InFile(disk["sessions"].main) : f.tok \notin revoked
      BY <1>3, <2>1, <3>3 DEF ProcessInv, Revocation, Live1
    <3> QED BY <1>8, <1>9, <3>1, <3>2, <3>4
  <2> QED BY <1>2, <1>10, <2>1 DEF Revocation, Live1
<1>15. Pinned(proc[p])'
  <2>1. PinsOnDisk' = PinsOnDisk
    BY <1>2 DEF PinsOnDisk
  <2>2. Pinned(s)
    BY <1>3 DEF ProcessInv
  <2>3. "pins" \notin broken => PinsOnDisk = recorded /\ s.pins = recorded
    BY <1>2, <2>2 DEF Pinned
  <2> QED BY <1>2, <1>8, <1>10, <2>1, <2>3 DEF Pinned
<1>16. Progress(proc[p])' /\ Replayed(proc[p])'
  <2>1. s.todo = <<>>
    BY <1>2, <1>3 DEF ProcessInv, Replayed
  <2> QED BY <1>8, <1>10, <2>1 DEF Progress, Replayed
<1>17. ProcessInv(proc[p])'
  BY <1>8, <1>10, <1>13, <1>14, <1>15, <1>16 DEF ProcessInv
<1> QED BY <1>10, <1>12, <1>17, Concludes

\* What is cleared was known and goes from memory with its token; no other
\* session in memory has that token.
LEMMA ClearStep ==
    ASSUME Alone, Inv, NEW p \in Procs, NEW gone \in SUBSET Range1(proc[p].mem), Clear(p, gone)
    PROVE  Inv'
<1> DEFINE s == proc[p]
           I == {i \in DOMAIN s.mem : s.mem[i] \notin gone}
           left == Subsequence(s.mem, I)
           set == [s EXCEPT !.mem = left]
<1>1. /\ ProcessInv(s) /\ ProcessType(s) /\ Shared /\ Issued /\ Tokens(Known(s)) /\ s.st = "idle"
      /\ UNCHANGED <<disk, clock, earned, recorded, broken>>
      /\ proc' = [proc EXCEPT ![p] = SaveSessions(set, "clear", "idle", {})]
      /\ revoked' = revoked \cup {e.tok : e \in gone}
  BY DEF Inv, ProcessInv, Shared, Clear, Operating
<1>2. s.mem \in Seq(Session) /\ Range1(s.mem) \subseteq Known(s)
  <2> HIDE DEF s
  <2> QED BY <1>1, Fields DEF Known, InMemory
<1>3. left \in Seq(Session) /\ Range1(left) = Range1(s.mem) \ gone
  <2>1. left \in Seq(Session) /\ Range1(left) = {s.mem[i] : i \in I}
    <3> HIDE DEF s
    <3>1. I \in SUBSET DOMAIN s.mem
      OBVIOUS
    <3> HIDE DEF I
    <3> QED BY <1>2, <3>1, SubsequenceProperties, SubsequenceRange
  <2>2. {s.mem[i] : i \in I} = Range1(s.mem) \ gone
    BY DEF Range1
  <2> QED BY <2>1, <2>2
<1> HIDE DEF s, left
<1>4. /\ ProcessType(set) /\ set.mem = left /\ set.todo = s.todo /\ set.pins = s.pins
  <2>1. /\ set.st = s.st /\ set.mem = left /\ set.todo = s.todo /\ set.pins = s.pins
        /\ set.mode = s.mode /\ set.kept = s.kept /\ set.stored = s.stored /\ set.job = s.job
        /\ DOMAIN set = DOMAIN s /\ set = [f \in DOMAIN s |-> set[f]]
    BY <1>1, Fields
  <2> HIDE DEF set
  <2> QED BY <1>1, <1>3, <2>1, Fields DEF ProcessType
<1> HIDE DEF set
<1>5. InMemory(set) = Range1(left) /\ set.todo = <<>>
  <2>1. s.todo = <<>>
    BY <1>1 DEF ProcessInv, Replayed
  <2> QED BY <1>4, <2>1 DEF InMemory, Range1
<1>6. gone \subseteq Known(s) /\ Range1(left) \subseteq Known(s)
  BY <1>2, <1>3 DEF s
<1>7. revoked' \subseteq DOMAIN earned
  BY <1>1, <1>6 DEF Tokens, Issued
<1>8. ASSUME "remove" \notin broken, NEW e \in InMemory(set) PROVE e.tok \notin revoked'
  <2>1. e \in Range1(s.mem) /\ e \notin gone /\ e \in Known(s)
    BY <1>3, <1>5, <1>2
  <2>2. e.tok \notin revoked
    BY <1>1, <1>8, <2>1 DEF ProcessInv, Revocation, Live1, InMemory
  <2>3. \A g \in gone : g.tok # e.tok
    BY <1>1, <1>6, <2>1 DEF Tokens
  <2> QED BY <1>1, <2>2, <2>3
<1>9. "remove" \notin broken =>
         /\ \A e \in InMemory(set) : e.tok \notin revoked'
         /\ "clear" # "clear" => revoked' = revoked
  BY <1>8
<1>10. /\ {} \in SUBSET Line /\ proc[p].st \in {"idle", "restoring"} /\ set.pins = proc[p].pins
       /\ InMemory(set) \subseteq Known(proc[p])
  BY <1>1, <1>4, <1>5, <1>6 DEF s
<1>11. "idle" = "idle" => set.todo = <<>>
  BY <1>5
<1> QED BY <1>1, <1>4, <1>7, <1>9, <1>10, <1>11, SaveBegins

LEMMA SendRequestStep ==
    ASSUME Inv, NEW p \in Procs, SendRequest(p)
    PROVE  Inv'
<1>1. UNCHANGED <<proc, disk, earned, revoked, recorded, broken>> /\ clock' \in Nat
  BY DEF SendRequest, Inv, Shared
<1> QED BY <1>1, SameInv

LEMMA PinSiteStep ==
    ASSUME Alone, Inv, NEW p \in Procs, PinSite(p)
    PROVE  Inv'
<1> DEFINE s == proc[p]
<1>1. /\ ProcessInv(s) /\ ProcessType(s) /\ Shared /\ s.st = "idle"
      /\ UNCHANGED <<disk, clock, earned, revoked, recorded, broken>>
  BY MeetsNone DEF Inv, ProcessInv, PinSite, Operating
<1>2. PICK host \in Hosts, cert \in Certs :
        proc' = [proc EXCEPT ![p] = SavePins([s EXCEPT !.pins = WithPin(s.pins, host, cert)], "idle",
                                             [host |-> host, cert |-> cert])]
  BY DEF PinSite
<1> DEFINE pins == WithPin(s.pins, host, cert)
           set == [s EXCEPT !.pins = pins]
           what == [host |-> host, cert |-> cert]
           t == SavePins(set, "idle", what)
<1> HIDE DEF s
<1>3. pins \in Pins
  BY <1>1, Fields, PinsChange
<1>4. /\ set.st = s.st /\ set.mem = s.mem /\ set.todo = s.todo /\ set.pins = pins
      /\ ProcessType(set)
  <2> HIDE DEF pins
  <2>1. /\ set.st = s.st /\ set.mem = s.mem /\ set.todo = s.todo /\ set.pins = pins
        /\ set.mode = s.mode /\ set.kept = s.kept /\ set.stored = s.stored /\ set.job = s.job
        /\ DOMAIN set = DOMAIN s /\ set = [f \in DOMAIN s |-> set[f]]
    BY <1>1, Fields
  <2> HIDE DEF set
  <2> QED BY <1>1, <1>3, <2>1, Fields DEF ProcessType
<1>5. what \in [host : Hosts, cert : Certs \cup {None}] /\ what.host = host /\ what.cert = cert
  OBVIOUS
<1>6. proc' = [proc EXCEPT ![p] = t]
  BY <1>2
<1> HIDE DEF set, what, pins
<1>7. /\ ProcessType(t) /\ t.st = "saving" /\ t.pins = pins /\ t.todo = s.todo
      /\ t.job.file = "pins" /\ t.job.body = pins /\ t.job.why = "pin" /\ t.job.what = what
      /\ t.job.next = "idle" /\ t.job.step = "open" /\ t.job.at = "tmp"
      /\ InMemory(t) = InMemory(s) /\ InJob(t) = {}
  <2>1. InMemory(set) = InMemory(s)
    BY <1>4 DEF InMemory
  <2> HIDE DEF t
  <2> QED BY <1>4, <1>5, <2>1, SavePinsFields DEF t
<1> HIDE DEF t
<1>8. "pins" \notin broken' => PinsOnDisk = recorded /\ pins = Recorded(what)
  <2>1. "pins" \notin broken => PinsOnDisk = recorded /\ s.pins = recorded
    BY <1>1 DEF ProcessInv, Pinned
  <2>2. what.cert # None
    BY <1>5, StoresAssumption
  <2> QED BY <1>1, <1>5, <2>1, <2>2 DEF Recorded, pins
<1>9. "remove" \notin broken' =>
         /\ \A e \in InMemory(t) \cup InJob(t) : e.tok \notin revoked'
         /\ \A e \in InFile(disk["sessions"].main) : e.tok \notin revoked'
  BY <1>1, <1>7 DEF ProcessInv, Revocation, Clearing, Live1
<1>10. Replayed(t)
  BY <1>1, <1>7 DEF ProcessInv, Replayed
<1>11. InMemory(t) \subseteq Known(proc[p]) /\ InJob(t) \subseteq Known(proc[p])
  BY <1>7 DEF Known, s
<1>12. clock' \in Nat /\ revoked' \subseteq DOMAIN earned
  BY <1>1 DEF Shared, Issued
<1> QED BY <1>1, <1>6, <1>7, <1>8, <1>9, <1>10, <1>11, <1>12, NewProcess

LEMMA ForgetSiteStep ==
    ASSUME Alone, Inv, NEW p \in Procs, ForgetSite(p)
    PROVE  Inv'
<1> DEFINE s == proc[p]
<1>1. /\ ProcessInv(s) /\ ProcessType(s) /\ Shared /\ FilesType /\ s.st = "down"
      /\ UNCHANGED <<disk, clock, earned, revoked, recorded, broken>>
  BY MeetsNone DEF Inv, ProcessInv, Shared, ForgetSite
<1>2. PICK host \in DOMAIN PinsOnDisk :
        proc' = [proc EXCEPT ![p] = SavePins([Down EXCEPT !.pins = WithoutPin(PinsOnDisk, host)],
                                             "down", [host |-> host, cert |-> None])]
  BY DEF ForgetSite
<1> DEFINE pins == WithoutPin(PinsOnDisk, host)
           set == [Down EXCEPT !.pins = pins]
           what == [host |-> host, cert |-> None]
           t == SavePins(set, "down", what)
<1> HIDE DEF s
<1>3. pins \in Pins /\ host \in Hosts
  <2>1. PinsOnDisk \in Pins
    BY <1>1, LinesTyped
  <2>2. host \in Hosts
    BY <2>1 DEF Pins
  <2> QED BY <2>1, <2>2, PinsChange
<1>4. set.st = "down" /\ set.mem = <<>> /\ set.todo = <<>> /\ set.pins = pins /\ ProcessType(set)
  <2> HIDE DEF pins
  <2>1. /\ set.st = Down.st /\ set.mem = Down.mem /\ set.todo = Down.todo /\ set.pins = pins
        /\ set.mode = Down.mode /\ set.kept = Down.kept /\ set.stored = Down.stored
        /\ set.job = Down.job
        /\ DOMAIN set = DOMAIN Down /\ set = [f \in DOMAIN Down |-> set[f]]
    BY DEF Down
  <2> HIDE DEF set
  <2> QED BY <1>3, <2>1, DownType, Fields DEF ProcessType
<1>5. what \in [host : Hosts, cert : Certs \cup {None}] /\ what.host = host /\ what.cert = None
  BY <1>3
<1>6. proc' = [proc EXCEPT ![p] = t]
  BY <1>2
<1> HIDE DEF set, what, pins
<1>7. /\ ProcessType(t) /\ t.st = "saving" /\ t.pins = pins /\ t.todo = <<>>
      /\ t.job.file = "pins" /\ t.job.body = pins /\ t.job.why = "pin" /\ t.job.what = what
      /\ t.job.next = "down" /\ t.job.step = "open" /\ t.job.at = "tmp"
      /\ InMemory(t) = {} /\ InJob(t) = {}
  <2>1. InMemory(set) = {}
    BY <1>4 DEF InMemory, Range1
  <2> HIDE DEF t
  <2> QED BY <1>4, <1>5, <2>1, SavePinsFields DEF t
<1> HIDE DEF t
<1>8. "pins" \notin broken' => PinsOnDisk = recorded /\ pins = Recorded(what)
  <2>1. "pins" \notin broken => PinsOnDisk = recorded
    BY <1>1 DEF ProcessInv, Pinned
  <2> QED BY <1>1, <1>5, <2>1 DEF Recorded, pins
<1>9. "remove" \notin broken' => \A e \in InFile(disk["sessions"].main) : e.tok \notin revoked'
  BY <1>1 DEF ProcessInv, Revocation, Clearing, Live1
<1>10. Replayed(t)
  BY <1>7 DEF Replayed
<1>11. clock' \in Nat /\ revoked' \subseteq DOMAIN earned
  BY <1>1 DEF Shared, Issued
<1> QED BY <1>1, <1>6, <1>7, <1>8, <1>9, <1>10, <1>11, NewProcess

-----------------------------------------------------------------------------
(* The invariant holds.                                                    *)

LEMMA InitInv ==
    ASSUME Init
    PROVE  Inv
<1>1. disk["sessions"] = Absent /\ disk["pins"] = Absent /\ DOMAIN disk = File
      /\ disk = [f \in File |-> disk[f]]
  BY DEF Init, File
<1>2. FilesType
  BY <1>1 DEF FilesType, Absent
<1>3. recorded = <<>> /\ recorded \in Pins
  BY DownType DEF Init, ProcessType
<1>4. Issued
  <2>1. DOMAIN earned = {} /\ revoked = {} /\ 1 .. 0 = {}
    BY DEF Init
  <2>2. Cardinality(DOMAIN earned) = 0
    BY <2>1, FS_EmptySet
  <2> QED BY <2>1, <2>2 DEF Issued
<1>5. ASSUME NEW p \in Procs PROVE ProcessInv(proc[p])
  <2>1. proc[p] = Down
    BY DEF Init
  <2>2. /\ ProcessType(proc[p]) /\ proc[p].st = "down"
        /\ InMemory(proc[p]) = {} /\ InJob(proc[p]) = {}
    BY <2>1, DownType DEF InMemory, InJob, Range1
  <2>3. InFile(disk["sessions"].main) = {} /\ InFile(disk["sessions"].tmp) = {}
    BY <1>1 DEF InFile, Absent
  <2>4. Known(proc[p]) = {}
    BY <2>2, <2>3 DEF Known
  <2>5. PinsOnDisk = <<>>
    BY <1>1 DEF PinsOnDisk, Absent
  <2>6. Progress(proc[p]) /\ Replayed(proc[p]) /\ Tokens(Known(proc[p]))
    BY <2>2, <2>4 DEF Progress, Replayed, Tokens
  <2>7. Revocation(proc[p]) /\ Pinned(proc[p])
    BY <1>3, <2>2, <2>3, <2>5 DEF Revocation, Live1, Pinned
  <2> QED BY <2>2, <2>6, <2>7 DEF ProcessInv
<1> QED BY <1>2, <1>3, <1>4, <1>5 DEF Inv, Shared, Init

LEMMA NextInv ==
    ASSUME Alone, Inv, [Next]_vars
    PROVE  Inv'
<1>1. CASE Tick
  BY <1>1, TickStep
<1>2. ASSUME NEW p \in Procs, Start(p) PROVE Inv'
  BY <1>2, StartStep
<1>3. ASSUME NEW p \in Procs, StartUnreadable(p) PROVE Inv'
  BY <1>3, StartUnreadableStep
<1>4. ASSUME NEW p \in Procs, RestoreOne(p) PROVE Inv'
  BY <1>4, RestoreOneStep
<1>5. ASSUME NEW p \in Procs, RestoreEnds(p) PROVE Inv'
  BY <1>5, RestoreEndsStep
<1>6. ASSUME NEW p \in Procs, Stop(p) PROVE Inv'
  BY <1>6, StopStep
<1>7. ASSUME NEW p \in Procs, SaveOpen(p) PROVE Inv'
  BY <1>7, SaveOpenStep
<1>8. ASSUME NEW p \in Procs, SaveWrite(p) PROVE Inv'
  BY <1>8, SaveWriteStep
<1>9. ASSUME NEW p \in Procs, SaveRename(p) PROVE Inv'
  BY <1>9, SaveRenameStep
<1>10. ASSUME NEW p \in Procs, Remove(p) PROVE Inv'
  BY <1>10, RemoveStep
<1>11. ASSUME NEW p \in Procs, SaveFails(p) PROVE Inv'
  BY <1>11, SaveFailsStep
<1>12. ASSUME NEW p \in Procs, SetSession(p) PROVE Inv'
  BY <1>12, SetSessionStep
<1>13. ASSUME NEW p \in Procs, ClearSession(p) PROVE Inv'
  <2>1. PICK host \in Hosts, scope \in Scopes :
          Clear(p, {e \in Range1(proc[p].mem) : e.org = OriginFor(proc[p], host) /\ e.scope = scope})
    BY <1>13 DEF ClearSession
  <2> QED BY <2>1, ClearStep
<1>14. ASSUME NEW p \in Procs, ClearStorageKey(p) PROVE Inv'
  <2>1. PICK host \in Hosts, sec \in {"VerifiedTls", "PinnedTls"} :
          Clear(p, {e \in Range1(proc[p].mem) : e.org = [host |-> host, sec |-> sec]})
    BY <1>14 DEF ClearStorageKey
  <2> QED BY <2>1, ClearStep
<1>15. ASSUME NEW p \in Procs, ClearAll(p) PROVE Inv'
  BY <1>15, ClearStep DEF ClearAll
<1>16. ASSUME NEW p \in Procs, SendRequest(p) PROVE Inv'
  BY <1>16, SendRequestStep
<1>17. ASSUME NEW p \in Procs, PinSite(p) PROVE Inv'
  BY <1>17, PinSiteStep
<1>18. ASSUME NEW p \in Procs, ForgetSite(p) PROVE Inv'
  BY <1>18, ForgetSiteStep
<1>19. CASE UNCHANGED vars
  <2>1. UNCHANGED <<proc, disk, earned, revoked, recorded, broken>> /\ clock' \in Nat
    BY <1>19 DEF vars, Inv, Shared
  <2> QED BY <2>1, SameInv
<1> QED BY <1>1, <1>2, <1>3, <1>4, <1>5, <1>6, <1>7, <1>8, <1>9, <1>10, <1>11, <1>12, <1>13,
           <1>14, <1>15, <1>16, <1>17, <1>18, <1>19 DEF Next

\* What the processes, the files and the issued tokens are, in every reachable
\* state, for one process (session_store.rs, session_file.rs, trust.rs).
THEOREM StoresInvariant ==
    ASSUME Alone
    PROVE  Spec => []Inv
<1>1. Init => Inv
  BY InitInv
<1>2. Inv /\ [Next]_vars => Inv'
  BY NextInv
<1> QED BY <1>1, <1>2, PTL DEF Spec

\* A cleared session is never restored: not in memory, and not on disk once
\* nothing is being written (client.rs, persist_after_clear).
THEOREM RevokedGoneAlways ==
    ASSUME Alone
    PROVE  Spec => []RevokedGone
<1>1. Inv => RevokedGone
  <2> SUFFICES ASSUME Inv, AllSettled, "remove" \notin broken
               PROVE  /\ \A l \in Range1(LinesOnDisk) : l.tok \notin revoked
                      /\ \A p \in Procs : \A e \in Range1(proc[p].mem) : e.tok \notin revoked
    BY DEF RevokedGone
  <2>1. ASSUME NEW p \in Procs
        PROVE  /\ \A e \in Range1(proc[p].mem) : e.tok \notin revoked
               /\ \A l \in Range1(LinesOnDisk) : l.tok \notin revoked
    <3>1. /\ Live1(InMemory(proc[p])) /\ Live1(InFile(disk["sessions"].main))
      BY DEF Inv, ProcessInv, Revocation, Clearing, AllSettled, Settled
    <3>2. Entries(LinesOnDisk) \subseteq InFile(disk["sessions"].main)
      BY LinesTyped DEF Inv, Shared
    <3>3. \A l \in Range1(LinesOnDisk) : EntryOf(l).tok = l.tok /\ EntryOf(l) \in Entries(LinesOnDisk)
      BY DEF EntryOf, Entries
    <3>4. \A l \in Range1(LinesOnDisk) : l.tok \notin revoked
      BY <3>1, <3>2, <3>3 DEF Live1
    <3> QED BY <3>1, <3>4 DEF Live1, InMemory
  <2>2. \E p \in Procs : TRUE
    BY DEF Alone
  <2> QED BY <2>1, <2>2
<1> QED BY <1>1, StoresInvariant, PTL

-----------------------------------------------------------------------------
(* The pins, for any number of processes.  While no save of the pins has   *)
(* failed or met another client, a process that is saving them is the only *)
(* one up, and every other one that is up holds what is on disk.           *)

Intact == "pins" \notin broken /\ "race" \notin broken
JobShape(j) ==
    /\ DOMAIN j = {"file", "body", "why", "next", "what", "step", "at"}
    /\ j = [f \in DOMAIN j |-> j[f]]
    /\ j.file \in File
    /\ j.file = "pins" => j \in PinJob
    /\ j.file = "sessions" => j.next \in {"idle", "restoring"}
PinsShape(s) ==
    /\ DOMAIN s = {"st", "mode", "mem", "pins", "todo", "kept", "stored", "job"}
    /\ s = [f \in DOMAIN s |-> s[f]]
    /\ s.st \in {"down", "restoring", "idle", "saving"} /\ s.pins \in Pins
    /\ s.st # "saving" => s.job = None
    /\ s.st = "saving" => JobShape(s.job)
Becomes(pins, what) == IF what.cert = None THEN WithoutPin(pins, what.host)
                       ELSE WithPin(pins, what.host, what.cert)
PinsHeld(s, pins, tmp) ==
    IF SavingPins(s)
    THEN /\ s.job.body = s.pins /\ s.pins = Becomes(pins, s.job.what) /\ s.job.at = "tmp"
         /\ s.job.step = "rename" => tmp = [body |-> s.job.body, whole |-> TRUE]
    ELSE s.st # "down" => s.pins = pins
PinsHeldBy(p) == PinsHeld(proc[p], recorded, disk["pins"].tmp)
PinsOnly == \A p \in Procs : SavingPins(proc[p]) => \A q \in Procs \ {p} : proc[q].st = "down"
PinFiles ==
    /\ DOMAIN disk = File
    /\ disk["pins"] \in [main : PinFile \cup {None}, tmp : PinFile \cup {None}]
PinsInv ==
    /\ proc = [p \in Procs |-> proc[p]] /\ \A p \in Procs : PinsShape(proc[p])
    /\ PinFiles /\ recorded \in Pins
    /\ Intact => PinsOnDisk = recorded /\ PinsOnly /\ \A p \in Procs : PinsHeldBy(p)

\* A process moves: what holds of the others still holds when they are down,
\* or when neither the pins on disk nor the recorded ones changed.
LEMMA PinsMove ==
    ASSUME PinsInv, NEW p \in Procs, NEW t, proc' = [proc EXCEPT ![p] = t], PinsShape(t),
           PinFiles', recorded' \in Pins, broken \subseteq broken',
           Intact' => /\ PinsOnDisk' = recorded' /\ PinsHeld(t, recorded', disk'["pins"].tmp)
                      /\ \/ UNCHANGED <<disk["pins"], recorded>>
                         \/ \A q \in Procs \ {p} : proc[q].st = "down"
                      /\ SavingPins(t) => \A q \in Procs \ {p} : proc[q].st = "down"
                      /\ t.st # "down" => \A q \in Procs \ {p} : ~SavingPins(proc[q])
    PROVE  PinsInv'
<1>1. /\ DOMAIN proc = Procs /\ proc'[p] = t /\ proc' = [q \in Procs |-> proc'[q]]
      /\ \A q \in Procs : q # p => proc'[q] = proc[q]
  BY DEF PinsInv
<1>2. \A q \in Procs : PinsShape(proc'[q])
  BY <1>1 DEF PinsInv
<1>3. ASSUME Intact' PROVE PinsOnDisk' = recorded' /\ PinsOnly' /\ \A q \in Procs : PinsHeldBy(q)'
  <2>1. Intact
    BY <1>3 DEF Intact
  <2>2. /\ PinsOnly /\ \A q \in Procs : PinsHeldBy(q)
    BY <2>1 DEF PinsInv
  <2>3. PinsOnly'
    <3> SUFFICES ASSUME NEW q \in Procs, SavingPins(proc'[q]), NEW r \in Procs \ {q}
                 PROVE  proc'[r].st = "down"
      BY DEF PinsOnly, SavingPins
    <3>1. CASE q = p
      BY <3>1, <1>1, <1>3
    <3>2. CASE q # p /\ r = p
      BY <3>2, <1>1, <1>3
    <3>3. CASE q # p /\ r # p
      BY <3>3, <1>1, <2>2 DEF PinsOnly
    <3> QED BY <3>1, <3>2, <3>3
  <2>4. ASSUME NEW q \in Procs PROVE PinsHeldBy(q)'
    <3>1. CASE q = p
      BY <3>1, <1>1, <1>3 DEF PinsHeldBy
    <3>2. CASE q # p /\ proc[q].st = "down"
      BY <3>2, <1>1 DEF PinsHeldBy, PinsHeld, SavingPins
    <3>3. CASE q # p /\ UNCHANGED <<disk["pins"], recorded>>
      <4>1. PinsHeldBy(q)
        BY <2>2
      <4>2. UNCHANGED <<proc[q], disk["pins"], recorded>>
        BY <3>3, <1>1
      <4> QED BY <4>1, <4>2 DEF PinsHeldBy
    <3> QED BY <3>1, <3>2, <3>3, <1>3
  <2> QED BY <1>3, <2>3, <2>4
<1> QED BY <1>1, <1>2, <1>3 DEF PinsInv

\* It moves and leaves the pins alone: it goes down, or it neither was nor is
\* saving them.
LEMMA PinsLeft ==
    ASSUME PinsInv, NEW p \in Procs, NEW t, proc' = [proc EXCEPT ![p] = t], PinsShape(t),
           t.st = "down" \/ (/\ proc[p].st # "down" /\ ~SavingPins(proc[p]) /\ ~SavingPins(t)
                             /\ t.pins = proc[p].pins),
           DOMAIN disk' = File, UNCHANGED <<disk["pins"], recorded>>, broken \subseteq broken'
    PROVE  PinsInv'
<1>1. PinFiles' /\ recorded' \in Pins
  BY DEF PinsInv, PinFiles
<1>2. ASSUME Intact'
      PROVE  /\ PinsOnDisk' = recorded' /\ PinsHeld(t, recorded', disk'["pins"].tmp) /\ ~SavingPins(t)
             /\ t.st # "down" => \A q \in Procs \ {p} : ~SavingPins(proc[q])
  <2>1. Intact
    BY <1>2 DEF Intact
  <2>2. PinsOnDisk = recorded /\ PinsOnly /\ PinsHeldBy(p)
    BY <2>1 DEF PinsInv
  <2>3. PinsOnDisk' = recorded' /\ ~SavingPins(t)
    BY <2>2 DEF PinsOnDisk, SavingPins
  <2>4. PinsHeld(t, recorded', disk'["pins"].tmp)
    BY <2>2, <2>3 DEF PinsHeldBy, PinsHeld, SavingPins
  <2>5. ASSUME t.st # "down", NEW q \in Procs \ {p} PROVE ~SavingPins(proc[q])
    BY <2>2, <2>5 DEF PinsOnly
  <2> QED BY <2>2, <2>3, <2>4, <2>5
<1> QED BY <1>1, <1>2, PinsMove

\* The shapes a step leaves.
LEMMA ShapeSame ==
    ASSUME NEW s, PinsShape(s), NEW t, DOMAIN t = DOMAIN s, t = [f \in DOMAIN t |-> t[f]],
           t.st = s.st, t.job = s.job, t.pins \in Pins
    PROVE  PinsShape(t)
BY DEF PinsShape

LEMMA ShapeStep ==
    ASSUME NEW s, PinsShape(s), s.st = "saving", NEW step \in {"write", "rename", "delete"},
           s.job.file = "pins" => step # "delete",
           NEW t, t = [s EXCEPT !.job = [s.job EXCEPT !.step = step]]
    PROVE  /\ PinsShape(t) /\ t.st = "saving" /\ t.pins = s.pins
           /\ t.job.file = s.job.file /\ t.job.body = s.job.body /\ t.job.what = s.job.what
           /\ t.job.step = step /\ t.job.at = s.job.at
<1> DEFINE k == [s.job EXCEPT !.step = step]
<1>1. JobShape(s.job)
  BY DEF PinsShape
<1>2. /\ DOMAIN k = DOMAIN s.job /\ k = [f \in DOMAIN k |-> k[f]] /\ k.step = step
      /\ k.file = s.job.file /\ k.next = s.job.next /\ k.body = s.job.body
      /\ k.what = s.job.what /\ k.at = s.job.at
  BY <1>1 DEF JobShape
<1>3. k.file = "pins" => k \in PinJob
  BY <1>1, <1>2 DEF JobShape, PinJob
<1>4. t = [s EXCEPT !.job = k]
  OBVIOUS
<1> HIDE DEF k
<1>5. JobShape(k)
  BY <1>1, <1>2, <1>3 DEF JobShape
<1>6. /\ DOMAIN t = DOMAIN s /\ t = [f \in DOMAIN t |-> t[f]]
      /\ t.job = k /\ t.st = s.st /\ t.pins = s.pins
  BY <1>4 DEF PinsShape
<1>7. PinsShape(t)
  BY <1>5, <1>6 DEF PinsShape
<1> QED BY <1>2, <1>6, <1>7

LEMMA ShapeFinished ==
    ASSUME NEW s, PinsShape(s), s.st = "saving", NEW t, t = Finished(s)
    PROVE  /\ PinsShape(t) /\ ~SavingPins(t)
           /\ t.st # "down" => t.pins = s.pins
           /\ s.job.file = "sessions" => t.st # "down"
<1>1. s.job.next \in {"idle", "restoring", "down"} /\ (s.job.file = "sessions" => s.job.next # "down")
  BY DEF PinsShape, JobShape, PinJob, File
<1>2. CASE s.job.next = "down"
  <2>1. PinsShape(Down)
    <3>1. Down.pins \in Pins
      BY DownType DEF ProcessType
    <3> QED BY <3>1 DEF PinsShape, Down
  <2>2. Down.st = "down"
    BY DEF Down
  <2> QED BY <1>1, <1>2, <2>1, <2>2 DEF Finished, SavingPins
<1>3. CASE s.job.next # "down"
  <2>1. t = [s EXCEPT !.st = s.job.next, !.job = None]
    BY <1>3 DEF Finished
  <2>2. /\ DOMAIN t = DOMAIN s /\ t = [f \in DOMAIN t |-> t[f]]
        /\ t.st = s.job.next /\ t.job = None /\ t.pins = s.pins
    BY <2>1 DEF PinsShape
  <2>3. PinsShape(t)
    BY <1>1, <1>3, <2>2 DEF PinsShape
  <2> QED BY <1>1, <1>3, <2>2, <2>3 DEF SavingPins
<1> QED BY <1>2, <1>3

LEMMA ShapeSessions ==
    ASSUME NEW s, PinsShape(s), NEW why, NEW next \in {"idle", "restoring"}, NEW what,
           NEW t, t = SaveSessions(s, why, next, what)
    PROVE  PinsShape(t) /\ ~SavingPins(t) /\ t.st = "saving" /\ t.pins = s.pins
<1> DEFINE j == Job("sessions", Written(s.mem), why, next, what)
<1>0. /\ DOMAIN s = {"st", "mode", "mem", "pins", "todo", "kept", "stored", "job"}
      /\ s = [f \in DOMAIN s |-> s[f]]
  BY DEF PinsShape
<1>1. /\ DOMAIN j = {"file", "body", "why", "next", "what", "step", "at"}
      /\ j = [f \in DOMAIN j |-> j[f]] /\ j.file = "sessions" /\ j.next = next
  BY DEF Job
<1>2. t = [s EXCEPT !.st = "saving", !.job = j]
  BY DEF SaveSessions
<1> HIDE DEF j
<1>3. /\ DOMAIN t = DOMAIN s /\ t = [f \in DOMAIN t |-> t[f]]
      /\ t.st = "saving" /\ t.job = j /\ t.pins = s.pins
  BY <1>0, <1>2, ZenonT(60)
<1>4. PinsShape(t)
  BY <1>1, <1>3 DEF PinsShape, JobShape, File
<1> QED BY <1>1, <1>3, <1>4 DEF SavingPins

LEMMA ShapePins ==
    ASSUME NEW s, PinsShape(s), NEW next \in {"idle", "down"},
           NEW what \in [host : Hosts, cert : Certs \cup {None}],
           NEW t, t = SavePins(s, next, what)
    PROVE  /\ PinsShape(t) /\ SavingPins(t) /\ t.st = "saving" /\ t.pins = s.pins
           /\ t.job.body = s.pins /\ t.job.what = what /\ t.job.at = "tmp"
           /\ t.job.step = "open"
<1> DEFINE j == Job("pins", s.pins, "pin", next, what)
<1>0. /\ DOMAIN s = {"st", "mode", "mem", "pins", "todo", "kept", "stored", "job"}
      /\ s = [f \in DOMAIN s |-> s[f]]
  BY DEF PinsShape
<1>1. /\ DOMAIN j = {"file", "body", "why", "next", "what", "step", "at"}
      /\ j = [f \in DOMAIN j |-> j[f]] /\ j.file = "pins" /\ j.body = s.pins
      /\ j.what = what /\ j.at = "tmp" /\ j.step = "open"
  BY DEF Job
<1>2. j \in PinJob
  BY DEF Job, PinJob, PinsShape
<1>3. t = [s EXCEPT !.st = "saving", !.job = j]
  BY DEF SavePins
<1> HIDE DEF j
<1>4. /\ DOMAIN t = DOMAIN s /\ t = [f \in DOMAIN t |-> t[f]]
      /\ t.st = "saving" /\ t.job = j /\ t.pins = s.pins
  BY <1>0, <1>3, ZenonT(60)
<1>5. PinsShape(t)
  BY <1>1, <1>2, <1>4 DEF PinsShape, JobShape, File
<1> QED BY <1>1, <1>4, <1>5 DEF SavingPins

\* What an intact state grants a process that is saving the pins.
LEMMA SavingAlone ==
    ASSUME PinsInv, Intact, NEW p \in Procs, SavingPins(proc[p])
    PROVE  /\ PinsOnDisk = recorded /\ \A q \in Procs \ {p} : proc[q].st = "down"
           /\ proc[p].job.body = proc[p].pins
           /\ proc[p].pins = Becomes(recorded, proc[p].job.what)
           /\ proc[p].job.at = "tmp"
           /\ proc[p].job.step = "rename" =>
                 disk["pins"].tmp = [body |-> proc[p].job.body, whole |-> TRUE]
BY DEF PinsInv, PinsOnly, PinsHeldBy, PinsHeld

LEMMA PinsSaveOpen ==
    ASSUME PinsInv, NEW p \in Procs, SaveOpen(p)
    PROVE  PinsInv'
<1> DEFINE s == proc[p]
           half == [body |-> <<>>, whole |-> FALSE]
           k == [s.job EXCEPT !.step = "write", !.at = "tmp"]
           t == [s EXCEPT !.job = k]
<1>1. /\ PinsShape(s) /\ JobShape(s.job) /\ s.st = "saving" /\ PinFiles /\ recorded \in Pins
      /\ UNCHANGED <<recorded, broken>>
  BY DEF PinsInv, SaveOpen, PinsShape
<1>2. /\ disk' = [disk EXCEPT ![s.job.file].tmp = half]
      /\ proc' = [proc EXCEPT ![p] = [s EXCEPT !.job.step = "write", !.job.at = "tmp"]]
  BY DEF SaveOpen
<1>3. /\ DOMAIN k = DOMAIN s.job /\ k = [f \in DOMAIN k |-> k[f]]
      /\ k.step = "write" /\ k.at = "tmp" /\ k.file = s.job.file /\ k.next = s.job.next
      /\ k.body = s.job.body /\ k.what = s.job.what
  BY <1>1 DEF JobShape
<1>4. k.file = "pins" => k \in PinJob
  BY <1>1, <1>3 DEF JobShape, PinJob
<1>5. [s EXCEPT !.job.step = "write", !.job.at = "tmp"] = t
  BY <1>1, ZenonT(60) DEF PinsShape
<1>6. half \in PinFile
  BY DownType DEF PinFile, ProcessType
<1>7. s.job.file \in File
  BY <1>1 DEF JobShape
<1> HIDE DEF k, half
<1>8. JobShape(k)
  BY <1>1, <1>3, <1>4 DEF JobShape
<1>9. /\ DOMAIN t = DOMAIN s /\ t = [f \in DOMAIN t |-> t[f]]
      /\ t.job = k /\ t.st = s.st /\ t.pins = s.pins
  BY <1>1 DEF PinsShape
<1> HIDE DEF t
<1>10. PinsShape(t) /\ proc' = [proc EXCEPT ![p] = t]
  BY <1>1, <1>2, <1>5, <1>8, <1>9 DEF PinsShape
<1>11. CASE s.job.file = "sessions"
  <2>1. DOMAIN disk' = File /\ disk'["pins"] = disk["pins"]
    BY <1>1, <1>2, <1>11 DEF PinFiles, File
  <2>2. s.st # "down" /\ ~SavingPins(s) /\ ~SavingPins(t) /\ t.pins = s.pins
    BY <1>1, <1>3, <1>9, <1>11 DEF SavingPins
  <2> HIDE DEF s
  <2> QED BY <1>1, <1>10, <2>1, <2>2, PinsLeft DEF s
<1>12. CASE s.job.file = "pins"
  <2>1. /\ DOMAIN disk' = File /\ disk'["pins"] = [disk["pins"] EXCEPT !.tmp = half]
    BY <1>1, <1>2, <1>12 DEF PinFiles, File
  <2>2. PinFiles' /\ disk'["pins"].main = disk["pins"].main
    BY <1>1, <1>6, <2>1 DEF PinFiles
  <2>3. SavingPins(s)
    BY <1>1, <1>12 DEF SavingPins
  <2>4. ASSUME Intact'
        PROVE  /\ PinsOnDisk' = recorded' /\ PinsHeld(t, recorded', disk'["pins"].tmp)
               /\ \A q \in Procs \ {p} : proc[q].st = "down"
               /\ \A q \in Procs \ {p} : ~SavingPins(proc[q])
    <3>1. Intact
      BY <1>1, <2>4 DEF Intact
    <3>2. /\ PinsOnDisk = recorded /\ \A q \in Procs \ {p} : proc[q].st = "down"
          /\ s.job.body = s.pins /\ s.pins = Becomes(recorded, s.job.what)
      BY <2>3, <3>1, SavingAlone
    <3>3. PinsOnDisk' = recorded'
      BY <1>1, <2>2, <3>2 DEF PinsOnDisk
    <3>4. PinsHeld(t, recorded', disk'["pins"].tmp)
      BY <1>1, <1>3, <1>9, <1>12, <3>2 DEF PinsHeld, SavingPins
    <3> QED BY <3>2, <3>3, <3>4 DEF SavingPins
  <2> QED BY <1>1, <1>10, <2>2, <2>4, PinsMove
<1> QED BY <1>7, <1>11, <1>12 DEF File

LEMMA PinsSaveWrite ==
    ASSUME PinsInv, NEW p \in Procs, SaveWrite(p)
    PROVE  PinsInv'
<1> DEFINE s == proc[p]
           whole == [body |-> s.job.body, whole |-> TRUE]
           t == [s EXCEPT !.job = [s.job EXCEPT !.step = "rename"]]
<1>1. /\ PinsShape(s) /\ JobShape(s.job) /\ s.st = "saving" /\ PinFiles /\ recorded \in Pins
      /\ UNCHANGED <<recorded, broken>>
  BY DEF PinsInv, SaveWrite, PinsShape
<1>2. /\ disk' = IF s.job.at = "gone" THEN disk
                 ELSE IF s.job.at = "main" THEN [disk EXCEPT ![s.job.file].main = whole]
                 ELSE [disk EXCEPT ![s.job.file].tmp = whole]
      /\ proc' = [proc EXCEPT ![p] = t]
  BY DEF SaveWrite
<1>3. /\ PinsShape(t) /\ t.st = "saving" /\ t.pins = s.pins
      /\ t.job.file = s.job.file /\ t.job.body = s.job.body /\ t.job.what = s.job.what
      /\ t.job.step = "rename" /\ t.job.at = s.job.at
  <2> HIDE DEF s
  <2>1. s.job.file = "pins" => "rename" # "delete"
    OBVIOUS
  <2> QED BY <1>1, <2>1, ShapeStep
<1>4. s.job.file \in File /\ (s.job.file = "pins" => whole \in PinFile)
  BY <1>1 DEF JobShape, PinJob, PinFile
<1> HIDE DEF t, whole
<1>5. CASE s.job.file = "sessions"
  <2>1. DOMAIN disk' = File /\ disk'["pins"] = disk["pins"]
    BY <1>1, <1>2, <1>5 DEF PinFiles, File
  <2>2. s.st # "down" /\ ~SavingPins(s) /\ ~SavingPins(t) /\ t.pins = s.pins
    BY <1>1, <1>3, <1>5 DEF SavingPins
  <2> QED BY <1>1, <1>2, <1>3, <2>1, <2>2, PinsLeft
<1>6. CASE s.job.file = "pins"
  <2>1. DOMAIN disk' = File
    BY <1>1, <1>2 DEF PinFiles
  <2>2. PinFiles'
    <3>1. CASE s.job.at = "gone"
      BY <3>1, <1>1, <1>2 DEF PinFiles
    <3>2. CASE s.job.at = "main"
      <4>1. disk'["pins"] = [disk["pins"] EXCEPT !.main = whole]
        BY <3>2, <1>1, <1>2, <1>6 DEF PinFiles, File
      <4> QED BY <4>1, <1>1, <1>4, <1>6, <2>1 DEF PinFiles
    <3>3. CASE s.job.at \notin {"gone", "main"}
      <4>1. disk'["pins"] = [disk["pins"] EXCEPT !.tmp = whole]
        BY <3>3, <1>1, <1>2, <1>6 DEF PinFiles, File
      <4> QED BY <4>1, <1>1, <1>4, <1>6, <2>1 DEF PinFiles
    <3> QED BY <3>1, <3>2, <3>3
  <2>3. SavingPins(s)
    BY <1>1, <1>6 DEF SavingPins
  <2>4. ASSUME Intact'
        PROVE  /\ PinsOnDisk' = recorded' /\ PinsHeld(t, recorded', disk'["pins"].tmp)
               /\ \A q \in Procs \ {p} : proc[q].st = "down"
               /\ \A q \in Procs \ {p} : ~SavingPins(proc[q])
    <3>1. Intact
      BY <1>1, <2>4 DEF Intact
    <3>2. /\ PinsOnDisk = recorded /\ \A q \in Procs \ {p} : proc[q].st = "down"
          /\ s.job.body = s.pins /\ s.pins = Becomes(recorded, s.job.what) /\ s.job.at = "tmp"
      BY <2>3, <3>1, SavingAlone
    <3>3. disk'["pins"].main = disk["pins"].main /\ disk'["pins"].tmp = whole
      <4>1. disk'["pins"] = [disk["pins"] EXCEPT !.tmp = whole]
        BY <3>2, <1>1, <1>2, <1>6 DEF PinFiles, File
      <4> QED BY <4>1, <1>1 DEF PinFiles
    <3>4. PinsOnDisk' = recorded'
      BY <1>1, <3>2, <3>3 DEF PinsOnDisk
    <3>5. whole = [body |-> t.job.body, whole |-> TRUE]
      BY <1>3 DEF whole
    <3>6. PinsHeld(t, recorded', disk'["pins"].tmp)
      BY <1>1, <1>3, <1>6, <3>2, <3>3, <3>5 DEF PinsHeld, SavingPins
    <3> QED BY <3>2, <3>4, <3>6 DEF SavingPins
  <2> QED BY <1>1, <1>2, <1>3, <2>2, <2>4, PinsMove
<1> QED BY <1>4, <1>5, <1>6 DEF File

\* A save that fails: of sessions, it leaves the pins; of pins, nothing is
\* promised from then on.
LEMMA PinsSaveFailed ==
    ASSUME PinsInv, NEW p \in Procs, proc[p].st = "saving", SaveFailed(p),
           UNCHANGED <<disk, recorded>>
    PROVE  PinsInv'
<1> DEFINE s == proc[p]
           u == [s EXCEPT !.job = [s.job EXCEPT !.step = "delete"]]
           t == Finished(s)
<1>1. PinsShape(s) /\ JobShape(s.job) /\ PinFiles /\ recorded \in Pins
  BY DEF PinsInv, PinsShape
<1>2. CASE s.job.why = "clear" /\ s.job.step # "delete"
  <2>1. proc' = [proc EXCEPT ![p] = u] /\ UNCHANGED broken
    BY <1>2 DEF SaveFailed
  <2>2. s.job.file # "pins"
    BY <1>1, <1>2 DEF JobShape, PinJob
  <2>3. PinsShape(u) /\ u.st = "saving" /\ u.pins = s.pins /\ u.job.file = s.job.file
    <3> HIDE DEF s
    <3> QED BY <1>1, <2>2, ShapeStep DEF s
  <2> HIDE DEF u
  <2>4. s.st # "down" /\ ~SavingPins(s) /\ ~SavingPins(u) /\ DOMAIN disk' = File
        /\ UNCHANGED <<disk["pins"], recorded>>
    BY <1>1, <2>2, <2>3 DEF SavingPins, PinFiles
  <2> QED BY <2>1, <2>3, <2>4, PinsLeft
<1>3. CASE ~(s.job.why = "clear" /\ s.job.step # "delete")
  <2>1. /\ proc' = [proc EXCEPT ![p] = t]
        /\ broken' = broken \cup {IF s.job.why = "clear" THEN "remove" ELSE s.job.file}
    BY <1>3 DEF SaveFailed
  <2>2. /\ PinsShape(t) /\ ~SavingPins(t) /\ (t.st # "down" => t.pins = s.pins)
        /\ s.job.file = "sessions" => t.st # "down"
    <3> HIDE DEF s
    <3> QED BY <1>1, ShapeFinished DEF s
  <2> HIDE DEF t
  <2>3. CASE s.job.file = "sessions"
    <3>1. s.st # "down" /\ ~SavingPins(s) /\ DOMAIN disk' = File /\ t.pins = s.pins
          /\ UNCHANGED <<disk["pins"], recorded>> /\ broken \subseteq broken'
      BY <1>1, <2>1, <2>2, <2>3 DEF SavingPins, PinFiles
    <3> QED BY <2>1, <2>2, <3>1, PinsLeft
  <2>4. CASE s.job.file = "pins"
    <3>1. s.job.why # "clear"
      BY <1>1, <2>4 DEF JobShape, PinJob
    <3>2. ~Intact' /\ broken \subseteq broken'
      BY <2>1, <2>4, <3>1 DEF Intact
    <3>3. PinFiles' /\ recorded' \in Pins
      BY <1>1 DEF PinFiles
    <3> QED BY <2>1, <2>2, <3>2, <3>3, PinsMove
  <2> QED BY <1>1, <2>3, <2>4 DEF JobShape, File
<1> QED BY <1>2, <1>3

\* The rename of the sessions moves the descriptors of the others; that of the
\* pins finds every other process down.
LEMMA MovedShape ==
    ASSUME PinsInv, NEW q \in Procs, NEW p \in Procs, q # p, NEW file \in File
    PROVE  LET t == MovedOn(q, p, file)
           IN PinsShape(t) /\ t.st = proc[q].st /\ t.pins = proc[q].pins
              /\ (SavingPins(t) <=> SavingPins(proc[q]))
              /\ (proc[q].st = "down" \/ (file = "sessions" /\ SavingPins(t)) => t = proc[q])
<1> DEFINE s == proc[q]
           t == MovedOn(q, p, file)
<1>1. PinsShape(s)
  BY DEF PinsInv
<1>2. CASE s.job = None \/ s.job.file # file
  BY <1>1, <1>2 DEF MovedOn
<1>3. CASE s.job # None /\ s.job.file = file
  <2> DEFINE at == IF s.job.at = "tmp" THEN "main" ELSE "gone"
             k == [s.job EXCEPT !.at = at]
  <2>1. t = [s EXCEPT !.job = k]
    BY <1>3 DEF MovedOn
  <2>2. s.st = "saving" /\ JobShape(s.job)
    BY <1>1, <1>3 DEF PinsShape
  <2>3. /\ DOMAIN k = DOMAIN s.job /\ k = [f \in DOMAIN k |-> k[f]]
        /\ k.file = s.job.file /\ k.next = s.job.next
    BY <2>2 DEF JobShape
  <2>4. k.file = "pins" => k \in PinJob
    BY <2>2, <2>3 DEF JobShape, PinJob
  <2> HIDE DEF k
  <2>5. JobShape(k)
    BY <2>2, <2>3, <2>4 DEF JobShape
  <2> HIDE DEF t
  <2>6. /\ DOMAIN t = DOMAIN s /\ t = [f \in DOMAIN t |-> t[f]]
        /\ t.job = k /\ t.st = s.st /\ t.pins = s.pins
    BY <1>1, <2>1 DEF PinsShape
  <2>7. PinsShape(t)
    BY <1>1, <2>2, <2>5, <2>6 DEF PinsShape
  <2>8. (SavingPins(t) <=> SavingPins(s)) /\ (file = "sessions" => ~SavingPins(t))
    BY <1>3, <2>2, <2>3, <2>6 DEF SavingPins
  <2> QED BY <2>2, <2>6, <2>7, <2>8 DEF t
<1> QED BY <1>2, <1>3

LEMMA PinsSaveRename ==
    ASSUME PinsInv, NEW p \in Procs, SaveRename(p)
    PROVE  PinsInv'
<1> DEFINE s == proc[p]
           t == Finished(s)
           M(q) == MovedOn(q, p, s.job.file)
<1>1. /\ PinsShape(s) /\ JobShape(s.job) /\ s.st = "saving" /\ PinFiles /\ recorded \in Pins
      /\ s.job.step = "rename" /\ s.job.file \in File
  BY DEF PinsInv, SaveRename, PinsShape, JobShape
<1>2. CASE disk[s.job.file].tmp = None
  <2>1. SaveFailed(p) /\ UNCHANGED <<disk, recorded>>
    BY <1>2 DEF SaveRename
  <2> QED BY <1>1, <2>1, PinsSaveFailed
<1>3. CASE disk[s.job.file].tmp # None
  <2>1. /\ disk' = [disk EXCEPT ![s.job.file] = [main |-> disk[s.job.file].tmp, tmp |-> None]]
        /\ proc' = [q \in Procs |-> IF q = p THEN t ELSE M(q)]
        /\ recorded' = IF s.job.file = "pins" THEN Becomes(recorded, s.job.what) ELSE recorded
        /\ UNCHANGED broken
    BY <1>3 DEF SaveRename, Renamed, Recorded, Becomes
  <2>2. /\ PinsShape(t) /\ ~SavingPins(t) /\ (t.st # "down" => t.pins = s.pins)
        /\ s.job.file = "sessions" => t.st # "down"
    <3> HIDE DEF s
    <3> QED BY <1>1, ShapeFinished DEF s
  <2> HIDE DEF t
  <2>3. ASSUME NEW q \in Procs \ {p}
        PROVE  /\ PinsShape(M(q)) /\ M(q).st = proc[q].st /\ M(q).pins = proc[q].pins
               /\ (SavingPins(M(q)) <=> SavingPins(proc[q]))
               /\ (proc[q].st = "down" => M(q) = proc[q])
               /\ (s.job.file = "sessions" /\ SavingPins(M(q)) => M(q) = proc[q])
    <3> HIDE DEF s
    <3> QED BY <1>1, MovedShape DEF s
  <2> HIDE DEF M
  <2>4. /\ proc' = [q \in Procs |-> proc'[q]] /\ proc'[p] = t
        /\ \A q \in Procs \ {p} : proc'[q] = M(q)
    BY <2>1
  <2>5. \A q \in Procs : PinsShape(proc'[q])
    BY <2>2, <2>3, <2>4
  <2>6. CASE s.job.file = "sessions"
    <3>1. disk'["pins"] = disk["pins"] /\ recorded' = recorded /\ DOMAIN disk' = File
      BY <1>1, <2>1, <2>6 DEF PinFiles, File
    <3>2. PinFiles'
      BY <1>1, <3>1 DEF PinFiles
    <3>3. ~SavingPins(s) /\ s.st # "down" /\ t.pins = s.pins
      BY <1>1, <2>2, <2>6 DEF SavingPins
    <3>4. ASSUME Intact'
          PROVE  PinsOnDisk' = recorded' /\ PinsOnly' /\ \A q \in Procs : PinsHeldBy(q)'
      <4>1. Intact
        BY <2>1, <3>4 DEF Intact
      <4>2. PinsOnDisk = recorded /\ PinsOnly /\ \A q \in Procs : PinsHeldBy(q)
        BY <4>1 DEF PinsInv
      <4>3. PinsOnDisk' = recorded'
        BY <3>1, <4>2 DEF PinsOnDisk
      <4>4. \A q \in Procs : ~SavingPins(proc[q])
        BY <3>3, <4>2 DEF PinsOnly
      <4>5. \A q \in Procs : ~SavingPins(proc'[q])
        BY <2>2, <2>3, <2>4, <4>4
      <4>6. PinsOnly'
        BY <4>5 DEF PinsOnly, SavingPins
      <4>7. ASSUME NEW q \in Procs PROVE PinsHeldBy(q)'
        <5>1. proc[q].st # "down" => proc[q].pins = recorded
          BY <4>2, <4>4 DEF PinsHeldBy, PinsHeld
        <5>2. proc'[q].st # "down" => proc'[q].pins = recorded'
          BY <5>1, <2>3, <2>4, <3>1, <3>3
        <5> QED BY <4>5, <5>2 DEF PinsHeldBy, PinsHeld
      <4> QED BY <4>3, <4>6, <4>7
    <3> QED BY <2>4, <2>5, <3>1, <3>2, <3>4, <1>1 DEF PinsInv
  <2>7. CASE s.job.file = "pins"
    <3>1. /\ disk'["pins"] = [main |-> disk["pins"].tmp, tmp |-> None] /\ DOMAIN disk' = File
          /\ recorded' = Becomes(recorded, s.job.what)
      BY <1>1, <2>1, <2>7 DEF PinFiles, File
    <3>2. PinFiles'
      BY <1>1, <3>1 DEF PinFiles
    <3>3. s.job.what \in [host : Hosts, cert : Certs \cup {None}] /\ s.job.body \in Pins
      BY <1>1, <2>7 DEF JobShape, PinJob
    <3>4. recorded' \in Pins
      BY <1>1, <3>1, <3>3, PinsChange DEF Becomes
    <3>5. ASSUME Intact'
          PROVE  PinsOnDisk' = recorded' /\ PinsOnly' /\ \A q \in Procs : PinsHeldBy(q)'
      <4>1. Intact /\ SavingPins(s)
        BY <1>1, <2>1, <2>7, <3>5 DEF Intact, SavingPins
      <4>2. /\ \A q \in Procs \ {p} : proc[q].st = "down"
            /\ s.job.body = s.pins /\ s.pins = Becomes(recorded, s.job.what)
            /\ disk["pins"].tmp = [body |-> s.job.body, whole |-> TRUE]
        BY <1>1, <4>1, SavingAlone
      <4>3. PinsOnDisk' = recorded'
        <5>1. disk'["pins"].main # None /\ disk'["pins"].main.body = s.job.body
          BY <1>3, <2>7, <3>1, <4>2
        <5> QED BY <3>1, <4>2, <5>1 DEF PinsOnDisk
      <4>4. \A q \in Procs \ {p} : proc'[q].st = "down"
        BY <2>3, <2>4, <4>2
      <4>5. \A q \in Procs : ~SavingPins(proc'[q])
        BY <2>2, <2>4, <4>4 DEF SavingPins
      <4>6. PinsOnly'
        BY <4>5 DEF PinsOnly, SavingPins
      <4>7. ASSUME NEW q \in Procs PROVE PinsHeldBy(q)'
        <5>1. proc'[q].st # "down" => proc'[q].pins = recorded'
          BY <2>2, <2>4, <3>1, <4>2, <4>4
        <5> QED BY <4>5, <5>1 DEF PinsHeldBy, PinsHeld
      <4> QED BY <4>3, <4>6, <4>7
    <3> QED BY <2>4, <2>5, <3>2, <3>4, <3>5 DEF PinsInv
  <2> QED BY <1>1, <2>6, <2>7 DEF File
<1> QED BY <1>2, <1>3

LEMMA PinsRemove ==
    ASSUME PinsInv, NEW p \in Procs, Remove(p)
    PROVE  PinsInv'
<1> DEFINE s == proc[p]
           t == Finished(s)
<1>1. /\ PinsShape(s) /\ JobShape(s.job) /\ s.st = "saving" /\ PinFiles
      /\ s.job.step \in {"remove", "delete"} /\ UNCHANGED <<recorded, broken>>
  BY DEF PinsInv, Remove, PinsShape
<1>2. s.job.file = "sessions"
  BY <1>1 DEF JobShape, PinJob, File
<1>3. disk' = [disk EXCEPT !["sessions"].main = None] /\ proc' = [proc EXCEPT ![p] = t]
  BY <1>2 DEF Remove
<1>4. PinsShape(t) /\ ~SavingPins(t) /\ t.pins = s.pins
  <2> HIDE DEF s
  <2> QED BY <1>1, <1>2, ShapeFinished DEF s
<1> HIDE DEF t
<1>5. DOMAIN disk' = File /\ disk'["pins"] = disk["pins"]
  BY <1>1, <1>3 DEF PinFiles, File
<1>6. s.st # "down" /\ ~SavingPins(s)
  BY <1>1, <1>2 DEF SavingPins
<1> QED BY <1>1, <1>3, <1>4, <1>5, <1>6, PinsLeft

LEMMA PinsStarting ==
    ASSUME PinsInv, NEW p \in Procs, proc[p].st = "down", NEW mode, NEW todo,
           Starting(p, mode, todo), UNCHANGED <<disk, recorded>>,
           broken \subseteq broken', MeetsSave(p) \subseteq broken'
    PROVE  PinsInv'
<1> DEFINE t == [Down EXCEPT !.st = "restoring", !.mode = mode,
                             !.pins = PinsOnDisk, !.todo = todo, !.stored = Len(todo)]
<1>1. proc' = [proc EXCEPT ![p] = t]
  BY DEF Starting
<1>2. PinsOnDisk \in Pins
  <2>1. <<>> \in Pins
    BY DownType DEF ProcessType
  <2>2. PinFiles
    BY DEF PinsInv
  <2> QED BY <2>1, <2>2 DEF PinsOnDisk, PinFiles, PinFile
<1>3. /\ t.st = "restoring" /\ t.pins = PinsOnDisk /\ t.job = None
      /\ DOMAIN t = DOMAIN Down /\ t = [f \in DOMAIN t |-> t[f]]
  BY DEF Down
<1>4. DOMAIN Down = {"st", "mode", "mem", "pins", "todo", "kept", "stored", "job"}
  BY DEF Down
<1> HIDE DEF t
<1>5. PinsShape(t)
  BY <1>2, <1>3, <1>4 DEF PinsShape
<1>6. ASSUME Intact'
      PROVE  /\ PinsOnDisk' = recorded' /\ PinsHeld(t, recorded', disk'["pins"].tmp)
             /\ ~SavingPins(t) /\ \A q \in Procs \ {p} : ~SavingPins(proc[q])
  <2>1. Intact /\ PinsOnDisk = recorded
    BY <1>6 DEF Intact, PinsInv
  <2>2. \A q \in Procs \ {p} : ~SavingPins(proc[q])
    BY <1>6 DEF Intact, MeetsSave
  <2>3. PinsOnDisk' = PinsOnDisk
    BY DEF PinsOnDisk
  <2> QED BY <1>3, <2>1, <2>2, <2>3 DEF PinsHeld, SavingPins
<1>7. PinFiles' /\ recorded' \in Pins /\ UNCHANGED <<disk["pins"], recorded>>
  BY DEF PinsInv, PinFiles
<1> QED BY <1>1, <1>5, <1>6, <1>7, PinsMove

LEMMA PinsStart ==
    ASSUME PinsInv, NEW p \in Procs, Start(p) \/ StartUnreadable(p)
    PROVE  PinsInv'
<1>1. CASE Start(p)
  <2>1. PICK mode \in Modes : Starting(p, mode, Loaded(LinesOnDisk))
    BY <1>1 DEF Start
  <2>2. /\ proc[p].st = "down" /\ UNCHANGED <<disk, recorded>> /\ broken \subseteq broken'
        /\ MeetsSave(p) \subseteq broken'
    BY <1>1 DEF Start
  <2> QED BY <2>1, <2>2, PinsStarting
<1>2. CASE StartUnreadable(p)
  <2>1. PICK mode \in Modes : Starting(p, mode, <<>>)
    BY <1>2 DEF StartUnreadable
  <2>2. /\ proc[p].st = "down" /\ UNCHANGED <<disk, recorded>> /\ broken \subseteq broken'
        /\ MeetsSave(p) \subseteq broken'
    BY <1>2 DEF StartUnreadable
  <2> QED BY <2>1, <2>2, PinsStarting
<1> QED BY <1>1, <1>2

LEMMA PinsStop ==
    ASSUME PinsInv, NEW p \in Procs, Stop(p)
    PROVE  PinsInv'
<1>1. proc' = [proc EXCEPT ![p] = Down] /\ UNCHANGED <<disk, recorded>> /\ broken \subseteq broken'
  BY DEF Stop
<1>2. PinsShape(Down) /\ Down.st = "down"
  <2>1. Down.pins \in Pins
    BY DownType DEF ProcessType
  <2> QED BY <2>1 DEF PinsShape, Down
<1>3. DOMAIN disk' = File /\ UNCHANGED <<disk["pins"], recorded>>
  BY <1>1 DEF PinsInv, PinFiles
<1> QED BY <1>1, <1>2, <1>3, PinsLeft

\* Sessions change in memory and their save begins, or nothing is saved.
LEMMA PinsSessions ==
    ASSUME PinsInv, NEW p \in Procs, proc[p].st \in {"idle", "restoring"},
           NEW t, proc' = [proc EXCEPT ![p] = t], PinsShape(t), ~SavingPins(t),
           t.pins = proc[p].pins, UNCHANGED <<disk, recorded, broken>>
    PROVE  PinsInv'
<1>1. proc[p].st # "down" /\ ~SavingPins(proc[p])
  BY DEF SavingPins
<1>2. DOMAIN disk' = File /\ UNCHANGED <<disk["pins"], recorded>>
  BY DEF PinsInv, PinFiles
<1> QED BY <1>1, <1>2, PinsLeft

LEMMA PinsRestoreOne ==
    ASSUME PinsInv, NEW p \in Procs, RestoreOne(p)
    PROVE  PinsInv'
<1> DEFINE s == proc[p]
           e == Head(s.todo)
           rest == [s EXCEPT !.todo = Tail(s.todo)]
           set == [rest EXCEPT !.mem = try_set_token(rest.mem, e), !.kept = rest.kept + 1]
           save == SaveSessions(set, "set", "restoring", {})
           t == IF Refused(s.mem, e) THEN rest ELSE save
<1>1. PinsShape(s) /\ s.st = "restoring" /\ UNCHANGED <<disk, recorded, broken>>
  BY DEF PinsInv, RestoreOne
<1>2. proc' = [proc EXCEPT ![p] = t]
  BY DEF RestoreOne
<1>3. /\ DOMAIN rest = DOMAIN s /\ rest = [f \in DOMAIN rest |-> rest[f]]
      /\ rest.st = s.st /\ rest.job = s.job /\ rest.pins = s.pins
  BY <1>1 DEF PinsShape
<1>4. s.pins \in Pins /\ DOMAIN s = {"st", "mode", "mem", "pins", "todo", "kept", "stored", "job"}
  BY <1>1 DEF PinsShape
<1> HIDE DEF s
<1>5. PinsShape(rest)
  BY <1>1, <1>3, <1>4, ShapeSame
<1> HIDE DEF rest
<1>6. /\ DOMAIN set = DOMAIN rest /\ set = [f \in DOMAIN set |-> set[f]]
      /\ set.st = rest.st /\ set.job = rest.job /\ set.pins = rest.pins
  BY <1>3, <1>4
<1> HIDE DEF set
<1>7. PinsShape(set)
  BY <1>3, <1>4, <1>5, <1>6, ShapeSame
<1>8. PinsShape(save) /\ ~SavingPins(save) /\ save.pins = set.pins
  BY <1>7, ShapeSessions
<1> HIDE DEF save
<1>9. PinsShape(t) /\ ~SavingPins(t) /\ t.pins = s.pins
  BY <1>1, <1>3, <1>5, <1>6, <1>8 DEF SavingPins
<1> HIDE DEF t
<1>10. proc[p].st \in {"idle", "restoring"} /\ t.pins = proc[p].pins
  BY <1>1, <1>9 DEF s
<1> QED BY <1>1, <1>2, <1>9, <1>10, PinsSessions

LEMMA PinsRestoreEnds ==
    ASSUME PinsInv, NEW p \in Procs, RestoreEnds(p)
    PROVE  PinsInv'
<1> DEFINE s == proc[p]
           ready == [s EXCEPT !.st = "idle"]
           save == SaveSessions(s, "set", "idle", {})
           t == IF s.kept = s.stored THEN ready ELSE save
<1>1. PinsShape(s) /\ s.st = "restoring" /\ UNCHANGED <<disk, recorded, broken>>
  BY DEF PinsInv, RestoreEnds
<1>2. proc' = [proc EXCEPT ![p] = t]
  BY DEF RestoreEnds
<1>3. /\ DOMAIN ready = DOMAIN s /\ ready = [f \in DOMAIN ready |-> ready[f]]
      /\ ready.st = "idle" /\ ready.job = s.job /\ ready.pins = s.pins
  BY <1>1 DEF PinsShape
<1> HIDE DEF ready
<1>4. PinsShape(ready)
  BY <1>1, <1>3 DEF PinsShape
<1> HIDE DEF s
<1>5. PinsShape(save) /\ ~SavingPins(save) /\ save.pins = s.pins
  BY <1>1, ShapeSessions
<1> HIDE DEF save
<1>6. PinsShape(t) /\ ~SavingPins(t) /\ t.pins = s.pins
  BY <1>3, <1>4, <1>5 DEF SavingPins
<1> HIDE DEF t
<1>7. proc[p].st \in {"idle", "restoring"} /\ t.pins = proc[p].pins
  BY <1>1, <1>6 DEF s
<1> QED BY <1>1, <1>2, <1>6, <1>7, PinsSessions

\* A directive or a command about sessions: what is in memory changes, and a
\* save begins.
LEMMA PinsSaveBegins ==
    ASSUME PinsInv, NEW p \in Procs, proc[p].st = "idle", NEW mem, NEW why, NEW what,
           proc' = [proc EXCEPT ![p] =
                       SaveSessions([proc[p] EXCEPT !.mem = mem], why, "idle", what)],
           UNCHANGED <<disk, recorded, broken>>
    PROVE  PinsInv'
<1> DEFINE s == proc[p]
           set == [s EXCEPT !.mem = mem]
           t == SaveSessions(set, why, "idle", what)
<1>1. PinsShape(s)
  BY DEF PinsInv
<1>2. /\ DOMAIN set = DOMAIN s /\ set = [f \in DOMAIN set |-> set[f]]
      /\ set.st = s.st /\ set.job = s.job /\ set.pins = s.pins /\ s.pins \in Pins
  BY <1>1 DEF PinsShape
<1> HIDE DEF s
<1> HIDE DEF set
<1>3. PinsShape(set)
  BY <1>1, <1>2, ShapeSame
<1>4. PinsShape(t) /\ ~SavingPins(t) /\ t.pins = set.pins
  BY <1>3, ShapeSessions
<1>5. proc' = [proc EXCEPT ![p] = t]
  BY DEF set, s
<1> HIDE DEF t
<1>6. t.pins = proc[p].pins
  BY <1>2, <1>4 DEF s
<1> QED BY <1>4, <1>5, <1>6, PinsSessions

LEMMA PinsSetSession ==
    ASSUME PinsInv, NEW p \in Procs, SetSession(p)
    PROVE  PinsInv'
<1>1. /\ proc[p].st = "idle" /\ UNCHANGED <<disk, recorded, broken>>
      /\ \E mem, what : proc' = [proc EXCEPT ![p] =
            SaveSessions([proc[p] EXCEPT !.mem = mem], "set", "idle", what)]
  BY DEF SetSession, Operating
<1> QED BY <1>1, PinsSaveBegins

LEMMA PinsClear ==
    ASSUME PinsInv, NEW p \in Procs, NEW gone, Clear(p, gone)
    PROVE  PinsInv'
<1>1. /\ proc[p].st = "idle" /\ UNCHANGED <<disk, recorded, broken>>
      /\ \E mem : proc' = [proc EXCEPT ![p] =
            SaveSessions([proc[p] EXCEPT !.mem = mem], "clear", "idle", {})]
  BY DEF Clear, Operating
<1> QED BY <1>1, PinsSaveBegins

\* A pin is recorded or forgotten: with no other client up, the process is the
\* only one that holds pins, and what it saves is what they become.
LEMMA PinsBegin ==
    ASSUME PinsInv, NEW p \in Procs, proc[p].st \in {"idle", "down"},
           NEW s, PinsShape(s), NEW next \in {"idle", "down"},
           NEW what \in [host : Hosts, cert : Certs \cup {None}],
           proc' = [proc EXCEPT ![p] = SavePins(s, next, what)],
           Intact => s.pins = Becomes(recorded, what),
           UNCHANGED <<disk, recorded>>, broken' = broken \cup MeetsClient(p)
    PROVE  PinsInv'
<1> DEFINE t == SavePins(s, next, what)
<1>1. /\ PinsShape(t) /\ SavingPins(t) /\ t.pins = s.pins
      /\ t.job.body = s.pins /\ t.job.what = what /\ t.job.at = "tmp" /\ t.job.step = "open"
  BY ShapePins
<1>2. proc' = [proc EXCEPT ![p] = t]
  OBVIOUS
<1> HIDE DEF t
<1>3. ASSUME Intact'
      PROVE  /\ PinsOnDisk' = recorded' /\ PinsHeld(t, recorded', disk'["pins"].tmp)
             /\ \A q \in Procs \ {p} : proc[q].st = "down"
             /\ \A q \in Procs \ {p} : ~SavingPins(proc[q])
  <2>1. Intact /\ PinsOnDisk = recorded
    BY <1>3 DEF Intact, PinsInv
  <2>2. \A q \in Procs \ {p} : proc[q].st = "down"
    BY <1>3 DEF Intact, MeetsClient
  <2>3. PinsOnDisk' = recorded'
    BY <2>1 DEF PinsOnDisk
  <2>4. PinsHeld(t, recorded', disk'["pins"].tmp)
    BY <1>1, <2>1 DEF PinsHeld
  <2> QED BY <2>2, <2>3, <2>4 DEF SavingPins
<1>4. PinFiles' /\ recorded' \in Pins /\ broken \subseteq broken'
  BY DEF PinsInv, PinFiles
<1> QED BY <1>1, <1>2, <1>3, <1>4, PinsMove

LEMMA PinsPinSite ==
    ASSUME PinsInv, NEW p \in Procs, PinSite(p)
    PROVE  PinsInv'
<1> DEFINE s == proc[p]
<1>1. /\ PinsShape(s) /\ s.st = "idle" /\ UNCHANGED <<disk, recorded>>
      /\ broken' = broken \cup MeetsClient(p)
  BY DEF PinsInv, PinSite, Operating
<1>2. PICK host \in Hosts, cert \in Certs :
        proc' = [proc EXCEPT ![p] = SavePins([s EXCEPT !.pins = WithPin(s.pins, host, cert)], "idle",
                                             [host |-> host, cert |-> cert])]
  BY DEF PinSite
<1> DEFINE pins == WithPin(s.pins, host, cert)
           set == [s EXCEPT !.pins = pins]
           what == [host |-> host, cert |-> cert]
<1>3. pins \in Pins
  BY <1>1, PinsChange DEF PinsShape
<1>4. Intact => pins = Becomes(recorded, what)
  <2>1. Intact => s.pins = recorded
    BY <1>1 DEF PinsInv, PinsHeldBy, PinsHeld, SavingPins
  <2>2. what.cert # None /\ what.host = host /\ what.cert = cert
    BY StoresAssumption
  <2> QED BY <2>1, <2>2 DEF Becomes
<1>5. what \in [host : Hosts, cert : Certs \cup {None}]
  OBVIOUS
<1>6. proc' = [proc EXCEPT ![p] = SavePins(set, "idle", what)]
  BY <1>2
<1> HIDE DEF pins, what
<1>7. /\ DOMAIN set = DOMAIN s /\ set = [f \in DOMAIN set |-> set[f]]
      /\ set.st = s.st /\ set.job = s.job /\ set.pins = pins
  BY <1>1 DEF PinsShape
<1> HIDE DEF set
<1>8. PinsShape(set)
  BY <1>1, <1>3, <1>7, ShapeSame
<1>9. proc[p].st \in {"idle", "down"} /\ (Intact => set.pins = Becomes(recorded, what))
  BY <1>1, <1>4, <1>7 DEF s
<1> QED BY <1>1, <1>5, <1>6, <1>8, <1>9, PinsBegin

LEMMA PinsForgetSite ==
    ASSUME PinsInv, NEW p \in Procs, ForgetSite(p)
    PROVE  PinsInv'
<1>1. /\ proc[p].st = "down" /\ UNCHANGED <<disk, recorded>>
      /\ broken' = broken \cup MeetsClient(p)
  BY DEF ForgetSite
<1>2. PICK host \in DOMAIN PinsOnDisk :
        proc' = [proc EXCEPT ![p] = SavePins([Down EXCEPT !.pins = WithoutPin(PinsOnDisk, host)],
                                             "down", [host |-> host, cert |-> None])]
  BY DEF ForgetSite
<1> DEFINE pins == WithoutPin(PinsOnDisk, host)
           set == [Down EXCEPT !.pins = pins]
           what == [host |-> host, cert |-> None]
<1>3. pins \in Pins /\ host \in Hosts
  <2>1. <<>> \in Pins
    BY DownType DEF ProcessType
  <2>2. PinsOnDisk \in Pins
    BY <2>1 DEF PinsInv, PinFiles, PinsOnDisk, PinFile
  <2>3. host \in Hosts
    BY <2>2 DEF Pins
  <2> QED BY <2>2, <2>3, PinsChange
<1>4. Intact => pins = Becomes(recorded, what)
  <2>1. Intact => PinsOnDisk = recorded
    BY DEF PinsInv
  <2>2. what.cert = None /\ what.host = host
    OBVIOUS
  <2> QED BY <2>1, <2>2 DEF Becomes
<1>5. what \in [host : Hosts, cert : Certs \cup {None}]
  BY <1>3
<1>6. proc' = [proc EXCEPT ![p] = SavePins(set, "down", what)]
  BY <1>2
<1> HIDE DEF pins, what
<1>7. /\ DOMAIN set = DOMAIN Down /\ set = [f \in DOMAIN set |-> set[f]]
      /\ set.st = "down" /\ set.job = None /\ set.pins = pins
  BY DEF Down
<1> HIDE DEF set
<1>8. PinsShape(set)
  <2>1. DOMAIN Down = {"st", "mode", "mem", "pins", "todo", "kept", "stored", "job"}
    BY DEF Down
  <2> QED BY <1>3, <1>7, <2>1 DEF PinsShape
<1>9. proc[p].st \in {"idle", "down"} /\ (Intact => set.pins = Becomes(recorded, what))
  BY <1>1, <1>4, <1>7
<1> QED BY <1>1, <1>5, <1>6, <1>8, <1>9, PinsBegin

LEMMA PinsSame ==
    ASSUME PinsInv, UNCHANGED <<proc, disk, recorded, broken>>
    PROVE  PinsInv'
BY DEF PinsInv, PinFiles, PinsOnDisk, PinsOnly, PinsHeldBy, Intact

LEMMA PinsInit ==
    ASSUME Init
    PROVE  PinsInv
<1>1. /\ proc = [p \in Procs |-> Down] /\ disk = [f \in File |-> Absent] /\ recorded = <<>>
  BY DEF Init
<1>2. <<>> \in Pins
  BY DownType DEF ProcessType
<1>3. PinsShape(Down) /\ Down.st = "down"
  <2>1. Down.pins \in Pins
    BY DownType DEF ProcessType
  <2> QED BY <2>1 DEF PinsShape, Down
<1>4. disk["pins"] = Absent /\ DOMAIN disk = File
  BY <1>1 DEF File
<1>5. PinFiles /\ PinsOnDisk = recorded
  BY <1>1, <1>4 DEF PinFiles, PinsOnDisk, Absent
<1>6. \A p \in Procs : proc[p] = Down
  BY <1>1
<1> HIDE DEF Down
<1>7. PinsOnly /\ \A p \in Procs : PinsHeldBy(p)
  BY <1>3, <1>6 DEF PinsOnly, PinsHeldBy, PinsHeld, SavingPins
<1> QED BY <1>1, <1>2, <1>3, <1>5, <1>6, <1>7 DEF PinsInv

LEMMA PinsNext ==
    ASSUME PinsInv, [Next]_vars
    PROVE  PinsInv'
<1>1. CASE Tick \/ UNCHANGED vars
  BY <1>1, PinsSame DEF Tick, vars
<1>2. ASSUME NEW p \in Procs, Start(p) \/ StartUnreadable(p) PROVE PinsInv'
  BY <1>2, PinsStart
<1>3. ASSUME NEW p \in Procs, RestoreOne(p) PROVE PinsInv'
  BY <1>3, PinsRestoreOne
<1>4. ASSUME NEW p \in Procs, RestoreEnds(p) PROVE PinsInv'
  BY <1>4, PinsRestoreEnds
<1>5. ASSUME NEW p \in Procs, Stop(p) PROVE PinsInv'
  BY <1>5, PinsStop
<1>6. ASSUME NEW p \in Procs, SaveOpen(p) PROVE PinsInv'
  BY <1>6, PinsSaveOpen
<1>7. ASSUME NEW p \in Procs, SaveWrite(p) PROVE PinsInv'
  BY <1>7, PinsSaveWrite
<1>8. ASSUME NEW p \in Procs, SaveRename(p) PROVE PinsInv'
  BY <1>8, PinsSaveRename
<1>9. ASSUME NEW p \in Procs, Remove(p) PROVE PinsInv'
  BY <1>9, PinsRemove
<1>10. ASSUME NEW p \in Procs, SaveFails(p) PROVE PinsInv'
  BY <1>10, PinsSaveFailed DEF SaveFails
<1>11. ASSUME NEW p \in Procs, SetSession(p) PROVE PinsInv'
  BY <1>11, PinsSetSession
<1>12. ASSUME NEW p \in Procs, ClearSession(p) \/ ClearStorageKey(p) \/ ClearAll(p)
       PROVE  PinsInv'
  <2>1. \E gone : Clear(p, gone)
    BY <1>12 DEF ClearSession, ClearStorageKey, ClearAll
  <2> QED BY <2>1, PinsClear
<1>13. ASSUME NEW p \in Procs, SendRequest(p) PROVE PinsInv'
  BY <1>13, PinsSame DEF SendRequest
<1>14. ASSUME NEW p \in Procs, PinSite(p) PROVE PinsInv'
  BY <1>14, PinsPinSite
<1>15. ASSUME NEW p \in Procs, ForgetSite(p) PROVE PinsInv'
  BY <1>15, PinsForgetSite
<1> QED BY <1>1, <1>2, <1>3, <1>4, <1>5, <1>6, <1>7, <1>8, <1>9, <1>10, <1>11, <1>12, <1>13,
           <1>14, <1>15 DEF Next

\* For any number of clients on the same files, killed at any point, the pins
\* on disk are those recorded and not forgotten, and every client at rest uses
\* those, until a save of the pins fails or meets another client (trust.rs,
\* persist; client.rs, the TLS policy).
THEOREM PinsSurviveAlways == Spec => []PinsSurvive
<1>1. Init => PinsInv
  BY PinsInit
<1>2. PinsInv /\ [Next]_vars => PinsInv'
  BY PinsNext
<1>3. PinsInv => PinsSurvive
  <2> SUFFICES ASSUME PinsInv, AllSettled, Intact PROVE PinsHonoured
    BY DEF PinsSurvive, Intact
  <2>1. PinsOnDisk = recorded /\ \A p \in Procs : PinsHeldBy(p)
    BY DEF PinsInv
  <2>2. ASSUME NEW p \in Procs, proc[p].st = "idle" PROVE proc[p].pins = recorded
    BY <2>1, <2>2 DEF PinsHeldBy, PinsHeld, SavingPins
  <2> QED BY <2>1, <2>2 DEF PinsHonoured
<1> QED BY <1>1, <1>2, <1>3, PTL DEF Spec

-----------------------------------------------------------------------------
(* The token that a request carries, for one process.                      *)

\* What find_token returns: a live session of the origin, within its scope.
LEMMA FoundToken ==
    ASSUME NEW mem \in Seq(Session), NEW org, NEW path \in Paths,
           NEW e, e = find_token(mem, org, path), e # None
    PROVE  e \in Range1(mem) /\ e.org = org /\ scope_matches(e.scope, path) /\ Live(e)
<1> DEFINE fit == {x \in Range1(mem) : x.org = org /\ scope_matches(x.scope, path) /\ Live(x)}
<1>1. fit # {}
  BY DEF find_token
<1>2. e = CHOOSE x \in fit : \A y \in fit : ScopeLen(y.scope) <= ScopeLen(x.scope)
  BY <1>1 DEF find_token
<1>3. fit \in SUBSET Range1(mem)
  OBVIOUS
<1>4. e \in fit
  <2> HIDE DEF fit
  <2>1. \E x \in fit : \A y \in fit : ScopeLen(y.scope) <= ScopeLen(x.scope)
    BY <1>1, <1>3, LongestMatch
  <2> QED BY <1>2, <2>1
<1> QED BY <1>4

LEMMA MatchedPrefix ==
    ASSUME NEW scope \in Scopes, NEW path \in Paths, scope_matches(scope, path)
    PROVE  IsPrefixSeq(scope.segs, path)
<1>1. path \in Seq(Segments)
  BY StoresAssumption
<1>2. CASE scope.segs = <<>>
  <2>1. Len(<<>>) = 0 /\ Len(path) \in Nat /\ SubSeq(path, 1, 0) = <<>>
    BY <1>1, SubSeqProperties
  <2> QED BY <1>2, <2>1 DEF IsPrefixSeq
<1>3. CASE scope.segs # <<>>
  BY <1>3 DEF scope_matches
<1> QED BY <1>2, <1>3

\* A token is sent only to the origin that issued it, security level included,
\* within its scope, before it expires and not after it was cleared
\* (client.rs, session_for_origin).
THEOREM SentWhereEarnedAlways ==
    ASSUME Alone
    PROVE  Spec => SentWhereEarned
<1> DEFINE Right == /\ sent'.org = earned[sent'.tok]
                    /\ "remove" \notin broken => sent'.tok \notin revoked
                    /\ IsPrefixSeq(sent'.scope.segs, sent'.path)
                    /\ sent'.exp # None => sent'.exp > clock
<1>1. ASSUME Inv, Next, sent' # sent PROVE Right
  <2>1. PICK p \in Procs : SendRequest(p)
    <3>1. ASSUME NEW p \in Procs, ~SendRequest(p),
                 \/ Start(p) \/ StartUnreadable(p) \/ RestoreOne(p) \/ RestoreEnds(p) \/ Stop(p)
                 \/ SaveOpen(p) \/ SaveWrite(p) \/ SaveRename(p) \/ Remove(p)
                 \/ SaveFails(p)
          PROVE  sent' = sent
      BY <3>1 DEF Start, StartUnreadable, RestoreOne, RestoreEnds, Stop, SaveOpen, SaveWrite,
                  SaveRename, Remove, SaveFails
    <3>2. ASSUME NEW p \in Procs, ~SendRequest(p),
                 \/ SetSession(p) \/ ClearSession(p) \/ ClearStorageKey(p) \/ ClearAll(p)
                 \/ PinSite(p) \/ ForgetSite(p)
          PROVE  sent' = sent
      BY <3>2 DEF SetSession, ClearSession, ClearStorageKey, ClearAll, Clear, PinSite, ForgetSite
    <3>3. Tick => sent' = sent
      BY DEF Tick
    <3> QED BY <1>1, <3>1, <3>2, <3>3 DEF Next
  <2>2. PICK host \in Hosts, path \in Paths :
          LET org == OriginFor(proc[p], host)
              e == IF proc[p].mode = "PlaintextLoopback" THEN None
                   ELSE find_token(proc[p].mem, org, path)
          IN /\ e # None
             /\ sent' = [tok |-> e.tok, scope |-> e.scope, exp |-> e.exp, at |-> clock,
                         org |-> org, path |-> path]
    BY <2>1 DEF SendRequest
  <2> DEFINE s == proc[p]
             org == OriginFor(s, host)
             e == find_token(s.mem, org, path)
  <2>3. /\ e # None
        /\ sent' = [tok |-> e.tok, scope |-> e.scope, exp |-> e.exp, at |-> clock,
                    org |-> org, path |-> path]
    BY <2>2
  <2>4. /\ sent'.tok = e.tok /\ sent'.scope = e.scope /\ sent'.exp = e.exp
        /\ sent'.org = org /\ sent'.path = path
    BY <2>3
  <2>5. ProcessInv(s) /\ ProcessType(s) /\ s.mem \in Seq(Session)
    <3>1. ProcessInv(s) /\ ProcessType(s)
      BY <1>1 DEF Inv, ProcessInv
    <3> HIDE DEF s
    <3> QED BY <3>1, Fields
  <2> HIDE DEF s, org, e
  <2>6. e \in Range1(s.mem) /\ e.org = org /\ scope_matches(e.scope, path) /\ Live(e)
    BY <2>3, <2>5, FoundToken DEF e
  <2>7. e \in InMemory(s) /\ e \in Known(s) /\ e \in Session
    BY <2>5, <2>6 DEF Known, InMemory, Range1
  <2>8. earned[e.tok] = e.org
    BY <2>5, <2>7 DEF ProcessInv, Tokens
  <2>9. "remove" \notin broken => e.tok \notin revoked
    BY <2>5, <2>7 DEF ProcessInv, Revocation, Live1
  <2>10. IsPrefixSeq(e.scope.segs, path)
    BY <2>6, <2>7, MatchedPrefix DEF Session
  <2>11. e.exp # None => e.exp > clock
    BY <2>6 DEF Live
  <2> QED BY <2>4, <2>6, <2>8, <2>9, <2>10, <2>11
<1>2. Inv /\ [Next]_vars => [sent' # sent => Right]_vars
  BY <1>1
<1> QED BY <1>2, StoresInvariant, PTL DEF Spec, SentWhereEarned

-----------------------------------------------------------------------------
(* What is remembered.  Memory, what is still to be restored and every      *)
(* file are within the admission bounds, so restoring a file refuses and    *)
(* replaces nothing; and a session whose save returned is on disk, or in    *)
(* memory while a restore rewrites the file.                                *)

OneScopeEach(l) ==
    \A i, k \in DOMAIN l : l[i].org = l[k].org /\ l[i].scope = l[k].scope => i = k
Admitted(l) ==
    /\ Len(l) <= MaxTotal
    /\ \A org \in Site : Cardinality(InOrigin(l, org)) <= MaxPerSite
    /\ OneScopeEach(l)
EntriesOf(lines) == [i \in DOMAIN lines |-> EntryOf(lines[i])]
AdmittedFile(f) == f # None => Admitted(EntriesOf(f.body))
SavingSessions(s) == s.st = "saving" /\ s.job.file = "sessions"
Bounded(s) ==
    /\ Admitted(s.mem \o s.todo)
    /\ SavingSessions(s) => Admitted(EntriesOf(s.job.body))
    /\ AdmittedFile(disk["sessions"].main) /\ AdmittedFile(disk["sessions"].tmp)

\* A line on disk does not say which security level its site had: the sites
\* that issued the remembered tokens had the one a restore gives them.
FromIssuers(L) ==
    \A l \in L : l \in Line /\ l.tok \in DOMAIN earned /\ earned[l.tok] = EntryOf(l).org
Restoring(s) == s.st = "restoring" \/ (s.st = "saving" /\ s.job.next = "restoring")
InBody(s) ==
    /\ kept \cap Lines(Range1(s.mem)) \subseteq Range1(s.job.body)
    /\ Unexpired(s.job.what, clock) \subseteq Range1(s.job.body) \cap Lines(Range1(s.mem))
Remembered(s) ==
    /\ FromIssuers(kept) /\ \A l \in kept : l.exp > clock
    /\ SavingSessions(s) => FromIssuers(s.job.what)
    /\ SavingSessions(s) /\ s.job.step = "remove" => s.job.body = <<>>
    /\ broken = {} =>
        /\ ~Restoring(s) => kept \subseteq Range1(LinesOnDisk)
        /\ Restoring(s) => kept \subseteq Lines(InMemory(s))
        /\ s.st = "restoring" => kept \cap Lines(Range1(s.mem)) \subseteq Range1(LinesOnDisk)
        /\ s.st = "idle" \/ (s.st = "saving" /\ s.job.next = "idle") =>
              kept \subseteq Lines(Range1(s.mem))
        /\ SavingSessions(s) /\ s.job.step # "delete" => InBody(s)
KeptInv == \A p \in Procs : Bounded(proc[p]) /\ Remembered(proc[p])

LEMMA NthInjective ==
    ASSUME NEW S, NEW seq \in Seq(S), NEW I \in SUBSET DOMAIN seq
    PROVE  \A k, m \in 1 .. Cardinality(I) : Nth(I, k) = Nth(I, m) => k = m
<1>1. I \in SUBSET Nat /\ IsFiniteSet(I)
  <2>1. IsFiniteSet(I)
    BY SubsequenceProperties
  <2> QED BY <2>1
<1>2. \A k \in 1 .. Cardinality(I) : Cardinality(Below(I, Nth(I, k))) = k - 1
  BY <1>1, NthExists DEF Nth
<1>3. Cardinality(I) \in Nat
  BY <1>1, FS_CardinalityType
<1> SUFFICES ASSUME NEW k \in 1 .. Cardinality(I), NEW m \in 1 .. Cardinality(I),
                    Nth(I, k) = Nth(I, m)
             PROVE  k = m
  OBVIOUS
<1>4. k - 1 = m - 1
  BY <1>2
<1> QED BY <1>3, <1>4

\* A sequence of sessions that comes one to one from an admitted one, site for
\* site, is admitted too.
LEMMA AdmittedFrom ==
    ASSUME NEW l \in Seq(Session), NEW m \in Seq(Session), Admitted(m),
           NEW f \in [DOMAIN l -> DOMAIN m], \A i, k \in DOMAIN l : f[i] = f[k] => i = k,
           \A i \in DOMAIN l : m[f[i]].org = l[i].org, OneScopeEach(l)
    PROVE  Admitted(l)
<1>1. DOMAIN l = 1 .. Len(l) /\ DOMAIN m = 1 .. Len(m) /\ Len(l) \in Nat /\ Len(m) \in Nat
  OBVIOUS
<1>2. /\ IsFiniteSet(DOMAIN m) /\ Cardinality(DOMAIN m) = Len(m)
      /\ Cardinality(DOMAIN l) = Len(l)
  <2>1. \A n \in Nat : IsFiniteSet(1 .. n) /\ Cardinality(1 .. n) = n
    <3> SUFFICES ASSUME NEW n \in Nat PROVE IsFiniteSet(1 .. n) /\ Cardinality(1 .. n) = n
      OBVIOUS
    <3>1. 1 \in Int /\ n \in Int
      OBVIOUS
    <3>2. IsFiniteSet(1 .. n) /\ Cardinality(1 .. n) = IF 1 > n THEN 0 ELSE n - 1 + 1
      BY <3>1, FS_Interval
    <3> QED BY <3>2
  <2> QED BY <1>1, <2>1
<1>3. Len(l) <= Len(m)
  <2>1. f \in Injection(DOMAIN l, DOMAIN m)
    BY DEF Injection, IsInjective
  <2> QED BY <1>2, <2>1, FS_Injection
<1>4. ASSUME NEW org \in Site PROVE Cardinality(InOrigin(l, org)) <= MaxPerSite
  <2> DEFINE A == InOrigin(l, org)
             B == InOrigin(m, org)
             g == [i \in A |-> f[i]]
  <2>1. A \subseteq DOMAIN l /\ B \subseteq DOMAIN m /\ \A i \in A : f[i] \in B
    BY DEF InOrigin
  <2>2. IsFiniteSet(B)
    BY <1>2, <2>1, FS_Subset
  <2> HIDE DEF A, B
  <2>3. g \in Injection(A, B)
    BY <2>1 DEF Injection, IsInjective
  <2> HIDE DEF g
  <2>4. Cardinality(A) <= Cardinality(B) /\ IsFiniteSet(A)
    BY <2>2, <2>3, FS_Injection
  <2>5. Cardinality(A) \in Nat /\ Cardinality(B) \in Nat /\ Cardinality(B) <= MaxPerSite
    BY <2>2, <2>4, FS_CardinalityType DEF Admitted, B
  <2>6. Cardinality(A) <= MaxPerSite
    BY <2>4, <2>5, StoresAssumption
  <2> QED BY <2>6 DEF A
<1>5. Len(m) <= MaxTotal
  BY DEF Admitted
<1>6. Len(l) <= MaxTotal
  BY <1>1, <1>3, <1>5, StoresAssumption
<1> QED BY <1>4, <1>6 DEF Admitted

LEMMA AdmittedSubsequence ==
    ASSUME NEW m \in Seq(Session), Admitted(m), NEW I \in SUBSET DOMAIN m
    PROVE  Admitted(Subsequence(m, I))
<1> DEFINE l == Subsequence(m, I)
           f == [k \in DOMAIN l |-> Nth(I, k)]
<1>1. /\ l \in Seq(Session) /\ DOMAIN l = 1 .. Cardinality(I)
      /\ \A k \in DOMAIN l : Nth(I, k) \in DOMAIN m /\ l[k] = m[Nth(I, k)]
  BY SubsequenceProperties
<1>2. \A i, k \in DOMAIN l : Nth(I, i) = Nth(I, k) => i = k
  BY <1>1, NthInjective
<1> HIDE DEF l
<1>3. f \in [DOMAIN l -> DOMAIN m] /\ \A k \in DOMAIN l : f[k] = Nth(I, k)
  BY <1>1
<1> HIDE DEF f
<1>4. \A i, k \in DOMAIN l : f[i] = f[k] => i = k
  BY <1>2, <1>3
<1>5. \A i \in DOMAIN l : m[f[i]] = l[i] /\ f[i] \in DOMAIN m
  BY <1>1, <1>3
<1>6. OneScopeEach(l)
  <2> SUFFICES ASSUME NEW i \in DOMAIN l, NEW k \in DOMAIN l,
                      l[i].org = l[k].org, l[i].scope = l[k].scope
               PROVE  i = k
    BY DEF OneScopeEach
  <2>1. f[i] = f[k]
    BY <1>5 DEF Admitted, OneScopeEach
  <2> QED BY <2>1, <1>4
<1>7. \A i \in DOMAIN l : m[f[i]].org = l[i].org
  BY <1>5
<1>8. Admitted(l)
  BY <1>1, <1>3, <1>4, <1>6, <1>7, AdmittedFrom
<1> QED BY <1>8 DEF l

LEMMA AdmittedEmpty == Admitted(<<>>) /\ Admitted(EntriesOf(<<>>)) /\ Admitted(<<>> \o <<>>)
<1>1. ASSUME NEW org PROVE InOrigin(<<>>, org) = {}
  BY DEF InOrigin
<1>2. Admitted(<<>>)
  <2>1. Cardinality({}) = 0 /\ 0 <= MaxPerSite /\ Len(<<>>) = 0 /\ 0 <= MaxTotal
    BY FS_EmptySet, StoresAssumption
  <2>2. \A org \in Site : Cardinality(InOrigin(<<>>, org)) <= MaxPerSite
    BY <1>1, <2>1
  <2>3. OneScopeEach(<<>>)
    BY DEF OneScopeEach
  <2> QED BY <2>1, <2>2, <2>3 DEF Admitted
<1>3. EntriesOf(<<>>) = <<>> /\ <<>> \o <<>> = <<>>
  BY DEF EntriesOf
<1> QED BY <1>2, <1>3

\* What is written is read back as it was in memory.
LEMMA WrittenAdmitted ==
    ASSUME NEW mem \in Seq(Session), Admitted(mem)
    PROVE  Admitted(EntriesOf(Written(mem)))
<1> DEFINE I == {i \in DOMAIN mem : Eligible(mem[i])}
           sub == Subsequence(mem, I)
<1>1. /\ sub \in Seq(Session) /\ DOMAIN sub = 1 .. Cardinality(I)
      /\ \A k \in DOMAIN sub : Nth(I, k) \in I /\ sub[k] = mem[Nth(I, k)]
  BY SubsequenceProperties
<1>2. Admitted(sub)
  <2>1. I \in SUBSET DOMAIN mem
    OBVIOUS
  <2> HIDE DEF I
  <2> QED BY <2>1, AdmittedSubsequence
<1>3. ASSUME NEW k \in DOMAIN sub PROVE EntryOf(LineOf(sub[k])) = sub[k]
  <2>1. Eligible(sub[k])
    <3>1. Nth(I, k) \in I /\ sub[k] = mem[Nth(I, k)]
      BY <1>1
    <3> HIDE DEF sub
    <3> QED BY <3>1
  <2> HIDE DEF sub
  <2>2. sub[k] \in Session
    BY <1>1
  <2> QED BY <2>1, <2>2, LineOfSession DEF Eligible
<1>4. Written(mem) = [k \in DOMAIN sub |-> LineOf(sub[k])]
  BY DEF Written
<1> HIDE DEF sub, I
<1>5. EntriesOf(Written(mem)) = [k \in DOMAIN sub |-> sub[k]]
  BY <1>3, <1>4 DEF EntriesOf
<1>6. sub = [k \in DOMAIN sub |-> sub[k]]
  BY <1>1
<1> QED BY <1>2, <1>5, <1>6

LEMMA LoadedAdmitted ==
    ASSUME NEW lines \in Seq(Line), Admitted(EntriesOf(lines))
    PROVE  Admitted(Loaded(lines))
<1> DEFINE I == {i \in DOMAIN lines : lines[i].exp > clock}
           m == EntriesOf(lines)
<1>1. m \in Seq(Session) /\ DOMAIN m = DOMAIN lines
  <2>1. DOMAIN lines = 1 .. Len(lines) /\ Len(lines) \in Nat /\ \A k \in 1 .. Len(lines) : lines[k] \in Line
    OBVIOUS
  <2>2. \A k \in 1 .. Len(lines) : EntryOf(lines[k]) \in Session
    BY <2>1, EntryOfLine
  <2> QED BY <2>1, <2>2 DEF EntriesOf
<1>2. I \in SUBSET DOMAIN lines
  OBVIOUS
<1> HIDE DEF I
<1>3. DOMAIN Subsequence(lines, I) = 1 .. Cardinality(I)
      /\ \A k \in 1 .. Cardinality(I) : Nth(I, k) \in I /\ Subsequence(lines, I)[k] = lines[Nth(I, k)]
  BY <1>2, SubsequenceProperties
<1>4. Loaded(lines) = [k \in DOMAIN Subsequence(lines, I) |-> EntryOf(Subsequence(lines, I)[k])]
  BY DEF Loaded, I
<1>5. Loaded(lines) = Subsequence(m, I)
  <2>1. Loaded(lines) = [k \in 1 .. Cardinality(I) |-> EntryOf(lines[Nth(I, k)])]
    BY <1>3, <1>4
  <2>2. \A k \in 1 .. Cardinality(I) : m[Nth(I, k)] = EntryOf(lines[Nth(I, k)])
    BY <1>2, <1>3 DEF EntriesOf
  <2>3. Subsequence(m, I) = [k \in 1 .. Cardinality(I) |-> m[Nth(I, k)]]
    BY DEF Subsequence
  <2> HIDE DEF m
  <2> QED BY <2>1, <2>2, <2>3
<1>6. I \in SUBSET DOMAIN m /\ Admitted(m)
  BY <1>1, <1>2
<1> HIDE DEF m
<1> QED BY <1>1, <1>5, <1>6, AdmittedSubsequence

\* A directive the store admits leaves it within its bounds.
LEMMA SetTokenAdmitted ==
    ASSUME NEW mem \in Seq(Session), Admitted(mem), NEW e \in Session, ~Refused(mem, e)
    PROVE  Admitted(try_set_token(mem, e))
<1> DEFINE same == InScope(mem, e.org, e.scope)
           site == InOrigin(mem, e.org)
           n == Len(mem)
<1>0. /\ site \in SUBSET DOMAIN mem /\ same \in SUBSET site /\ DOMAIN mem \in SUBSET Nat
      /\ DOMAIN mem = 1 .. n /\ n \in Nat
  BY DEF InScope, InOrigin
<1>1. CASE same # {}
  <2> DEFINE i == First(same)
             r == [mem EXCEPT ![i] = e]
             f == [k \in DOMAIN r |-> k]
  <2>1. i \in DOMAIN mem /\ mem[i].org = e.org /\ mem[i].scope = e.scope
    <3>1. i \in same
      BY <1>0, <1>1, FirstProperties
    <3> QED BY <3>1 DEF InScope, InOrigin
  <2>2. try_set_token(mem, e) = r
    BY <1>1 DEF try_set_token
  <2> HIDE DEF i
  <2>3. /\ r \in Seq(Session) /\ DOMAIN r = DOMAIN mem /\ r[i] = e
        /\ \A k \in DOMAIN mem : k # i => r[k] = mem[k]
    BY <2>1
  <2> HIDE DEF r
  <2>4. \A k \in DOMAIN r : r[k].org = mem[k].org /\ r[k].scope = mem[k].scope
    BY <2>1, <2>3
  <2>5. f \in [DOMAIN r -> DOMAIN mem] /\ \A k \in DOMAIN r : f[k] = k
    BY <2>3
  <2>6. OneScopeEach(r)
    BY <2>3, <2>4 DEF Admitted, OneScopeEach
  <2>7. \A k \in DOMAIN r : mem[f[k]].org = r[k].org
    BY <2>4, <2>5
  <2>8. \A k, m \in DOMAIN r : f[k] = f[m] => k = m
    BY <2>5
  <2> HIDE DEF f
  <2> QED BY <2>2, <2>3, <2>5, <2>6, <2>7, <2>8, AdmittedFrom
<1>2. CASE same = {} /\ Cardinality(site) >= MaxPerSite
  <2> DEFINE i == First(site)
             w == Without(mem, i)
             r == Append(w, e)
             f == [k \in 1 .. n |-> IF k < i THEN k ELSE IF k < n THEN k + 1 ELSE i]
  <2>1. i \in DOMAIN mem /\ mem[i].org = e.org
    <3>1. site # {}
      <4>1. ~(0 >= MaxPerSite)
        BY StoresAssumption
      <4> QED BY <1>2, <4>1, FS_EmptySet
    <3>2. i \in site
      BY <1>0, <3>1, FirstProperties
    <3> QED BY <3>2 DEF InOrigin
  <2>2. try_set_token(mem, e) = r
    BY <1>2 DEF try_set_token
  <2> HIDE DEF i, site
  <2>3. /\ w \in Seq(Session) /\ Len(w) = n - 1
        /\ \A k \in 1 .. (i - 1) : w[k] = mem[k]
        /\ \A k \in i .. (n - 1) : w[k] = mem[k + 1]
    BY <2>1, WithoutProperties
  <2>4. i \in 1 .. n /\ n \in Nat /\ i \in Nat
    BY <1>0, <2>1
  <2> HIDE DEF w
  <2>5. /\ r \in Seq(Session) /\ Len(r) = n /\ r[n] = e
        /\ \A k \in 1 .. n - 1 : r[k] = w[k]
    <3>1. /\ r \in Seq(Session) /\ Len(r) = Len(w) + 1 /\ r[Len(w) + 1] = e
          /\ \A k \in 1 .. Len(w) : r[k] = w[k]
      BY <2>3, AppendProperties
    <3> HIDE DEF r
    <3> QED BY <2>3, <2>4, <3>1
  <2>6. DOMAIN r = 1 .. n
    BY <2>5
  <2> HIDE DEF r, n
  <2>7. f \in [1 .. n -> 1 .. n] /\ f[n] = i
        /\ \A k \in 1 .. n : f[k] = IF k < i THEN k ELSE IF k < n THEN k + 1 ELSE i
    BY <2>4
  <2> HIDE DEF f
  <2>8. ASSUME NEW k \in 1 .. n, NEW m \in 1 .. n, f[k] = f[m] PROVE k = m
    <3>2. k \in Nat /\ m \in Nat /\ k <= n /\ m <= n
      BY <2>4
    <3>3. \A x \in 1 .. n : /\ x < i => f[x] = x
                            /\ ~(x < i) /\ x < n => f[x] = x + 1
                            /\ ~(x < i) /\ ~(x < n) => f[x] = i /\ x = n
      BY <2>4, <2>7
    <3>4. CASE k < i
      BY <2>4, <2>8, <3>2, <3>3, <3>4
    <3>5. CASE ~(k < i) /\ k < n
      BY <2>4, <2>8, <3>2, <3>3, <3>5
    <3>6. CASE ~(k < i) /\ ~(k < n)
      BY <2>4, <2>8, <3>2, <3>3, <3>6
    <3> QED BY <3>4, <3>5, <3>6
  <2>9. ASSUME NEW k \in 1 .. n - 1 PROVE r[k] = mem[f[k]]
    <3>1. k \in 1 .. n /\ k < n
      BY <2>4
    <3>2. CASE k < i
      BY <2>3, <2>4, <2>5, <2>7, <3>1, <3>2
    <3>3. CASE ~(k < i)
      <4>1. f[k] = k + 1
        BY <2>7, <3>1, <3>3
      <4>2. k \in i .. (n - 1)
        BY <2>4, <3>1, <3>3
      <4> QED BY <2>3, <2>5, <4>1, <4>2
    <3> QED BY <3>2, <3>3
  <2>10. ASSUME NEW k \in 1 .. n PROVE mem[f[k]].org = r[k].org
    <3>1. CASE k = n
      BY <2>1, <2>5, <2>7, <3>1
    <3>2. CASE k # n
      <4>1. k \in 1 .. n - 1
        BY <2>4, <3>2
      <4> QED BY <2>9, <4>1
    <3> QED BY <3>1, <3>2
  <2>11. ASSUME NEW k \in 1 .. n - 1 PROVE ~(r[k].org = e.org /\ r[k].scope = e.scope)
    <3>1. k \in 1 .. n /\ f[k] \in DOMAIN mem /\ r[k] = mem[f[k]]
      BY <2>4, <2>7, <2>9, <1>0 DEF n
    <3> QED BY <3>1, <1>2 DEF InScope, InOrigin
  <2>12. OneScopeEach(r)
    <3> SUFFICES ASSUME NEW k \in 1 .. n, NEW m \in 1 .. n,
                        r[k].org = r[m].org, r[k].scope = r[m].scope
                 PROVE  k = m
      BY <2>6 DEF OneScopeEach
    <3>1. CASE k = n
      <4>1. m # n => m \in 1 .. n - 1
        BY <2>4
      <4> QED BY <3>1, <4>1, <2>5, <2>11
    <3>2. CASE m = n
      <4>1. k # n => k \in 1 .. n - 1
        BY <2>4
      <4> QED BY <3>2, <4>1, <2>5, <2>11
    <3>3. CASE k # n /\ m # n
      <4>1. k \in 1 .. n - 1 /\ m \in 1 .. n - 1
        BY <2>4, <3>3
      <4>2. r[k] = mem[f[k]] /\ r[m] = mem[f[m]]
        BY <4>1, <2>9
      <4>3. f[k] \in DOMAIN mem /\ f[m] \in DOMAIN mem
        BY <2>7, <1>0 DEF n
      <4>4. f[k] = f[m]
        BY <4>2, <4>3 DEF Admitted, OneScopeEach
      <4> QED BY <2>8, <4>4
    <3> QED BY <3>1, <3>2, <3>3
  <2>13. f \in [DOMAIN r -> DOMAIN mem]
    BY <2>6, <2>7, <1>0 DEF n
  <2>14. /\ \A k, m \in DOMAIN r : f[k] = f[m] => k = m
         /\ \A k \in DOMAIN r : mem[f[k]].org = r[k].org
    BY <2>6, <2>8, <2>10
  <2>15. Admitted(r)
    BY <2>5, <2>12, <2>13, <2>14, AdmittedFrom
  <2> QED BY <2>2, <2>15
<1>3. CASE same = {} /\ ~(Cardinality(site) >= MaxPerSite)
  <2> DEFINE r == Append(mem, e)
  <2>1. try_set_token(mem, e) = r
    BY <1>3 DEF try_set_token
  <2>2. /\ r \in Seq(Session) /\ Len(r) = n + 1 /\ r[n + 1] = e
        /\ \A k \in 1 .. n : r[k] = mem[k]
    BY AppendProperties
  <2>3. DOMAIN r = 1 .. n + 1
    BY <2>2
  <2>3a. IsFiniteSet(DOMAIN mem)
    BY <1>0, FS_Interval
  <2>3b. IsFiniteSet(site) /\ Cardinality(site) \in Nat
    BY <1>0, <2>3a, FS_Subset, FS_CardinalityType
  <2>4. Len(r) <= MaxTotal
    <3>1. Cardinality(site) < MaxPerSite
      BY <1>3, <2>3b, StoresAssumption
    <3>2. ~(n >= MaxTotal)
      BY <1>3, <3>1 DEF Refused
    <3> QED BY <1>0, <2>2, <3>2, StoresAssumption
  <2> HIDE DEF r
  <2>5. ASSUME NEW org \in Site PROVE Cardinality(InOrigin(r, org)) <= MaxPerSite
    <3>1. CASE org = e.org
      <4>1. InOrigin(r, org) = site \cup {n + 1}
        BY <1>0, <2>2, <2>3, <3>1 DEF InOrigin
      <4> HIDE DEF site
      <4>2. Cardinality(site \cup {n + 1}) <= Cardinality(site) + 1
        <5>1. Cardinality(site \cup {n + 1}) = IF n + 1 \in site THEN Cardinality(site) ELSE Cardinality(site) + 1
          BY <2>3b, FS_AddElement
        <5> QED BY <2>3b, <5>1
      <4>3. Cardinality(site) + 1 <= MaxPerSite
        BY <1>3, <2>3b, StoresAssumption
      <4>4. Cardinality(site \cup {n + 1}) \in Nat
        BY <2>3b, FS_AddElement, FS_CardinalityType
      <4> QED BY <4>1, <4>2, <4>3, <4>4, <2>3b, StoresAssumption
    <3>2. CASE org # e.org
      <4>1. InOrigin(r, org) = InOrigin(mem, org)
        BY <1>0, <2>2, <2>3, <3>2 DEF InOrigin
      <4> QED BY <4>1 DEF Admitted
    <3> QED BY <3>1, <3>2
  <2>6. OneScopeEach(r)
    <3> SUFFICES ASSUME NEW k \in 1 .. n + 1, NEW m \in 1 .. n + 1,
                        r[k].org = r[m].org, r[k].scope = r[m].scope
                 PROVE  k = m
      BY <2>3 DEF OneScopeEach
    <3>1. \A i \in 1 .. n : ~(mem[i].org = e.org /\ mem[i].scope = e.scope)
      BY <1>0, <1>3 DEF InScope, InOrigin
    <3>2. \A i \in 1 .. n + 1 : i = n + 1 \/ i \in 1 .. n
      BY <1>0
    <3>3. CASE k \in 1 .. n /\ m \in 1 .. n
      BY <3>3, <2>2, <1>0 DEF Admitted, OneScopeEach
    <3>4. CASE k = n + 1 /\ m \in 1 .. n
      BY <3>1, <3>4, <2>2
    <3>5. CASE m = n + 1 /\ k \in 1 .. n
      BY <3>1, <3>5, <2>2
    <3> QED BY <3>2, <3>3, <3>4, <3>5
  <2> QED BY <2>1, <2>4, <2>5, <2>6 DEF Admitted
<1> QED BY <1>1, <1>2, <1>3

\* Replaying the next session of an admitted file only appends it.
LEMMA RestoredAppends ==
    ASSUME NEW mem \in Seq(Session), NEW todo \in Seq(Session), todo # <<>>,
           Admitted(mem \o todo)
    PROVE  /\ ~Refused(mem, Head(todo)) /\ try_set_token(mem, Head(todo)) = Append(mem, Head(todo))
           /\ Append(mem, Head(todo)) \o Tail(todo) = mem \o todo
<1> DEFINE all == mem \o todo
           n == Len(mem)
           e == Head(todo)
<1>1. /\ Len(todo) \in Nat /\ Len(todo) >= 1 /\ e = todo[1] /\ e \in Session
      /\ Tail(todo) \in Seq(Session) /\ Len(Tail(todo)) = Len(todo) - 1
      /\ \A i \in 1 .. Len(todo) - 1 : Tail(todo)[i] = todo[i + 1]
  BY HeadTailProperties
<1>2. /\ all \in Seq(Session) /\ Len(all) = n + Len(todo) /\ n \in Nat
      /\ \A k \in 1 .. n + Len(todo) : all[k] = IF k <= n THEN mem[k] ELSE todo[k - n]
  BY ConcatProperties
<1>3. DOMAIN mem = 1 .. n /\ DOMAIN all = 1 .. n + Len(todo)
  BY <1>2
<1> HIDE DEF n, e, all
<1>4. n + 1 \in DOMAIN all /\ all[n + 1] = e /\ \A k \in 1 .. n : k \in DOMAIN all /\ all[k] = mem[k]
  BY <1>1, <1>2, <1>3, SMTT(30)
<1>5. InScope(mem, e.org, e.scope) = {}
  <2> SUFFICES ASSUME NEW k \in 1 .. n, mem[k].org = e.org, mem[k].scope = e.scope PROVE FALSE
    BY <1>3 DEF InScope, InOrigin
  <2>1. k = n + 1
    BY <1>4 DEF Admitted, OneScopeEach, all
  <2> QED BY <2>1, <1>2
<1>6. n < MaxTotal
  <2>1. n + Len(todo) <= MaxTotal
    BY <1>2 DEF Admitted, all
  <2> QED BY <1>1, <1>2, <2>1, StoresAssumption
<1>7. Cardinality(InOrigin(mem, e.org)) < MaxPerSite
  <2> DEFINE A == InOrigin(mem, e.org)
             B == InOrigin(all, e.org)
  <2>1. IsFiniteSet(B) /\ IsFiniteSet(A)
    <3>0. 1 \in Int /\ n \in Int /\ n + Len(todo) \in Int
      BY <1>1, <1>2
    <3>1. IsFiniteSet(1 .. n + Len(todo)) /\ IsFiniteSet(1 .. n)
      BY <3>0, FS_Interval
    <3>2. A \in SUBSET (1 .. n) /\ B \in SUBSET (1 .. n + Len(todo))
      BY <1>3 DEF InOrigin
    <3> QED BY <3>1, <3>2, FS_Subset
  <2>2. A \cup {n + 1} \subseteq B /\ n + 1 \notin A
    BY <1>2, <1>3, <1>4 DEF InOrigin
  <2>3. Cardinality(B) <= MaxPerSite
    BY <1>1 DEF Admitted, Session, all
  <2> HIDE DEF A, B
  <2>4. Cardinality(A \cup {n + 1}) = Cardinality(A) + 1
    BY <2>1, <2>2, FS_AddElement
  <2>5. Cardinality(A \cup {n + 1}) <= Cardinality(B)
    BY <2>1, <2>2, FS_Subset
  <2>6. Cardinality(A) \in Nat /\ Cardinality(B) \in Nat
    BY <2>1, FS_CardinalityType
  <2>7. Cardinality(A) < MaxPerSite
    BY <2>3, <2>4, <2>5, <2>6, StoresAssumption
  <2> QED BY <2>7 DEF A
<1>8. ~Refused(mem, e)
  BY <1>2, <1>6, StoresAssumption DEF Refused, n
<1>9. try_set_token(mem, e) = Append(mem, e)
  <2>1. IsFiniteSet(InOrigin(mem, e.org))
    <3>1. IsFiniteSet(1 .. n)
      BY <1>2, FS_Interval
    <3>2. InOrigin(mem, e.org) \in SUBSET (1 .. n)
      BY <1>3 DEF InOrigin
    <3> QED BY <3>1, <3>2, FS_Subset
  <2>2. Cardinality(InOrigin(mem, e.org)) \in Nat
    BY <2>1, FS_CardinalityType
  <2>3. ~(Cardinality(InOrigin(mem, e.org)) >= MaxPerSite)
    BY <1>7, <2>2, StoresAssumption
  <2> QED BY <1>5, <2>3 DEF try_set_token
<1>10. Append(mem, e) \o Tail(todo) = mem \o todo
  <2> DEFINE a == Append(mem, e)
             b == Tail(todo)
  <2>1. a \in Seq(Session) /\ Len(a) = n + 1 /\ a[n + 1] = e /\ \A k \in 1 .. n : a[k] = mem[k]
    BY <1>1, AppendProperties DEF n
  <2>2. b \in Seq(Session) /\ Len(b) = Len(todo) - 1 /\ \A i \in 1 .. Len(todo) - 1 : b[i] = todo[i + 1]
    BY <1>1
  <2> HIDE DEF a, b
  <2>3. /\ a \o b \in Seq(Session) /\ Len(a \o b) = Len(a) + Len(b)
        /\ \A k \in 1 .. Len(a) + Len(b) : (a \o b)[k] = IF k <= Len(a) THEN a[k] ELSE b[k - Len(a)]
    BY <2>1, <2>2, ConcatProperties
  <2>4. Len(a \o b) = n + Len(todo)
    BY <1>1, <1>2, <2>1, <2>2, <2>3
  <2>5. ASSUME NEW k \in 1 .. n + Len(todo) PROVE (a \o b)[k] = all[k]
    <3>1. k \in 1 .. Len(a) + Len(b)
      BY <1>1, <1>2, <2>1, <2>2
    <3>0. k \in Nat /\ n \in Nat /\ k >= 1
      BY <1>1, <1>2
    <3>2. CASE k <= n
      <4>1. (a \o b)[k] = a[k] /\ k \in 1 .. n
        BY <2>1, <2>3, <3>0, <3>1, <3>2
      <4>2. all[k] = mem[k]
        BY <1>2, <3>2
      <4> QED BY <2>1, <4>1, <4>2
    <3>3. CASE k = n + 1
      BY <1>1, <1>2, <1>4, <2>1, <2>2, <2>3, <3>1, <3>3
    <3>4. CASE k > n + 1
      <4>1. (a \o b)[k] = b[k - (n + 1)]
        BY SMTT(30), <1>1, <1>2, <2>1, <2>3, <3>1, <3>4
      <4>2. k - (n + 1) \in 1 .. Len(todo) - 1 /\ (k - (n + 1)) + 1 = k - n
        BY <1>1, <1>2, <3>4
      <4>3. b[k - (n + 1)] = todo[k - n]
        BY <2>2, <4>2
      <4>4. all[k] = todo[k - n]
        BY <1>1, <1>2, <3>4
      <4> QED BY <4>1, <4>3, <4>4
    <3>5. k <= n \/ k = n + 1 \/ k > n + 1
      BY <3>0
    <3> QED BY <3>2, <3>3, <3>4, <3>5
  <2>6. a \o b = all
    <3> DEFINE c == a \o b
    <3>1. c \in Seq(Session) /\ all \in Seq(Session) /\ Len(c) = Len(all)
          /\ \A k \in 1 .. Len(all) : c[k] = all[k]
      BY <1>2, <2>3, <2>4, <2>5
    <3> HIDE DEF c
    <3>2. c = all
      BY <3>1, SeqEqual
    <3> QED BY <3>2 DEF c
  <2> QED BY <2>6 DEF a, b, all
<1> QED BY <1>8, <1>9, <1>10 DEF e

LEMMA AdmittedPrefix ==
    ASSUME NEW a \in Seq(Session), NEW b \in Seq(Session), Admitted(a \o b)
    PROVE  Admitted(a)
<1> DEFINE all == a \o b
           f == [k \in DOMAIN a |-> k]
<1>1. /\ all \in Seq(Session) /\ Len(all) = Len(a) + Len(b) /\ Len(a) \in Nat /\ Len(b) \in Nat
      /\ \A k \in 1 .. Len(a) + Len(b) : all[k] = IF k <= Len(a) THEN a[k] ELSE b[k - Len(a)]
  BY ConcatProperties
<1>2. DOMAIN a = 1 .. Len(a) /\ DOMAIN all = 1 .. Len(a) + Len(b)
  BY <1>1
<1> HIDE DEF all
<1>3. \A k \in DOMAIN a : k \in DOMAIN all /\ all[k] = a[k]
  BY <1>1, <1>2
<1>4. f \in [DOMAIN a -> DOMAIN all] /\ \A k \in DOMAIN a : f[k] = k
  BY <1>3
<1> HIDE DEF f
<1>5. /\ \A i, k \in DOMAIN a : f[i] = f[k] => i = k
      /\ \A i \in DOMAIN a : all[f[i]].org = a[i].org
  BY <1>3, <1>4
<1>6. Admitted(all)
  BY DEF all
<1>7. OneScopeEach(a)
  BY <1>3, <1>6 DEF Admitted, OneScopeEach
<1> QED BY <1>1, <1>4, <1>5, <1>6, <1>7, AdmittedFrom, SMTT(30)

LEMMA ConcludesKept ==
    ASSUME Alone, NEW p \in Procs, Bounded(proc[p])', Remembered(proc[p])'
    PROVE  KeptInv'
<1>1. \A q \in Procs : q = p
  BY DEF Alone
<1> QED BY <1>1 DEF KeptInv

\* The job in progress moves on and writes at most the temporary name.
LEMMA KeptJobStep ==
    ASSUME Alone, Inv, KeptInv, NEW p \in Procs, proc[p].st = "saving",
           NEW step \in {"write", "rename", "delete"},
           step = "delete" => proc[p].job.file = "sessions",
           proc[p].job.step # "delete",
           proc' = [proc EXCEPT ![p] =
                       [proc[p] EXCEPT !.job = [proc[p].job EXCEPT !.step = step]]],
           UNCHANGED <<clock, earned, kept, broken>>,
           disk'["sessions"].main = disk["sessions"].main, AdmittedFile(disk'["sessions"].tmp)
    PROVE  KeptInv'
<1> DEFINE s == proc[p]
           t == [s EXCEPT !.job = [s.job EXCEPT !.step = step]]
<1>1. ProcessInv(s) /\ Bounded(s) /\ Remembered(s)
  BY DEF Inv, KeptInv
<1>2. proc'[p] = t
  BY Moves
<1> HIDE DEF t
<1>3. /\ ProcessType(t) /\ t.job.step = step
      /\ t.st = "saving" /\ t.mem = s.mem /\ t.todo = s.todo /\ t.pins = s.pins
      /\ t.job.file = s.job.file /\ t.job.body = s.job.body /\ t.job.why = s.job.why
      /\ t.job.next = s.job.next /\ t.job.what = s.job.what /\ t.job.at = s.job.at
  <2>1. ProcessType(s) /\ s.st = "saving" /\ (step = "delete" => s.job.file = "sessions")
    BY <1>1 DEF ProcessInv
  <2> HIDE DEF s
  <2> QED BY <2>1, JobMoves DEF t
<1>4. s.st = "saving" /\ s.job.step # "delete"
  OBVIOUS
<1> HIDE DEF s
<1>5. Bounded(proc[p])'
  <2>1. SavingSessions(t) <=> SavingSessions(s)
    BY <1>3, <1>4 DEF SavingSessions
  <2>2. /\ Admitted(t.mem \o t.todo)
        /\ SavingSessions(t) => Admitted(EntriesOf(t.job.body))
        /\ AdmittedFile(disk'["sessions"].main) /\ AdmittedFile(disk'["sessions"].tmp)
    BY <1>1, <1>3, <2>1 DEF Bounded
  <2> QED BY <1>2, <2>2 DEF Bounded
<1>6. Remembered(proc[p])'
  <2>1. LinesOnDisk' = LinesOnDisk
    BY DEF LinesOnDisk
  <2>2. /\ SavingSessions(t) <=> SavingSessions(s)
        /\ Restoring(t) <=> Restoring(s)
        /\ InMemory(t) = InMemory(s)
        /\ Range1(t.mem) = Range1(s.mem)
    BY <1>3, <1>4 DEF SavingSessions, Restoring, InMemory
  <2>3. FromIssuers(kept)' /\ \A l \in kept' : l.exp > clock'
    BY <1>1 DEF Remembered, FromIssuers
  <2>4. SavingSessions(t) => \A l \in t.job.what :
           l \in Line /\ l.tok \in DOMAIN earned' /\ earned'[l.tok] = EntryOf(l).org
    BY <1>1, <1>3, <2>2 DEF Remembered, FromIssuers
  <2>5. ASSUME broken' = {}
        PROVE  /\ ~Restoring(t) => kept' \subseteq Range1(LinesOnDisk')
               /\ Restoring(t) => kept' \subseteq Lines(InMemory(t))
               /\ t.st # "restoring"
               /\ t.st = "idle" \/ (t.st = "saving" /\ t.job.next = "idle") =>
                     kept' \subseteq Lines(Range1(t.mem))
    BY <1>1, <1>3, <1>4, <2>1, <2>2, <2>5 DEF Remembered
  <2>6. ASSUME broken' = {}, SavingSessions(t)
        PROVE  /\ kept' \cap Lines(Range1(t.mem)) \subseteq Range1(t.job.body)
               /\ Unexpired(t.job.what, clock') \subseteq Range1(t.job.body) \cap Lines(Range1(t.mem))
    <3>1. InBody(s)
      BY <1>1, <1>4, <2>2, <2>6 DEF Remembered
    <3> QED BY <1>3, <3>1 DEF InBody
  <2>7. ~(SavingSessions(t) /\ t.job.step = "remove")
    BY <1>3
  <2> QED BY <1>2, <2>3, <2>4, <2>5, <2>6, <2>7 DEF Remembered, InBody, FromIssuers
<1> QED BY <1>5, <1>6, ConcludesKept

\* A job ends, in whatever way.
LEMMA KeptJobEnds ==
    ASSUME Alone, Inv, KeptInv, NEW p \in Procs, proc[p].st = "saving",
           proc' = [proc EXCEPT ![p] = Finished(proc[p])],
           AdmittedFile(disk'["sessions"].main), AdmittedFile(disk'["sessions"].tmp),
           FromIssuers(kept)', \A l \in kept' : l.exp > clock',
           broken' = {} =>
               LET s == proc[p]
               IN /\ s.job.next # "restoring" => kept' \subseteq Range1(LinesOnDisk')
                  /\ s.job.next = "restoring" =>
                        /\ kept' \subseteq Lines(InMemory(s))
                        /\ kept' \cap Lines(Range1(s.mem)) \subseteq Range1(LinesOnDisk')
                  /\ s.job.next = "idle" => kept' \subseteq Lines(Range1(s.mem))
    PROVE  KeptInv'
<1> DEFINE s == proc[p]
           t == Finished(s)
<1>1. ProcessInv(s) /\ ProcessType(s) /\ Bounded(s)
  BY DEF Inv, KeptInv, ProcessInv
<1>2. proc'[p] = t
  BY Moves
<1> HIDE DEF t
<1>2a. broken' = {} =>
         /\ s.job.next # "restoring" => kept' \subseteq Range1(LinesOnDisk')
         /\ s.job.next = "restoring" =>
               /\ kept' \subseteq Lines(InMemory(s))
               /\ kept' \cap Lines(Range1(s.mem)) \subseteq Range1(LinesOnDisk')
         /\ s.job.next = "idle" => kept' \subseteq Lines(Range1(s.mem))
  OBVIOUS
<1>3. s.st = "saving"
  OBVIOUS
<1> HIDE DEF s
<1>4. /\ t.st \in {"idle", "restoring", "down"} /\ t.st = s.job.next
      /\ t.st = "down" => t.mem = <<>> /\ t.todo = <<>>
      /\ t.st # "down" => t.mem = s.mem /\ t.todo = s.todo
  BY <1>1, <1>3, FinishedFields DEF t
<1>5. Bounded(proc[p])'
  <2>1. Admitted(t.mem \o t.todo)
    BY <1>1, <1>4, AdmittedEmpty DEF Bounded
  <2>2. ~SavingSessions(t)
    BY <1>4 DEF SavingSessions
  <2> QED BY <1>2, <2>1, <2>2 DEF Bounded
<1>6. Remembered(proc[p])'
  <2>1. ~SavingSessions(t) /\ (Restoring(t) <=> s.job.next = "restoring")
        /\ ~(t.st = "saving" /\ t.job.next = "idle")
    BY <1>4 DEF SavingSessions, Restoring
  <2>2. t.st = "restoring" => InMemory(t) = InMemory(s) /\ t.mem = s.mem
    BY <1>4 DEF InMemory
  <2>3. t.st = "idle" => t.mem = s.mem
    BY <1>4
  <2>4. ASSUME broken' = {}
        PROVE  /\ ~Restoring(t) => kept' \subseteq Range1(LinesOnDisk')
               /\ Restoring(t) => kept' \subseteq Lines(InMemory(t))
               /\ t.st = "restoring" => kept' \cap Lines(Range1(t.mem)) \subseteq Range1(LinesOnDisk')
               /\ t.st = "idle" \/ (t.st = "saving" /\ t.job.next = "idle") =>
                     kept' \subseteq Lines(Range1(t.mem))
    BY <1>2a, <1>4, <2>1, <2>2, <2>3, <2>4
  <2> QED BY <1>2, <2>1, <2>4 DEF Remembered
<1> QED BY <1>5, <1>6, ConcludesKept

LEMMA KeptSaveOpen ==
    ASSUME Alone, Inv, KeptInv, NEW p \in Procs, SaveOpen(p)
    PROVE  KeptInv'
<1> DEFINE s == proc[p]
           c == [body |-> <<>>, whole |-> FALSE]
<1>1. /\ ProcessInv(s) /\ FilesType /\ s.st = "saving" /\ s.job.step = "open"
      /\ disk' = [disk EXCEPT ![s.job.file].tmp = c]
      /\ UNCHANGED <<clock, earned, kept, broken>>
  BY DEF Inv, SaveOpen, Shared, counters
<1>2. ProcessType(s) /\ JobType(s.job) /\ s.job.at = "tmp"
  BY <1>1 DEF ProcessInv, ProcessType, Progress
<1>3. s.job.file \in File
  BY <1>2, JobFields
<1>4. /\ disk'["sessions"].main = disk["sessions"].main
      /\ disk'["sessions"].tmp = c \/ disk'["sessions"].tmp = disk["sessions"].tmp
  BY <1>1, <1>3 DEF FilesType, File
<1>5. AdmittedFile(disk'["sessions"].tmp)
  <2>1. AdmittedFile(c)
    BY AdmittedEmpty DEF AdmittedFile
  <2>2. AdmittedFile(disk["sessions"].tmp)
    BY DEF KeptInv, Bounded
  <2> HIDE DEF c
  <2> QED BY <1>4, <2>1, <2>2
<1>6. proc' = [proc EXCEPT ![p] = [s EXCEPT !.job = [s.job EXCEPT !.step = "write"]]]
  BY SaveOpenMoves
<1> QED BY <1>1, <1>4, <1>5, <1>6, KeptJobStep

LEMMA KeptSaveWrite ==
    ASSUME Alone, Inv, KeptInv, NEW p \in Procs, SaveWrite(p)
    PROVE  KeptInv'
<1> DEFINE s == proc[p]
           c == [body |-> s.job.body, whole |-> TRUE]
<1>1. /\ ProcessInv(s) /\ Bounded(s) /\ FilesType /\ s.st = "saving" /\ s.job.step = "write"
      /\ UNCHANGED <<clock, earned, kept, broken>>
  BY DEF Inv, KeptInv, SaveWrite, Shared, counters
<1>2. ProcessType(s) /\ JobType(s.job) /\ s.job.at = "tmp"
  BY <1>1 DEF ProcessInv, ProcessType, Progress
<1>3. s.job.file \in File
  BY <1>2, JobFields
<1>4. disk' = [disk EXCEPT ![s.job.file].tmp = c]
  BY <1>2 DEF SaveWrite
<1>5. /\ disk'["sessions"].main = disk["sessions"].main
      /\ IF s.job.file = "sessions" THEN disk'["sessions"].tmp = c
         ELSE disk'["sessions"].tmp = disk["sessions"].tmp
  BY <1>1, <1>3, <1>4 DEF FilesType, File
<1>6. AdmittedFile(disk'["sessions"].tmp)
  <2>1. s.job.file = "sessions" => AdmittedFile(c)
    BY <1>1 DEF AdmittedFile, Bounded, SavingSessions
  <2>2. AdmittedFile(disk["sessions"].tmp)
    BY <1>1 DEF Bounded
  <2> HIDE DEF c
  <2> QED BY <1>5, <2>1, <2>2
<1>7. proc' = [proc EXCEPT ![p] = [s EXCEPT !.job = [s.job EXCEPT !.step = "rename"]]]
  BY DEF SaveWrite
<1> QED BY <1>1, <1>5, <1>6, <1>7, KeptJobStep

LEMMA KeptSaveFailed ==
    ASSUME Alone, Inv, KeptInv, NEW p \in Procs, proc[p].st = "saving", SaveFailed(p),
           UNCHANGED <<disk, clock, earned, kept>>
    PROVE  KeptInv'
<1> DEFINE s == proc[p]
<1>1. ProcessInv(s) /\ Bounded(s) /\ Remembered(s) /\ s.st = "saving"
  BY DEF Inv, KeptInv
<1>2. ProcessType(s) /\ JobType(s.job)
  BY <1>1 DEF ProcessInv, ProcessType
<1>3. s.job.why = "clear" => s.job.file = "sessions"
  <2> HIDE DEF s
  <2> QED BY <1>2, JobFields DEF JobType, PinJob
<1>4. AdmittedFile(disk'["sessions"].main) /\ AdmittedFile(disk'["sessions"].tmp)
  BY <1>1 DEF Bounded
<1>5. CASE s.job.why = "clear" /\ s.job.step # "delete"
  <2>1. proc' = [proc EXCEPT ![p] = [s EXCEPT !.job = [s.job EXCEPT !.step = "delete"]]]
        /\ UNCHANGED broken
    BY <1>5 DEF SaveFailed
  <2> QED BY <1>1, <1>3, <1>4, <1>5, <2>1, KeptJobStep
<1>6. CASE ~(s.job.why = "clear" /\ s.job.step # "delete")
  <2>1. proc' = [proc EXCEPT ![p] = Finished(s)] /\ broken' # {}
    BY <1>1, <1>6 DEF SaveFailed
  <2>2. FromIssuers(kept)' /\ \A l \in kept' : l.exp > clock'
    BY <1>1 DEF Remembered, FromIssuers
  <2> QED BY <1>1, <1>4, <2>1, <2>2, KeptJobEnds
<1> QED BY <1>5, <1>6

LEMMA KeptSaveRename ==
    ASSUME Alone, Inv, KeptInv, NEW p \in Procs, SaveRename(p)
    PROVE  KeptInv'
<1> DEFINE s == proc[p]
           j == s.job
           c == [body |-> j.body, whole |-> TRUE]
<1>1. /\ ProcessInv(s) /\ Bounded(s) /\ Remembered(s) /\ FilesType /\ s.st = "saving"
      /\ DOMAIN proc = Procs /\ j.step = "rename" /\ UNCHANGED <<clock, earned, revoked>>
  BY DEF Inv, KeptInv, Shared, SaveRename, counters
<1>2. ProcessType(s) /\ JobType(j) /\ disk[j.file].tmp = c
  BY <1>1 DEF ProcessInv, ProcessType, Progress
<1>3. /\ j.file \in File
      /\ j.file = "sessions" => j \in SessionJob
      /\ j.file = "pins" => j \in PinJob
  <2> HIDE DEF j
  <2> QED BY <1>2, JobFields
<1> HIDE DEF s, j
<1>4. /\ j.file = "sessions" => c \in SessionFile
      /\ j.file = "pins" => c \in PinFile
  BY <1>3 DEF SessionJob, PinJob, SessionFile, PinFile
<1>4a. c.body = j.body /\ c.whole = TRUE
  OBVIOUS
<1> HIDE DEF c
<1>5. c # None
  BY <1>3, <1>4, StoresAssumption DEF File
<1>6. /\ disk' = [disk EXCEPT ![j.file] = [main |-> disk[j.file].tmp, tmp |-> None]]
      /\ proc' = [q \in Procs |-> IF q = p THEN Finished(proc[p]) ELSE MovedOn(q, p, j.file)]
      /\ kept' = IF j.file = "sessions" THEN Unexpired(kept \cup j.what, clock) ELSE kept
      /\ UNCHANGED broken
  BY <1>2, <1>5 DEF SaveRename, Renamed, s, j
<1>7. proc' = [proc EXCEPT ![p] = Finished(proc[p])]
  <2>1. \A q \in Procs : q = p
    BY DEF Alone
  <2> QED BY <1>1, <1>6, <2>1
<1>8. /\ disk'[j.file] = [main |-> c, tmp |-> None]
      /\ \A f \in File : f # j.file => disk'[f] = disk[f]
  BY <1>1, <1>2, <1>3, <1>6 DEF FilesType
<1>9. CASE j.file = "sessions"
  <2>1. disk'["sessions"].main = c /\ disk'["sessions"].tmp = None
    BY <1>8, <1>9
  <2>2. SavingSessions(s)
    BY <1>1, <1>9 DEF SavingSessions, j
  <2>3. AdmittedFile(disk'["sessions"].main) /\ AdmittedFile(disk'["sessions"].tmp)
    BY <1>1, <1>4a, <2>1, <2>2 DEF Bounded, AdmittedFile, j
  <2>4. LinesOnDisk' = j.body
    BY <1>4a, <1>5, <2>1 DEF LinesOnDisk
  <2>5. kept' = Unexpired(kept \cup j.what, clock)
    BY <1>6, <1>9
  <2>6. FromIssuers(kept)' /\ \A l \in kept' : l.exp > clock'
    BY <1>1, <2>2, <2>5 DEF Remembered, FromIssuers, Unexpired, j
  <2>7. ASSUME broken' = {}
        PROVE  /\ s.job.next # "restoring" => kept' \subseteq Range1(LinesOnDisk')
               /\ s.job.next = "restoring" =>
                     /\ kept' \subseteq Lines(InMemory(s))
                     /\ kept' \cap Lines(Range1(s.mem)) \subseteq Range1(LinesOnDisk')
               /\ s.job.next = "idle" => kept' \subseteq Lines(Range1(s.mem))
    <3>1. /\ kept \cap Lines(Range1(s.mem)) \subseteq Range1(j.body)
          /\ Unexpired(j.what, clock) \subseteq Range1(j.body) \cap Lines(Range1(s.mem))
      BY <1>1, <1>6, <2>2, <2>7 DEF Remembered, InBody, j
    <3>2. /\ s.job.next = "restoring" => kept \subseteq Lines(InMemory(s))
          /\ s.job.next = "idle" => kept \subseteq Lines(Range1(s.mem))
      BY <1>1, <1>6, <2>7 DEF Remembered, Restoring
    <3>3. Lines(Range1(s.mem)) \subseteq Lines(InMemory(s))
      BY DEF Lines, InMemory
    <3>4. kept' \subseteq kept \cup Unexpired(j.what, clock)
      BY <2>5 DEF Unexpired
    <3>5. s.job.next \in {"idle", "restoring"}
      BY <1>3, <1>9 DEF SessionJob, j
    <3> QED BY <2>4, <3>1, <3>2, <3>3, <3>4, <3>5
  <2> QED BY <1>1, <1>7, <2>3, <2>6, <2>7, KeptJobEnds DEF s
<1>10. CASE j.file = "pins"
  <2>1. disk'["sessions"] = disk["sessions"] /\ kept' = kept
    BY <1>6, <1>8, <1>10 DEF File
  <2>2. AdmittedFile(disk'["sessions"].main) /\ AdmittedFile(disk'["sessions"].tmp)
    BY <1>1, <2>1 DEF Bounded
  <2>3. FromIssuers(kept)' /\ \A l \in kept' : l.exp > clock'
    BY <1>1, <2>1 DEF Remembered, FromIssuers
  <2>4. LinesOnDisk' = LinesOnDisk
    BY <2>1 DEF LinesOnDisk
  <2>5. s.job.next \in {"idle", "down"}
    BY <1>3, <1>10 DEF PinJob, j
  <2>6. broken' = {} =>
           /\ kept' \subseteq Range1(LinesOnDisk')
           /\ s.job.next = "idle" => kept' \subseteq Lines(Range1(s.mem))
    BY <1>1, <1>6, <2>1, <2>4, <2>5 DEF Remembered, Restoring
  <2> QED BY <1>1, <1>7, <2>2, <2>3, <2>5, <2>6, KeptJobEnds DEF s
<1> QED BY <1>3, <1>9, <1>10 DEF File

LEMMA KeptRemove ==
    ASSUME Alone, Inv, KeptInv, NEW p \in Procs, Remove(p)
    PROVE  KeptInv'
<1> DEFINE s == proc[p]
           j == s.job
<1>1. /\ ProcessInv(s) /\ Bounded(s) /\ Remembered(s) /\ FilesType /\ s.st = "saving"
      /\ j.step \in {"remove", "delete"} /\ UNCHANGED <<clock, earned, broken>>
      /\ disk' = [disk EXCEPT ![j.file].main = None]
      /\ proc' = [proc EXCEPT ![p] = Finished(s)]
      /\ kept' = IF j.step = "delete" THEN {} ELSE kept
  BY DEF Inv, KeptInv, Shared, Remove, counters
<1>2. j.file = "sessions" /\ j.next \in {"idle", "restoring"}
  <2>1. JobType(j)
    BY <1>1 DEF ProcessInv, ProcessType
  <2> HIDE DEF j
  <2> QED BY <1>1, <2>1 DEF JobType, PinJob, SessionJob
<1>3. disk'["sessions"].main = None /\ disk'["sessions"].tmp = disk["sessions"].tmp
  BY <1>1, <1>2 DEF FilesType, File
<1>4. AdmittedFile(disk'["sessions"].main) /\ AdmittedFile(disk'["sessions"].tmp)
  BY <1>1, <1>3 DEF Bounded, AdmittedFile
<1>5. LinesOnDisk' = <<>>
  BY <1>3 DEF LinesOnDisk
<1>6. FromIssuers(kept)' /\ \A l \in kept' : l.exp > clock'
  BY <1>1 DEF Remembered, FromIssuers
<1> HIDE DEF s
<1>7. ASSUME broken' = {}
      PROVE  /\ s.job.next # "restoring" => kept' \subseteq Range1(LinesOnDisk')
             /\ s.job.next = "restoring" =>
                   /\ kept' \subseteq Lines(InMemory(s))
                   /\ kept' \cap Lines(Range1(s.mem)) \subseteq Range1(LinesOnDisk')
             /\ s.job.next = "idle" => kept' \subseteq Lines(Range1(s.mem))
  <2>1. CASE j.step = "delete"
    BY <1>1, <2>1
  <2>2. CASE j.step = "remove"
    <3>1. SavingSessions(s)
      BY <1>1, <1>2 DEF SavingSessions
    <3>2. j.body = <<>> /\ InBody(s)
      BY <1>1, <1>7, <2>2, <3>1 DEF Remembered
    <3>3. kept \cap Lines(Range1(s.mem)) = {}
      BY <3>2 DEF InBody, Range1
    <3>4. /\ s.job.next = "restoring" => kept \subseteq Lines(InMemory(s))
          /\ s.job.next = "idle" => kept \subseteq Lines(Range1(s.mem))
      BY <1>1, <1>7 DEF Remembered, Restoring
    <3>5. kept' = kept
      BY <1>1, <2>2
    <3> QED BY <1>2, <3>3, <3>4, <3>5
  <2> QED BY <1>1, <2>1, <2>2
<1>8. proc' = [proc EXCEPT ![p] = Finished(proc[p])] /\ proc[p].st = "saving"
  BY <1>1 DEF s
<1> QED BY <1>4, <1>6, <1>7, <1>8, KeptJobEnds DEF s

LEMMA KeptStarting ==
    ASSUME Alone, Inv, KeptInv, NEW p \in Procs, proc[p].st = "down", NEW mode \in Modes,
           NEW todo \in Seq(Session), Admitted(todo), Starting(p, mode, todo),
           UNCHANGED <<disk, clock, earned, kept>>,
           broken' = {} => broken = {} /\ todo = Loaded(LinesOnDisk)
    PROVE  KeptInv'
<1> DEFINE s == proc[p]
           t == [Down EXCEPT !.st = "restoring", !.mode = mode,
                             !.pins = PinsOnDisk, !.todo = todo, !.stored = Len(todo)]
<1>1. ProcessInv(s) /\ Bounded(s) /\ Remembered(s) /\ Shared /\ s.st = "down"
  BY DEF Inv, KeptInv
<1>2. proc' = [proc EXCEPT ![p] = t]
  BY DEF Starting
<1>3. t.st = "restoring" /\ t.todo = todo /\ t.mem = <<>>
  BY DEF Down
<1> HIDE DEF t
<1>4. proc'[p] = t
  BY <1>2, Moves
<1> HIDE DEF s
<1>5. Bounded(proc[p])'
  <2>1. <<>> \o todo = todo
    BY ConcatEmptySeq
  <2>2. ~SavingSessions(t)
    BY <1>3 DEF SavingSessions
  <2> QED BY <1>1, <1>3, <1>4, <2>1, <2>2 DEF Bounded
<1>6. Remembered(proc[p])'
  <2>1. FromIssuers(kept)' /\ \A l \in kept' : l.exp > clock'
    BY <1>1 DEF Remembered, FromIssuers
  <2>2. ~SavingSessions(t) /\ Restoring(t)
    BY <1>3 DEF SavingSessions, Restoring
  <2>3. ASSUME broken' = {} PROVE kept \subseteq Lines(InMemory(t))
    <3>1. kept \subseteq Range1(LinesOnDisk)
      BY <1>1, <2>3 DEF Remembered, Restoring
    <3>2. LinesOnDisk \in Seq(Line)
      BY <1>1, LinesTyped DEF Shared
    <3>3. Range1(todo) = {EntryOf(l) : l \in {x \in Range1(LinesOnDisk) : x.exp > clock}}
      BY <2>3, <3>2, LoadedProperties
    <3>4. \A l \in kept : LineOf(EntryOf(l)) = l /\ l.exp > clock
      BY <1>1, EntryOfLine DEF Remembered, FromIssuers
    <3>5. \A l \in kept : EntryOf(l) \in Range1(todo)
      BY <3>1, <3>3, <3>4
    <3>6. Range1(todo) \subseteq InMemory(t)
      BY <1>3 DEF InMemory
    <3> QED BY <3>4, <3>5, <3>6 DEF Lines
  <2>4. Lines(Range1(t.mem)) = {}
    BY <1>3 DEF Lines, Range1
  <2> QED BY <1>3, <1>4, <2>1, <2>2, <2>3, <2>4 DEF Remembered
<1> QED BY <1>5, <1>6, ConcludesKept

LEMMA KeptStart ==
    ASSUME Alone, Inv, KeptInv, NEW p \in Procs, Start(p)
    PROVE  KeptInv'
<1>1. PICK mode \in Modes : Starting(p, mode, Loaded(LinesOnDisk))
  BY DEF Start
<1>2. /\ UNCHANGED <<disk, clock, earned, kept, broken>> /\ proc[p].st = "down"
      /\ FilesType /\ Bounded(proc[p])
  BY MeetsNone DEF Start, Inv, Shared, KeptInv
<1>3. LinesOnDisk \in Seq(Line) /\ Admitted(EntriesOf(LinesOnDisk))
  <2>1. LinesOnDisk \in Seq(Line)
    BY <1>2, LinesTyped
  <2>2. LinesOnDisk = <<>> \/ (disk["sessions"].main # None /\ LinesOnDisk = disk["sessions"].main.body)
    BY DEF LinesOnDisk
  <2> QED BY <1>2, <2>1, <2>2, AdmittedEmpty DEF Bounded, AdmittedFile
<1>4. Loaded(LinesOnDisk) \in Seq(Session) /\ Admitted(Loaded(LinesOnDisk))
  BY <1>3, LoadedProperties, LoadedAdmitted
<1> QED BY <1>1, <1>2, <1>4, KeptStarting

LEMMA KeptStartUnreadable ==
    ASSUME Alone, Inv, KeptInv, NEW p \in Procs, StartUnreadable(p)
    PROVE  KeptInv'
<1>1. PICK mode \in Modes : Starting(p, mode, <<>>)
  BY DEF StartUnreadable
<1>2. UNCHANGED <<disk, clock, earned, kept>> /\ broken' # {} /\ proc[p].st = "down"
  BY DEF StartUnreadable
<1>3. <<>> \in Seq(Session)
  OBVIOUS
<1> QED BY <1>1, <1>2, <1>3, AdmittedEmpty, KeptStarting

\* A save of sessions begins: what is in memory and remembered is in its body.
LEMMA KeptSaveBegins ==
    ASSUME Alone, Inv, Inv', KeptInv, NEW p \in Procs,
           NEW s, ProcessType(s), Admitted(s.mem \o s.todo), Admitted(s.mem),
           NEW why \in {"set", "clear"}, NEW next \in {"idle", "restoring"},
           NEW what \in SUBSET Line,
           proc' = [proc EXCEPT ![p] = SaveSessions(s, why, next, what)],
           UNCHANGED <<disk, clock, broken>>,
           FromIssuers(kept)', \A l \in kept' : l.exp > clock,
           \A l \in what : l \in Line /\ l.tok \in DOMAIN earned' /\ earned'[l.tok] = EntryOf(l).org,
           what \subseteq Lines({e \in Range1(s.mem) : Eligible(e)}),
           broken = {} =>
               /\ next = "restoring" => kept' \subseteq Lines(InMemory(s))
               /\ next = "idle" => /\ kept' \subseteq Range1(LinesOnDisk)
                                   /\ kept' \subseteq Lines(Range1(s.mem))
    PROVE  KeptInv'
<1> DEFINE t == SaveSessions(s, why, next, what)
<1>1. /\ ProcessType(t) /\ t.st = "saving"
      /\ t.mem = s.mem /\ t.todo = s.todo
      /\ t.job.file = "sessions" /\ t.job.body = Written(s.mem)
      /\ t.job.next = next /\ t.job.what = what
      /\ InMemory(t) = InMemory(s)
  BY SaveSessionsFields
<1>1a. t.job.step = "remove" => t.job.body = <<>>
  <2> DEFINE j == Job("sessions", Written(s.mem), why, next, what)
  <2>1. t.job = j
    <3>1. t = [s EXCEPT !.st = "saving", !.job = j]
      BY DEF SaveSessions
    <3> HIDE DEF j, t
    <3> QED BY <3>1, Fields
  <2>2. j.step = "remove" => j.body = <<>>
    BY DEF Job
  <2> QED BY <2>1, <2>2
<1>2. proc'[p] = t
  BY Moves
<1> HIDE DEF t
<1>3. s.mem \in Seq(Session)
  BY Fields
<1>4. Bounded(proc[p])'
  <2>1. Admitted(EntriesOf(t.job.body))
    BY <1>1, <1>3, WrittenAdmitted
  <2>2. Bounded(proc[p])
    BY DEF KeptInv
  <2> QED BY <1>1, <1>2, <2>1, <2>2 DEF Bounded
<1>5. Range1(t.job.body) = Lines({e \in Range1(s.mem) : Eligible(e)})
  BY <1>1, <1>3, WrittenProperties
<1>6. ASSUME NEW e \in Range1(s.mem), LineOf(e) \in kept' PROVE Eligible(e)
  <2>1. e \in InMemory(t)
    BY <1>1 DEF InMemory
  <2>2. earned'[e.tok] = e.org
    <3>1. ProcessInv(proc[p])'
      BY DEF Inv
    <3>2. Tokens(Known(proc[p]))'
      BY <3>1 DEF ProcessInv
    <3>3. e \in Known(proc[p])'
      BY <1>2, <2>1 DEF Known
    <3> QED BY <3>2, <3>3 DEF Tokens
  <2> DEFINE l == LineOf(e)
  <2>3. /\ l \in Line /\ l.tok \in DOMAIN earned' /\ earned'[l.tok] = EntryOf(l).org
        /\ l.exp > clock
    BY <1>6 DEF FromIssuers
  <2>4. l.tok = e.tok /\ l.exp = e.exp
    BY DEF LineOf
  <2>5. EntryOf(l).org.sec = "VerifiedTls"
    BY DEF EntryOf
  <2>6. e.exp \in Nat
    BY <2>3, <2>4 DEF Line
  <2> HIDE DEF l
  <2>7. e.exp # None
    BY <2>6, StoresAssumption
  <2> QED BY <2>2, <2>3, <2>4, <2>5, <2>7 DEF Eligible
<1>7. /\ kept' \cap Lines(Range1(t.mem)) \subseteq Range1(t.job.body)
      /\ Unexpired(t.job.what, clock') \subseteq Range1(t.job.body) \cap Lines(Range1(t.mem))
  <2>1. kept' \cap Lines(Range1(s.mem)) \subseteq Lines({e \in Range1(s.mem) : Eligible(e)})
    BY <1>6 DEF Lines
  <2>2. Lines({e \in Range1(s.mem) : Eligible(e)}) \subseteq Lines(Range1(s.mem))
    BY DEF Lines
  <2>3. Unexpired(what, clock') \subseteq what
    BY DEF Unexpired
  <2> QED BY <1>1, <1>5, <2>1, <2>2, <2>3
<1>8. Remembered(proc[p])'
  <2>1. LinesOnDisk' = LinesOnDisk
    BY DEF LinesOnDisk
  <2>2. (Restoring(t) <=> next = "restoring") /\ SavingSessions(t)
    BY <1>1 DEF Restoring, SavingSessions
  <2>3. \A l \in t.job.what : l \in Line /\ l.tok \in DOMAIN earned' /\ earned'[l.tok] = EntryOf(l).org
    BY <1>1 DEF FromIssuers
  <2>4. \A l \in kept' : l.exp > clock'
    OBVIOUS
  <2>5. FromIssuers(kept)'
    OBVIOUS
  <2>6. broken' = {} =>
        /\ ~Restoring(t) => kept' \subseteq Range1(LinesOnDisk')
        /\ Restoring(t) => kept' \subseteq Lines(InMemory(t))
        /\ t.st # "restoring" /\ t.st # "idle"
        /\ t.job.next = "idle" => kept' \subseteq Lines(Range1(t.mem))
    BY <1>1, <2>1, <2>2
  <2> QED BY <1>1, <1>1a, <1>2, <1>7, <2>2, <2>3, <2>4, <2>5, <2>6 DEF Remembered, InBody, FromIssuers
<1> QED BY <1>4, <1>8, ConcludesKept

LEMMA SameKind ==
    ASSUME NEW s, ProcessType(s), NEW t, DOMAIN t = DOMAIN s, t = [f \in DOMAIN s |-> t[f]],
           t.st = s.st, t.job = s.job, t.mode = s.mode, t.stored = s.stored,
           t.mem \in Seq(Session), t.todo \in Seq(Session), t.pins \in Pins, t.kept \in Nat
    PROVE  ProcessType(t)
BY Fields DEF ProcessType

LEMMA ConcatNothing ==
    ASSUME NEW mem \in Seq(Session)
    PROVE  mem \o <<>> = mem
BY ConcatEmptySeq

LEMMA KeptRestoreOne ==
    ASSUME Alone, Inv, Inv', KeptInv, NEW p \in Procs, RestoreOne(p)
    PROVE  KeptInv'
<1> DEFINE s == proc[p]
           e == Head(s.todo)
           rest == [s EXCEPT !.todo = Tail(s.todo)]
           set == [rest EXCEPT !.mem = try_set_token(rest.mem, e), !.kept = rest.kept + 1]
<1>1. /\ ProcessType(s) /\ Bounded(s) /\ Remembered(s) /\ s.st = "restoring"
      /\ UNCHANGED <<disk, clock, earned, kept, broken>> /\ s.todo # <<>>
      /\ proc' = [proc EXCEPT ![p] = IF Refused(s.mem, e) THEN rest
                                     ELSE SaveSessions(set, "set", "restoring", {})]
  BY DEF Inv, KeptInv, ProcessInv, RestoreOne, counters
<1> HIDE DEF s
<1>2. s.mem \in Seq(Session) /\ s.todo \in Seq(Session) /\ s.kept \in Nat /\ s.pins \in Pins
  BY <1>1, Fields
<1>3. /\ e \in Session /\ Tail(s.todo) \in Seq(Session) /\ Len(s.todo) \in Nat /\ Len(s.todo) >= 1
      /\ e = s.todo[1] /\ Len(Tail(s.todo)) = Len(s.todo) - 1
      /\ \A i \in 1 .. Len(s.todo) - 1 : Tail(s.todo)[i] = s.todo[i + 1]
  BY <1>1, <1>2, HeadTailProperties
<1>4. /\ ~Refused(s.mem, e) /\ try_set_token(s.mem, e) = Append(s.mem, e)
      /\ Append(s.mem, e) \o Tail(s.todo) = s.mem \o s.todo
  <2>1. Admitted(s.mem \o s.todo)
    BY <1>1 DEF Bounded
  <2> QED BY <1>1, <1>2, <2>1, RestoredAppends
<1>5. Append(s.mem, e) \in Seq(Session) /\ Range1(Append(s.mem, e)) = Range1(s.mem) \cup {e}
  BY <1>2, <1>3, AppendRange
<1> HIDE DEF e
<1>6. /\ set.mem = Append(s.mem, e) /\ set.todo = Tail(s.todo) /\ set.kept = s.kept + 1
      /\ set.pins = s.pins /\ set.st = s.st /\ set.mode = s.mode /\ set.stored = s.stored
      /\ set.job = s.job /\ DOMAIN set = DOMAIN s /\ set = [f \in DOMAIN s |-> set[f]]
  BY <1>1, <1>4, Fields
<1>7. proc' = [proc EXCEPT ![p] = SaveSessions(set, "set", "restoring", {})]
  BY <1>1, <1>4
<1> HIDE DEF set
<1>8. ProcessType(set)
  <2>1. set.kept \in Nat
    BY <1>2, <1>6
  <2>2. set.mem \in Seq(Session) /\ set.todo \in Seq(Session) /\ set.pins \in Pins
    BY <1>2, <1>3, <1>5, <1>6
  <2> QED BY <1>1, <1>6, <2>1, <2>2, SameKind
<1>9. Admitted(set.mem \o set.todo) /\ Admitted(set.mem)
  <2>1. Admitted(set.mem \o set.todo)
    BY <1>1, <1>4, <1>6 DEF Bounded
  <2>2. Admitted(set.mem)
    BY <1>3, <1>5, <1>6, <2>1, AdmittedPrefix
  <2> QED BY <2>1, <2>2
<1>10. InMemory(s) \subseteq InMemory(set)
  <2>1. Range1(s.todo) \subseteq {e} \cup Range1(Tail(s.todo))
    <3>1. DOMAIN s.todo = 1 .. Len(s.todo) /\ DOMAIN Tail(s.todo) = 1 .. Len(s.todo) - 1
      BY <1>2, <1>3
    <3>2. ASSUME NEW i \in 1 .. Len(s.todo), i # 1
          PROVE  i - 1 \in 1 .. Len(s.todo) - 1 /\ s.todo[i] = Tail(s.todo)[i - 1]
      <4>1. i - 1 \in 1 .. Len(s.todo) - 1 /\ (i - 1) + 1 = i
        BY <1>3, <3>2
      <4> QED BY <1>3, <4>1
    <3>3. ASSUME NEW x \in Range1(s.todo) PROVE x = e \/ x \in Range1(Tail(s.todo))
      <4>1. PICK i \in 1 .. Len(s.todo) : x = s.todo[i]
        BY <3>1 DEF Range1
      <4>2. CASE i = 1
        BY <1>3, <4>1, <4>2
      <4>3. CASE i # 1
        BY <3>1, <3>2, <4>1, <4>3 DEF Range1
      <4> QED BY <4>2, <4>3
    <3> QED BY <3>3
  <2> QED BY <1>5, <1>6, <2>1 DEF InMemory
<1>11. broken = {} => kept' \subseteq Lines(InMemory(set))
  <2>1. broken = {} => kept \subseteq Lines(InMemory(s))
    BY <1>1 DEF Remembered, Restoring
  <2> QED BY <1>1, <1>10, <2>1 DEF Lines
<1>12. /\ FromIssuers(kept)' /\ \A l \in kept' : l.exp > clock
      /\ \A l \in {} : l \in Line /\ l.tok \in DOMAIN earned' /\ earned'[l.tok] = EntryOf(l).org
  BY <1>1 DEF Remembered, FromIssuers
<1>13. {} \in SUBSET Line /\ {} \subseteq Lines({x \in Range1(set.mem) : Eligible(x)})
  OBVIOUS
<1>14. UNCHANGED <<disk, clock, broken>>
  BY <1>1
<1>15. broken = {} =>
         /\ "restoring" = "restoring" => kept' \subseteq Lines(InMemory(set))
         /\ "restoring" = "idle" => /\ kept' \subseteq Range1(LinesOnDisk)
                                  /\ kept' \subseteq Lines(Range1(set.mem))
  BY <1>11
<1> QED BY <1>7, <1>8, <1>9, <1>12, <1>13, <1>14, <1>15, KeptSaveBegins

LEMMA KeptRestoreEnds ==
    ASSUME Alone, Inv, Inv', KeptInv, NEW p \in Procs, RestoreEnds(p)
    PROVE  KeptInv'
<1> DEFINE s == proc[p]
<1>1. /\ ProcessType(s) /\ Bounded(s) /\ Remembered(s) /\ s.st = "restoring"
      /\ UNCHANGED <<disk, clock, earned, kept, broken>> /\ s.todo = <<>>
      /\ proc' = [proc EXCEPT ![p] = IF s.kept = s.stored THEN [s EXCEPT !.st = "idle"]
                                     ELSE SaveSessions(s, "set", "idle", {})]
  BY DEF Inv, KeptInv, ProcessInv, RestoreEnds, counters
<1> HIDE DEF s
<1>2. s.mem \in Seq(Session)
  BY <1>1, Fields
<1>3. Admitted(s.mem \o s.todo) /\ Admitted(s.mem)
  <2>1. s.mem \o s.todo = s.mem
    BY <1>1, <1>2, ConcatNothing
  <2> QED BY <1>1, <2>1 DEF Bounded
<1>4. /\ FromIssuers(kept)' /\ \A l \in kept' : l.exp > clock
      /\ \A l \in {} : l \in Line /\ l.tok \in DOMAIN earned' /\ earned'[l.tok] = EntryOf(l).org
  BY <1>1 DEF Remembered, FromIssuers
<1>5. broken = {} =>
        /\ kept' \subseteq Range1(LinesOnDisk)
        /\ kept' \subseteq Lines(Range1(s.mem))
  <2>1. InMemory(s) = Range1(s.mem)
    BY <1>1 DEF InMemory, Range1
  <2>2. broken = {} => /\ kept \subseteq Lines(Range1(s.mem))
                       /\ kept \cap Lines(Range1(s.mem)) \subseteq Range1(LinesOnDisk)
    BY <1>1, <2>1 DEF Remembered, Restoring
  <2> QED BY <1>1, <2>2
<1>6. CASE s.kept = s.stored
  <2> DEFINE t == [s EXCEPT !.st = "idle"]
  <2>1. proc' = [proc EXCEPT ![p] = t]
    BY <1>1, <1>6
  <2>2. t.st = "idle" /\ t.mem = s.mem /\ t.todo = s.todo
    BY <1>1, Fields
  <2> HIDE DEF t
  <2>3. proc'[p] = t
    BY <2>1, Moves
  <2>4. Bounded(proc[p])'
    BY <1>1, <2>2, <2>3 DEF Bounded, SavingSessions
  <2>5. LinesOnDisk' = LinesOnDisk
    BY <1>1 DEF LinesOnDisk
  <2>6. Remembered(proc[p])'
    <3>1. ~SavingSessions(t) /\ ~Restoring(t)
      BY <2>2 DEF SavingSessions, Restoring
    <3>2. \A l \in kept' : l.exp > clock'
      BY <1>1, <1>4
    <3>3. broken' = {} => kept' \subseteq Range1(LinesOnDisk') /\ kept' \subseteq Lines(Range1(t.mem))
      BY <1>1, <1>5, <2>2, <2>5
    <3> QED BY <1>4, <2>2, <2>3, <3>1, <3>2, <3>3 DEF Remembered
  <2> QED BY <2>4, <2>6, ConcludesKept
<1>7. CASE s.kept # s.stored
  <2>1. proc' = [proc EXCEPT ![p] = SaveSessions(s, "set", "idle", {})]
    BY <1>1, <1>7
  <2>2. {} \in SUBSET Line /\ {} \subseteq Lines({x \in Range1(s.mem) : Eligible(x)})
    OBVIOUS
  <2>3. UNCHANGED <<disk, clock, broken>> /\ ProcessType(s)
    BY <1>1
  <2>4. broken = {} =>
           /\ "idle" = "restoring" => kept' \subseteq Lines(InMemory(s))
           /\ "idle" = "idle" => /\ kept' \subseteq Range1(LinesOnDisk)
                                /\ kept' \subseteq Lines(Range1(s.mem))
    BY <1>5
  <2> QED BY <1>3, <1>4, <2>1, <2>2, <2>3, <2>4, KeptSaveBegins
<1> QED BY <1>6, <1>7

LEMMA KeptStop ==
    ASSUME Alone, Inv, KeptInv, NEW p \in Procs, Stop(p)
    PROVE  KeptInv'
<1> DEFINE s == proc[p]
<1>1. /\ Bounded(s) /\ Remembered(s) /\ s.st # "down"
      /\ UNCHANGED <<disk, clock, earned, kept>>
      /\ proc' = [proc EXCEPT ![p] = Down]
      /\ broken \subseteq broken'
      /\ Restoring(s) => broken' # {}
  BY DEF KeptInv, Stop, Restoring
<1> HIDE DEF s
<1>2. proc'[p] = Down
  BY <1>1, Moves
<1>3. Bounded(proc[p])'
  BY <1>1, <1>2, DownType, AdmittedEmpty DEF Bounded, SavingSessions
<1>4. Remembered(proc[p])'
  <2>1. LinesOnDisk' = LinesOnDisk
    BY <1>1 DEF LinesOnDisk
  <2>2. ~SavingSessions(Down) /\ ~Restoring(Down) /\ Down.st = "down"
    BY DownType DEF SavingSessions, Restoring
  <2>3. FromIssuers(kept)' /\ \A l \in kept' : l.exp > clock'
    BY <1>1 DEF Remembered, FromIssuers
  <2>4. broken' = {} => kept' \subseteq Range1(LinesOnDisk')
    BY <1>1, <2>1 DEF Remembered
  <2> QED BY <1>2, <2>2, <2>3, <2>4 DEF Remembered
<1> QED BY <1>3, <1>4, ConcludesKept

LEMMA KeptSetSession ==
    ASSUME Alone, Inv, Inv', KeptInv, NEW p \in Procs, SetSession(p)
    PROVE  KeptInv'
<1> DEFINE s == proc[p]
           n == Cardinality(DOMAIN earned)
           tok == n + 1
<1>1. PICK host \in Hosts, scope \in Scopes, exp \in Expiries \cup {None} :
          LET e == [org |-> OriginFor(s, host), scope |-> scope, tok |-> tok, exp |-> exp]
              mem == try_set_token(s.mem, e)
              set == [s EXCEPT !.mem = mem]
          IN /\ ~Refused(s.mem, e)
             /\ proc' = [proc EXCEPT ![p] =
                            SaveSessions(set, "set", "idle",
                                         IF Eligible(e) THEN Lines({e}) ELSE {})]
             /\ earned' = [t \in DOMAIN earned \cup {tok} |->
                              IF t = tok THEN e.org ELSE earned[t]]
             /\ kept' = kept \ Lines(Range1(s.mem) \ Range1(mem))
  BY DEF SetSession
<1> DEFINE e == [org |-> OriginFor(s, host), scope |-> scope, tok |-> tok, exp |-> exp]
           mem == try_set_token(s.mem, e)
           set == [s EXCEPT !.mem = mem]
           what == IF Eligible(e) THEN Lines({e}) ELSE {}
<1>2. /\ ~Refused(s.mem, e)
      /\ proc' = [proc EXCEPT ![p] = SaveSessions(set, "set", "idle", what)]
      /\ earned' = [k \in DOMAIN earned \cup {tok} |-> IF k = tok THEN e.org ELSE earned[k]]
      /\ kept' = kept \ Lines(Range1(s.mem) \ Range1(mem))
      /\ s.st = "idle" /\ UNCHANGED <<disk, clock, revoked, recorded, broken>>
  BY <1>1 DEF SetSession, Operating
<1>3. /\ ProcessInv(s) /\ ProcessType(s) /\ Bounded(s) /\ Remembered(s)
      /\ n \in Nat /\ DOMAIN earned = 1 .. n
  BY DEF Inv, KeptInv, ProcessInv, Shared, Issued
<1>4. e \in Session /\ e.tok = tok /\ e.exp = exp /\ e.org = OriginFor(s, host)
  <2>1. exp \in Nat \cup {None} /\ tok \in Nat
    BY <1>3, StoresAssumption
  <2> HIDE DEF tok, s
  <2> QED BY <2>1, OriginForSite DEF Session
<1> HIDE DEF e, s, n
<1>5. what \in SUBSET Line /\ \A l \in what : l = LineOf(e) /\ Eligible(e) /\ EntryOf(l) = e
  <2>1. ASSUME Eligible(e) PROVE LineOf(e) \in Line /\ EntryOf(LineOf(e)) = e
    BY <1>4, <2>1, LineOfSession DEF Eligible
  <2> QED BY <2>1 DEF Lines
<1>6. /\ mem \in Seq(Session) /\ e \in Range1(mem)
      /\ Admitted(mem) /\ s.todo = <<>> /\ s.mem \in Seq(Session)
  <2>1. s.mem \in Seq(Session) /\ s.todo = <<>>
    BY <1>2, <1>3, Fields DEF ProcessInv, Replayed
  <2>2. Admitted(s.mem)
    BY <1>3, <2>1, ConcatNothing DEF Bounded
  <2> QED BY <1>2, <1>4, <2>1, <2>2, SetTokenProperties, SetTokenAdmitted
<1>7. what \subseteq Lines({x \in Range1(mem) : Eligible(x)})
  BY <1>5, <1>6 DEF Lines
<1> HIDE DEF what, mem
<1>8. ProcessType(set) /\ set.mem = mem /\ set.todo = <<>>
  <2>1. /\ set.st = s.st /\ set.mem = mem /\ set.todo = s.todo /\ set.pins = s.pins
        /\ set.mode = s.mode /\ set.kept = s.kept /\ set.stored = s.stored /\ set.job = s.job
        /\ DOMAIN set = DOMAIN s /\ set = [f \in DOMAIN s |-> set[f]]
    BY <1>3, Fields
  <2> HIDE DEF set
  <2>2. set.mem \in Seq(Session) /\ set.todo \in Seq(Session) /\ set.pins \in Pins /\ set.kept \in Nat
    BY <1>3, <1>6, <2>1, Fields
  <2> QED BY <1>3, <1>6, <2>1, <2>2, SameKind
<1> HIDE DEF set
<1>9. tok \notin DOMAIN earned /\ tok \in DOMAIN earned' /\ earned'[tok] = e.org
      /\ \A k \in DOMAIN earned : k \in DOMAIN earned' /\ earned'[k] = earned[k]
  <2>1. tok \notin DOMAIN earned
    BY <1>3
  <2> QED BY <1>2, <2>1
<1>10. /\ FromIssuers(kept)' /\ \A l \in kept' : l.exp > clock
       /\ \A l \in what : l \in Line /\ l.tok \in DOMAIN earned' /\ earned'[l.tok] = EntryOf(l).org
  <2>1. kept' \subseteq kept
    BY <1>2
  <2>2. \A l \in kept' : l \in Line /\ l.tok \in DOMAIN earned' /\ earned'[l.tok] = EntryOf(l).org
    BY <1>3, <1>9, <2>1 DEF Remembered, FromIssuers
  <2>3. \A l \in what : l \in Line /\ l.tok \in DOMAIN earned' /\ earned'[l.tok] = EntryOf(l).org
    <3> SUFFICES ASSUME NEW l \in what
                 PROVE  l \in Line /\ l.tok \in DOMAIN earned' /\ earned'[l.tok] = EntryOf(l).org
      OBVIOUS
    <3>1. l \in Line /\ l = LineOf(e) /\ EntryOf(l) = e
      BY <1>5
    <3>2. l.tok = tok
      BY <1>4, <3>1 DEF LineOf
    <3> QED BY <1>9, <3>1, <3>2
  <2>5. \A l \in kept' : l.exp > clock
    BY <1>3, <2>1 DEF Remembered
  <2> QED BY <2>2, <2>3, <2>5 DEF FromIssuers
<1>11. UNCHANGED <<disk, clock, broken>>
  BY <1>2
<1>12. broken = {} =>
         /\ "idle" = "restoring" => kept' \subseteq Lines(InMemory(set))
         /\ "idle" = "idle" => /\ kept' \subseteq Range1(LinesOnDisk)
                              /\ kept' \subseteq Lines(Range1(set.mem))
  <2>1. broken = {} => kept \subseteq Range1(LinesOnDisk) /\ kept \subseteq Lines(Range1(s.mem))
    BY <1>2, <1>3 DEF Remembered, Restoring
  <2> QED BY <1>2, <1>8, <2>1 DEF Lines
<1>13. Admitted(set.mem) /\ Admitted(set.mem \o set.todo)
  BY <1>6, <1>8, ConcatNothing
<1>14. what \subseteq Lines({x \in Range1(set.mem) : Eligible(x)})
  BY <1>7, <1>8
<1> QED BY <1>2, <1>5, <1>8, <1>10, <1>11, <1>12, <1>13, <1>14, KeptSaveBegins

LEMMA KeptClear ==
    ASSUME Alone, Inv, Inv', KeptInv, NEW p \in Procs, NEW gone \in SUBSET Range1(proc[p].mem),
           Clear(p, gone)
    PROVE  KeptInv'
<1> DEFINE s == proc[p]
           I == {i \in DOMAIN s.mem : s.mem[i] \notin gone}
           left == Subsequence(s.mem, I)
           set == [s EXCEPT !.mem = left]
<1>1. /\ ProcessInv(s) /\ ProcessType(s) /\ Bounded(s) /\ Remembered(s) /\ s.st = "idle"
      /\ UNCHANGED <<disk, clock, earned, broken>>
      /\ proc' = [proc EXCEPT ![p] = SaveSessions(set, "clear", "idle", {})]
      /\ kept' = kept \ Lines(gone)
  BY DEF Inv, KeptInv, ProcessInv, Clear, Operating
<1> HIDE DEF s
<1>2. s.mem \in Seq(Session) /\ s.todo = <<>> /\ s.pins \in Pins /\ s.kept \in Nat
  BY <1>1, Fields DEF ProcessInv, Replayed
<1>3. I \in SUBSET DOMAIN s.mem
  OBVIOUS
<1>4. {s.mem[i] : i \in I} = Range1(s.mem) \ gone
  BY DEF Range1
<1> HIDE DEF I
<1>5. left \in Seq(Session) /\ Range1(left) = Range1(s.mem) \ gone
  BY <1>2, <1>3, <1>4, SubsequenceProperties, SubsequenceRange
<1>6. Admitted(left)
  <2>1. Admitted(s.mem)
    BY <1>1, <1>2, ConcatNothing DEF Bounded
  <2> QED BY <1>2, <1>3, <2>1, AdmittedSubsequence
<1> HIDE DEF left
<1>7. ProcessType(set) /\ set.mem = left /\ set.todo = <<>>
  <2>1. /\ set.st = s.st /\ set.mem = left /\ set.todo = s.todo /\ set.pins = s.pins
        /\ set.mode = s.mode /\ set.kept = s.kept /\ set.stored = s.stored /\ set.job = s.job
        /\ DOMAIN set = DOMAIN s /\ set = [f \in DOMAIN s |-> set[f]]
    BY <1>1, Fields
  <2> HIDE DEF set
  <2>2. set.mem \in Seq(Session) /\ set.todo \in Seq(Session) /\ set.pins \in Pins /\ set.kept \in Nat
    BY <1>1, <1>2, <1>5, <2>1, Fields
  <2> QED BY <1>1, <1>2, <2>1, <2>2, SameKind
<1> HIDE DEF set
<1>8. /\ FromIssuers(kept)' /\ \A l \in kept' : l.exp > clock
      /\ \A l \in {} : l \in Line /\ l.tok \in DOMAIN earned' /\ earned'[l.tok] = EntryOf(l).org
  BY <1>1 DEF Remembered, FromIssuers
<1>9. UNCHANGED <<disk, clock, broken>>
  BY <1>1
<1>10. broken = {} =>
         /\ "idle" = "restoring" => kept' \subseteq Lines(InMemory(set))
         /\ "idle" = "idle" => /\ kept' \subseteq Range1(LinesOnDisk)
                              /\ kept' \subseteq Lines(Range1(set.mem))
  <2>1. broken = {} => kept \subseteq Range1(LinesOnDisk) /\ kept \subseteq Lines(Range1(s.mem))
    BY <1>1 DEF Remembered, Restoring
  <2> QED BY <1>1, <1>5, <1>7, <2>1 DEF Lines
<1>11. Admitted(set.mem) /\ Admitted(set.mem \o set.todo)
  BY <1>5, <1>6, <1>7, ConcatNothing
<1>12. {} \in SUBSET Line /\ {} \subseteq Lines({x \in Range1(set.mem) : Eligible(x)})
  OBVIOUS
<1> QED BY <1>1, <1>7, <1>8, <1>9, <1>10, <1>11, <1>12, KeptSaveBegins

\* A save of pins begins: the sessions stay as they were.
LEMMA KeptPinsBegin ==
    ASSUME Alone, Inv, KeptInv, NEW p \in Procs, proc[p].st \in {"idle", "down"},
           NEW s, ProcessType(s), NEW next \in {"idle", "down"}, next = "idle" => proc[p].st = "idle",
           NEW what \in [host : Hosts, cert : Certs \cup {None}],
           s.mem = proc[p].mem \/ (s.mem = <<>> /\ s.todo = <<>> /\ next = "down"),
           s.todo = proc[p].todo \/ (s.mem = <<>> /\ s.todo = <<>> /\ next = "down"),
           proc' = [proc EXCEPT ![p] = SavePins(s, next, what)],
           UNCHANGED <<disk, clock, earned, kept, broken>>
    PROVE  KeptInv'
<1> DEFINE t == SavePins(s, next, what)
           r == proc[p]
<1>1. /\ t.st = "saving" /\ t.mem = s.mem /\ t.todo = s.todo
      /\ t.job.file = "pins" /\ t.job.next = next
  BY SavePinsFields
<1>2. proc'[p] = t
  BY Moves
<1>3. Bounded(r) /\ Remembered(r)
  BY DEF KeptInv
<1> HIDE DEF t
<1>4. r.st \in {"idle", "down"} /\ (next = "idle" => r.st = "idle" /\ t.mem = r.mem)
      /\ (t.mem \o t.todo = r.mem \o r.todo \/ t.mem \o t.todo = <<>> \o <<>>)
  BY <1>1
<1> HIDE DEF r
<1>5. ~SavingSessions(t) /\ ~Restoring(t)
  BY <1>1 DEF SavingSessions, Restoring
<1>6. Bounded(proc[p])'
  <2>1. Admitted(t.mem \o t.todo)
    BY <1>3, <1>4, AdmittedEmpty DEF Bounded
  <2> QED BY <1>2, <1>3, <1>5, <2>1 DEF Bounded
<1>7. Remembered(proc[p])'
  <2>1. LinesOnDisk' = LinesOnDisk
    BY DEF LinesOnDisk
  <2>2. FromIssuers(kept)' /\ \A l \in kept' : l.exp > clock'
    BY <1>3 DEF Remembered, FromIssuers
  <2>3. broken' = {} =>
          /\ kept' \subseteq Range1(LinesOnDisk')
          /\ t.job.next = "idle" => kept' \subseteq Lines(Range1(t.mem))
    BY <1>1, <1>3, <1>4, <2>1 DEF Remembered, Restoring
  <2> QED BY <1>1, <1>2, <1>5, <2>2, <2>3 DEF Remembered
<1> QED BY <1>6, <1>7, ConcludesKept

LEMMA KeptPinSite ==
    ASSUME Alone, Inv, KeptInv, NEW p \in Procs, PinSite(p)
    PROVE  KeptInv'
<1> DEFINE s == proc[p]
<1>1. /\ ProcessType(s) /\ s.st = "idle"
      /\ UNCHANGED <<disk, clock, earned, kept, broken>>
  BY MeetsNone DEF Inv, ProcessInv, PinSite, Operating
<1>2. PICK host \in Hosts, cert \in Certs :
        proc' = [proc EXCEPT ![p] = SavePins([s EXCEPT !.pins = WithPin(s.pins, host, cert)], "idle",
                                             [host |-> host, cert |-> cert])]
  BY DEF PinSite
<1> DEFINE pins == WithPin(s.pins, host, cert)
           set == [s EXCEPT !.pins = pins]
           what == [host |-> host, cert |-> cert]
<1> HIDE DEF s
<1>3. pins \in Pins
  BY <1>1, Fields, PinsChange
<1>4. proc' = [proc EXCEPT ![p] = SavePins(set, "idle", what)]
      /\ what \in [host : Hosts, cert : Certs \cup {None}]
  BY <1>2
<1> HIDE DEF pins, what
<1>5. ProcessType(set) /\ set.mem = s.mem /\ set.todo = s.todo
  <2>1. /\ set.st = s.st /\ set.mem = s.mem /\ set.todo = s.todo /\ set.pins = pins
        /\ set.mode = s.mode /\ set.kept = s.kept /\ set.stored = s.stored /\ set.job = s.job
        /\ DOMAIN set = DOMAIN s /\ set = [f \in DOMAIN s |-> set[f]]
    BY <1>1, Fields
  <2> HIDE DEF set
  <2>2. set.mem \in Seq(Session) /\ set.todo \in Seq(Session) /\ set.pins \in Pins /\ set.kept \in Nat
    BY <1>1, <1>3, <2>1, Fields
  <2> QED BY <1>1, <2>1, <2>2, SameKind
<1> HIDE DEF set
<1>6. /\ proc[p].st \in {"idle", "down"}
      /\ "idle" \in {"idle", "down"} /\ ("idle" = "idle" => proc[p].st = "idle")
      /\ (set.mem = proc[p].mem \/ (set.mem = <<>> /\ set.todo = <<>> /\ "idle" = "down"))
      /\ (set.todo = proc[p].todo \/ (set.mem = <<>> /\ set.todo = <<>> /\ "idle" = "down"))
  <2>1. s = proc[p]
    BY DEF s
  <2>2. proc[p].st = "idle" /\ set.mem = proc[p].mem /\ set.todo = proc[p].todo
    BY <1>1, <1>5, <2>1
  <2>3. "idle" \in {"idle", "down"}
    OBVIOUS
  <2>4. proc[p].st \in {"idle", "down"} /\ ("idle" = "idle" => proc[p].st = "idle")
    BY <2>2, <2>3
  <2>5. set.mem = proc[p].mem \/ (set.mem = <<>> /\ set.todo = <<>> /\ "idle" = "down")
    BY <2>2
  <2>6. set.todo = proc[p].todo \/ (set.mem = <<>> /\ set.todo = <<>> /\ "idle" = "down")
    BY <2>2
  <2> QED BY <2>3, <2>4, <2>5, <2>6
<1>7. ProcessType(set) /\ UNCHANGED <<disk, clock, earned, kept, broken>>
  BY <1>1, <1>5
<1> QED BY <1>4, <1>6, <1>7, KeptPinsBegin

LEMMA KeptForgetSite ==
    ASSUME Alone, Inv, KeptInv, NEW p \in Procs, ForgetSite(p)
    PROVE  KeptInv'
<1>1. /\ proc[p].st = "down" /\ FilesType
      /\ UNCHANGED <<disk, clock, earned, kept, broken>>
  BY MeetsNone DEF Inv, Shared, ForgetSite
<1>2. PICK host \in DOMAIN PinsOnDisk :
        proc' = [proc EXCEPT ![p] = SavePins([Down EXCEPT !.pins = WithoutPin(PinsOnDisk, host)],
                                             "down", [host |-> host, cert |-> None])]
  BY DEF ForgetSite
<1> DEFINE pins == WithoutPin(PinsOnDisk, host)
           set == [Down EXCEPT !.pins = pins]
           what == [host |-> host, cert |-> None]
<1>3. pins \in Pins /\ host \in Hosts
  <2>1. PinsOnDisk \in Pins
    BY <1>1, LinesTyped
  <2>2. host \in Hosts
    BY <2>1 DEF Pins
  <2> QED BY <2>1, <2>2, PinsChange
<1>4. proc' = [proc EXCEPT ![p] = SavePins(set, "down", what)]
      /\ what \in [host : Hosts, cert : Certs \cup {None}]
  BY <1>2, <1>3
<1> HIDE DEF pins, what
<1>5. ProcessType(set) /\ set.mem = <<>> /\ set.todo = <<>>
  <2>1. /\ set.st = Down.st /\ set.mem = Down.mem /\ set.todo = Down.todo /\ set.pins = pins
        /\ set.mode = Down.mode /\ set.kept = Down.kept /\ set.stored = Down.stored
        /\ set.job = Down.job
        /\ DOMAIN set = DOMAIN Down /\ set = [f \in DOMAIN Down |-> set[f]]
    BY DEF Down
  <2> HIDE DEF set
  <2>2. set.mem \in Seq(Session) /\ set.todo \in Seq(Session) /\ set.pins \in Pins /\ set.kept \in Nat
    BY <1>3, <2>1, DownType, Fields
  <2> QED BY <2>1, <2>2, DownType, SameKind
<1> HIDE DEF set
<1> QED BY <1>1, <1>4, <1>5, KeptPinsBegin

LEMMA KeptTick ==
    ASSUME Alone, Inv, KeptInv, Tick
    PROVE  KeptInv'
<1>1. /\ UNCHANGED <<proc, disk, earned, broken>> /\ clock' = clock + 1 /\ clock \in Nat
      /\ kept' = Unexpired(kept, clock')
  BY DEF Tick, Inv, Shared
<1>2. LinesOnDisk' = LinesOnDisk
  BY <1>1 DEF LinesOnDisk
<1>3. kept' \subseteq kept /\ \A l \in kept' : l.exp > clock'
  BY <1>1 DEF Unexpired
<1>4. ASSUME NEW p \in Procs PROVE Bounded(proc[p])' /\ Remembered(proc[p])'
  <2>1. Bounded(proc[p]) /\ Remembered(proc[p])
    BY DEF KeptInv
  <2>2. Bounded(proc[p])'
    BY <1>1, <2>1 DEF Bounded
  <2> DEFINE s == proc[p]
  <2>3. \A l \in kept' : l \in Line /\ l.tok \in DOMAIN earned' /\ earned'[l.tok] = EntryOf(l).org
    BY <1>1, <1>3, <2>1 DEF Remembered, FromIssuers
  <2>4. SavingSessions(s) =>
          /\ \A l \in s.job.what : l \in Line /\ l.tok \in DOMAIN earned' /\ earned'[l.tok] = EntryOf(l).org
          /\ Unexpired(s.job.what, clock') \subseteq Unexpired(s.job.what, clock)
          /\ s.job.step = "remove" => s.job.body = <<>>
    <3> SUFFICES ASSUME SavingSessions(s)
        PROVE  /\ \A l \in s.job.what : l \in Line /\ l.tok \in DOMAIN earned' /\ earned'[l.tok] = EntryOf(l).org
               /\ Unexpired(s.job.what, clock') \subseteq Unexpired(s.job.what, clock)
               /\ s.job.step = "remove" => s.job.body = <<>>
      OBVIOUS
    <3>1. FromIssuers(s.job.what) /\ (s.job.step = "remove" => s.job.body = <<>>)
      BY <2>1 DEF Remembered
    <3>2. \A l \in s.job.what : l \in Line /\ l.tok \in DOMAIN earned' /\ earned'[l.tok] = EntryOf(l).org
      BY <1>1, <3>1 DEF FromIssuers
    <3> HIDE DEF s
    <3>3. \A l \in s.job.what : l.exp \in Nat
      BY <3>2 DEF Line
    <3>4. Unexpired(s.job.what, clock') \subseteq Unexpired(s.job.what, clock)
      BY <1>1, <3>3 DEF Unexpired
    <3> QED BY <3>1, <3>2, <3>4
  <2>5. ASSUME broken = {}
        PROVE  /\ ~Restoring(s) => kept' \subseteq Range1(LinesOnDisk)
               /\ Restoring(s) => kept' \subseteq Lines(InMemory(s))
               /\ s.st = "restoring" => kept' \cap Lines(Range1(s.mem)) \subseteq Range1(LinesOnDisk)
               /\ s.st = "idle" \/ (s.st = "saving" /\ s.job.next = "idle") =>
                     kept' \subseteq Lines(Range1(s.mem))
               /\ SavingSessions(s) /\ s.job.step # "delete" =>
                     /\ kept' \cap Lines(Range1(s.mem)) \subseteq Range1(s.job.body)
                     /\ Unexpired(s.job.what, clock') \subseteq Range1(s.job.body) \cap Lines(Range1(s.mem))
    <3> HIDE DEF s
    <3>1. Remembered(s)
      BY <2>1 DEF s
    <3> QED BY <1>3, <2>4, <2>5, <3>1 DEF Remembered, InBody
  <2>6. Remembered(proc[p])'
    <3>1. proc' = proc /\ broken' = broken
      BY <1>1
    <3> QED BY <1>2, <1>3, <2>3, <2>4, <2>5, <3>1 DEF Remembered, InBody, FromIssuers
  <2> QED BY <2>2, <2>6
<1> QED BY <1>4 DEF KeptInv

LEMMA KeptSame ==
    ASSUME KeptInv, UNCHANGED <<proc, disk, clock, earned, kept, broken>>
    PROVE  KeptInv'
<1>1. LinesOnDisk' = LinesOnDisk
  BY DEF LinesOnDisk
<1>2. ASSUME NEW p \in Procs PROVE Bounded(proc[p])' /\ Remembered(proc[p])'
  <2>1. Bounded(proc[p]) /\ Remembered(proc[p])
    BY DEF KeptInv
  <2>2. Bounded(proc[p])'
    BY <2>1 DEF Bounded
  <2>3. Remembered(proc[p])'
    BY <1>1, <2>1 DEF Remembered, InBody, FromIssuers
  <2> QED BY <2>2, <2>3
<1> QED BY <1>2 DEF KeptInv

LEMMA KeptInit ==
    ASSUME Init
    PROVE  KeptInv
<1> SUFFICES ASSUME NEW p \in Procs PROVE Bounded(proc[p]) /\ Remembered(proc[p])
  BY DEF KeptInv
<1>1. proc[p] = Down /\ disk["sessions"] = Absent /\ kept = {}
  BY DEF Init, File
<1>2. ~SavingSessions(Down) /\ Down.st = "down" /\ Down.mem = <<>> /\ Down.todo = <<>>
  BY DownType DEF SavingSessions
<1>3. Bounded(proc[p])
  BY <1>1, <1>2, AdmittedEmpty DEF Bounded, AdmittedFile, Absent
<1>4. Remembered(proc[p])
  BY <1>1, <1>2 DEF Remembered, FromIssuers
<1> QED BY <1>3, <1>4

LEMMA KeptNext ==
    ASSUME Alone, Inv, Inv', KeptInv, [Next]_vars
    PROVE  KeptInv'
<1>1. CASE Tick
  BY <1>1, KeptTick
<1>2. ASSUME NEW p \in Procs, Start(p) PROVE KeptInv'
  BY <1>2, KeptStart
<1>3. ASSUME NEW p \in Procs, StartUnreadable(p) PROVE KeptInv'
  BY <1>3, KeptStartUnreadable
<1>4. ASSUME NEW p \in Procs, RestoreOne(p) PROVE KeptInv'
  BY <1>4, KeptRestoreOne
<1>5. ASSUME NEW p \in Procs, RestoreEnds(p) PROVE KeptInv'
  BY <1>5, KeptRestoreEnds
<1>6. ASSUME NEW p \in Procs, Stop(p) PROVE KeptInv'
  BY <1>6, KeptStop
<1>7. ASSUME NEW p \in Procs, SaveOpen(p) PROVE KeptInv'
  BY <1>7, KeptSaveOpen
<1>8. ASSUME NEW p \in Procs, SaveWrite(p) PROVE KeptInv'
  BY <1>8, KeptSaveWrite
<1>9. ASSUME NEW p \in Procs, SaveRename(p) PROVE KeptInv'
  BY <1>9, KeptSaveRename
<1>10. ASSUME NEW p \in Procs, Remove(p) PROVE KeptInv'
  BY <1>10, KeptRemove
<1>11. ASSUME NEW p \in Procs, SaveFails(p) PROVE KeptInv'
  BY <1>11, KeptSaveFailed DEF SaveFails
<1>12. ASSUME NEW p \in Procs, SetSession(p) PROVE KeptInv'
  BY <1>12, KeptSetSession
<1>13. ASSUME NEW p \in Procs, ClearSession(p) PROVE KeptInv'
  <2>1. PICK host \in Hosts, scope \in Scopes :
          Clear(p, {e \in Range1(proc[p].mem) : e.org = OriginFor(proc[p], host) /\ e.scope = scope})
    BY <1>13 DEF ClearSession
  <2> QED BY <2>1, KeptClear
<1>14. ASSUME NEW p \in Procs, ClearStorageKey(p) PROVE KeptInv'
  <2>1. PICK host \in Hosts, sec \in {"VerifiedTls", "PinnedTls"} :
          Clear(p, {e \in Range1(proc[p].mem) : e.org = [host |-> host, sec |-> sec]})
    BY <1>14 DEF ClearStorageKey
  <2> QED BY <2>1, KeptClear
<1>15. ASSUME NEW p \in Procs, ClearAll(p) PROVE KeptInv'
  BY <1>15, KeptClear DEF ClearAll
<1>16. ASSUME NEW p \in Procs, SendRequest(p) PROVE KeptInv'
  BY <1>16, KeptSame DEF SendRequest
<1>17. ASSUME NEW p \in Procs, PinSite(p) PROVE KeptInv'
  BY <1>17, KeptPinSite
<1>18. ASSUME NEW p \in Procs, ForgetSite(p) PROVE KeptInv'
  BY <1>18, KeptForgetSite
<1>19. CASE UNCHANGED vars
  BY <1>19, KeptSame DEF vars
<1> QED BY <1>1, <1>2, <1>3, <1>4, <1>5, <1>6, <1>7, <1>8, <1>9, <1>10, <1>11, <1>12, <1>13,
           <1>14, <1>15, <1>16, <1>17, <1>18, <1>19 DEF Next

LEMMA KeptInvariant ==
    ASSUME Alone
    PROVE  Spec => []KeptInv
<1>1. Init => KeptInv
  BY KeptInit
<1>2. Inv /\ Inv' /\ KeptInv /\ [Next]_vars => KeptInv'
  BY KeptNext
<1> QED BY <1>1, <1>2, StoresInvariant, PTL DEF Spec

\* A session whose save returned, and which nothing cleared, replaced, evicted
\* or outlived, is on disk whenever nothing is being written, if no write
\* failed and no restore was cut short (client.rs, persist_after_set and
\* restore; session_file.rs, save).
THEOREM KeptOnDiskAlways ==
    ASSUME Alone
    PROVE  Spec => []KeptOnDisk
<1>1. KeptInv => KeptOnDisk
  <2>1. \E p \in Procs : TRUE
    BY DEF Alone
  <2>2. ASSUME KeptInv, AllSettled, broken = {}, NEW p \in Procs
        PROVE  kept \subseteq Range1(LinesOnDisk)
    <3>1. proc[p].st \in {"idle", "down"}
      BY <2>2 DEF AllSettled, Settled
    <3> QED BY <2>2, <3>1 DEF KeptInv, Remembered, Restoring
  <2> QED BY <2>1, <2>2 DEF KeptOnDisk
<1> QED BY <1>1, KeptInvariant, PTL

\* The shape of the processes and the files, and the admission bounds on the
\* sessions in memory, per site and in all (session_store.rs, try_set_token):
\* a restored file is admitted like a server's directives.
THEOREM TypeCorrect ==
    ASSUME Alone
    PROVE  Spec => []TypeOK
<1>1. Inv /\ KeptInv => TypeOK
  <2> SUFFICES ASSUME Inv, KeptInv PROVE TypeOK
    OBVIOUS
  <2>1. DOMAIN proc = Procs /\ FilesType /\ recorded \in Pins
    BY DEF Inv, Shared
  <2>2. ASSUME NEW p \in Procs
        PROVE  /\ ProcessType(proc[p]) /\ Len(proc[p].mem) <= MaxTotal
               /\ \A e \in Range1(proc[p].mem) :
                     Cardinality(InOrigin(proc[p].mem, e.org)) <= MaxPerSite
    <3> DEFINE s == proc[p]
    <3>1. ProcessType(s) /\ Bounded(s)
      BY DEF Inv, ProcessInv, KeptInv
    <3> HIDE DEF s
    <3>2. s.mem \in Seq(Session) /\ s.todo \in Seq(Session)
      BY <3>1, Fields
    <3>3. Admitted(s.mem)
      BY <3>1, <3>2, AdmittedPrefix DEF Bounded
    <3>4. ASSUME NEW e \in Range1(s.mem) PROVE e.org \in Site
      <4>1. e \in Session
        BY <3>2 DEF Range1
      <4> QED BY <4>1 DEF Session
    <3>5. /\ ProcessType(s) /\ Len(s.mem) <= MaxTotal
          /\ \A e \in Range1(s.mem) : Cardinality(InOrigin(s.mem, e.org)) <= MaxPerSite
      BY <3>1, <3>3, <3>4 DEF Admitted
    <3> QED BY <3>5 DEF s
  <2> QED BY <2>1, <2>2 DEF TypeOK, FilesType
<1> QED BY <1>1, StoresInvariant, KeptInvariant, PTL

=================================================================================
