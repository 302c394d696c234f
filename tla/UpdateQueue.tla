----------------------------- MODULE UpdateQueue -----------------------------
(***************************************************************************)
(* What the client's queue of pending UPDATEs promises its callers: a      *)
(* first-in first-out queue whose reader sees only updates of the current  *)
(* page, in the order in which they were accepted.                         *)
(***************************************************************************)
EXTENDS Sequences, Subsequences

CONSTANTS Updates, Scopes, None   \* an update is [id, scope]

VARIABLES queue,    \* accepted, not yet taken
          current,  \* scope of the page shown
          taken     \* the update in the reader's hands, or None
uvars == <<queue, current, taken>>

QInit == queue = <<>> /\ current = None /\ taken = None

Accept == \E u \in Updates : queue' = Append(queue, u) /\ UNCHANGED <<current, taken>>
\* Updates of other pages in front of the one taken are dropped.
Take ==
    \E k \in DOMAIN queue :
        /\ queue[k].scope = current
        /\ \A j \in 1..(k - 1) : queue[j].scope # current
        /\ taken' = queue[k]
        /\ queue' = SubSeq(queue, k + 1, Len(queue))
        /\ UNCHANGED current
\* An update that was never queued may overtake none that is of the current page.
Bypass ==
    /\ \A k \in DOMAIN queue : queue[k].scope # current
    /\ queue' = <<>>
    /\ taken' \in Updates \cup {taken}
    /\ UNCHANGED current
Release == taken' = None /\ UNCHANGED <<queue, current>>
Retire ==
    /\ \E s \in Scopes :
         queue' = Subsequence(queue, {i \in DOMAIN queue : queue[i].scope # s})
    /\ current' \in {current, None} /\ UNCHANGED taken
Reset == queue' = <<>> /\ current' \in Scopes \cup {None} /\ UNCHANGED taken
Leave == current' = None /\ UNCHANGED <<queue, taken>>

QNext == Accept \/ Take \/ Bypass \/ Release \/ Retire \/ Reset \/ Leave
QSpec == QInit /\ [][QNext]_uvars
=============================================================================
