------------------------------ MODULE RegularList ------------------------------
(***************************************************************************)
(* What a client may rely on when it lists its files (files.service         *)
(* listFiles, folders.service and uploads.service beside it), with no word  *)
(* about versions and cached lists.  The library is like a regular register *)
(* per file: a list is right about every file whose last change was over    *)
(* before the list was asked for and that does not change meanwhile.  About *)
(* the others it may say either.                                            *)
(***************************************************************************)
EXTENDS Naturals

CONSTANTS
  Files,
  Kinds,          \* what a row may be to a list
  Filters,        \* what a list may be asked for
  NoFilter,       \* no list is asked for
  Matches(_, _),  \* Matches(k, q): a row of kind k belongs to list q
  Requests,
  Unsure          \* TRUE: the server may lose track of the changes

VARIABLES
  rows,    \* rows[f]: the kind of file f
  busy,    \* files whose last change is not over
  asked,   \* asked[r]: the filter of request r, NoFilter without one
  sure,    \* sure[r]: the files the answer to r must be right about
  answer   \* answer[r]: the list returned, {} before that

vars == <<rows, busy, asked, sure, answer>>

Init ==
  /\ rows \in [Files -> Kinds]
  /\ busy \in SUBSET Files
  /\ asked = [r \in Requests |-> NoFilter]
  /\ sure = [r \in Requests |-> {}]
  /\ answer = [r \in Requests |-> {}]

\* Some files change.
Change ==
  /\ rows' \in [Files -> Kinds]
  /\ LET changed == {f \in Files : rows'[f] # rows[f]} IN
     /\ busy \cup changed \subseteq busy'
     /\ busy' \subseteq Files
     /\ sure' = [r \in Requests |-> sure[r] \ busy']
  /\ UNCHANGED <<asked, answer>>

\* Changes are over.
Settle ==
  /\ busy' \subseteq busy
  /\ UNCHANGED <<rows, asked, sure, answer>>

\* The server loses track of what is over.
LoseTrack ==
  /\ Unsure
  /\ busy' = Files
  /\ sure' = [r \in Requests |-> {}]
  /\ UNCHANGED <<rows, asked, answer>>

Ask(r) ==
  /\ \E q \in Filters : asked' = [asked EXCEPT ![r] = q]
  /\ \/ sure' = [sure EXCEPT ![r] = Files \ busy]
     \/ Unsure /\ sure' = [sure EXCEPT ![r] = {}]
  /\ answer' = [answer EXCEPT ![r] = {}]
  /\ UNCHANGED <<rows, busy>>

Answer(r) ==
  /\ \E S \in SUBSET Files :
       /\ \A f \in sure[r] : f \in S <=> Matches(rows[f], asked[r])
       /\ answer' = [answer EXCEPT ![r] = S]
  /\ UNCHANGED <<rows, busy, asked, sure>>

\* The answer has been sent, or the request failed.
Forget(r) ==
  /\ asked' = [asked EXCEPT ![r] = NoFilter]
  /\ sure' = [sure EXCEPT ![r] = {}]
  /\ answer' = [answer EXCEPT ![r] = {}]
  /\ UNCHANGED <<rows, busy>>

Next ==
  \/ Change
  \/ Settle
  \/ LoseTrack
  \/ \E r \in Requests : Ask(r) \/ Answer(r) \/ Forget(r)

Spec == Init /\ [][Next]_vars

=============================================================================
