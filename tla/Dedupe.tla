--------------------------------- MODULE Dedupe ---------------------------------
(***************************************************************************)
(* The maintenance script that removes duplicate versions from the bucket   *)
(* (scripts/deduplicate-b2-bucket.ts), running beside the application: it   *)
(* lists the names of the bucket page by page, groups what it has listed by *)
(* name, keeps the newest of each group and deletes the rest.               *)
(***************************************************************************)
EXTENDS Naturals, Sequences, FiniteSets

CONSTANTS
  MaxName,    \* bound: object names are 1 .. MaxName, in the order B2 lists them
  MaxTime,    \* bound: a version is named by the time of its upload
  PageLength  \* maxFileCount, 10000 in the code

ASSUME BoundsAssumption == MaxName \in Nat /\ MaxTime \in Nat
ASSUME PageLengthAssumption == PageLength \in Nat /\ PageLength > 1

Names == 1 .. MaxName
Version == [name : Names, time : 1 .. MaxTime]

VARIABLES
  bucket,   \* the versions stored at B2
  now,      \* the time of the last upload
  scan,     \* of the script: "idle", "list", "delete" or "ended"
  start,    \* startFileName; 0 for null
  listed,   \* allFiles: the versions listed, in order
  doomed,   \* the indices in listed of the versions still to be deleted
  execute,  \* --execute was given; else it is a dry run
  removed   \* versions the script has deleted (history)

dedupeVars == <<bucket, now, scan, start, listed, doomed, execute, removed>>

DedupeTypeOK ==
  /\ bucket \subseteq Version
  /\ now \in 0 .. MaxTime
  /\ scan \in {"idle", "list", "delete", "ended"}
  /\ start \in Names \cup {0}
  /\ listed \in Seq(Version)
  /\ doomed \subseteq DOMAIN listed
  /\ execute \in BOOLEAN
  /\ removed \subseteq Version

DedupeInit ==
  /\ bucket = {} /\ now = 0
  /\ scan = "idle" /\ start = 0 /\ listed = <<>> /\ doomed = {}
  /\ execute \in BOOLEAN
  /\ removed = {}

\* b2_list_file_names shows the newest version of a name only, and begins with
\* startFileName itself.
Newest(n) == CHOOSE v \in bucket : v.name = n /\ \A w \in bucket : w.name = n => w.time <= v.time
Visible(from) == {n \in Names : n >= from /\ \E v \in bucket : v.name = n}
NamesOnPage ==
  {n \in Visible(start) : Cardinality({m \in Visible(start) : m < n}) < PageLength}
NextPage ==
  [i \in 1 .. Cardinality(NamesOnPage) |->
     Newest(CHOOSE n \in NamesOnPage : Cardinality({m \in NamesOnPage : m < n}) = i - 1)]

-----------------------------------------------------------------------------
(* The application: an upload, and deleteFiles.                             *)

PutVersion(n) ==
  /\ now < MaxTime
  /\ now' = now + 1
  /\ bucket' = bucket \cup {[name |-> n, time |-> now + 1]}
  /\ UNCHANGED <<scan, start, listed, doomed, execute, removed>>

DropVersion(n) ==
  /\ \E v \in bucket : v.name = n
  /\ bucket' = bucket \ {Newest(n)}
  /\ UNCHANGED <<now, scan, start, listed, doomed, execute, removed>>

-----------------------------------------------------------------------------
(* The script                                                               *)

StartScript ==
  /\ scan = "idle"
  /\ scan' = "list"
  /\ UNCHANGED <<bucket, now, start, listed, doomed, execute, removed>>

\* groupDuplicates and identifyDuplicates: of the entries of a name, sorted by
\* time with the newest first, all but the first are to be deleted.
\* A faulty variant: the oldest first.
KeptOldest(all, n) ==
  CHOOSE i \in DOMAIN all :
    /\ all[i].name = n
    /\ \A j \in DOMAIN all : all[j].name = n =>
         all[j].time > all[i].time \/ (all[j].time = all[i].time /\ i <= j)
Kept(all, n) ==
  CHOOSE i \in DOMAIN all :
    /\ all[i].name = n
    /\ \A j \in DOMAIN all : all[j].name = n =>
         all[j].time < all[i].time \/ (all[j].time = all[i].time /\ i <= j)
Duplicates(all) == {i \in DOMAIN all : i # Kept(all, all[i].name)}

\* A full page is followed by the page that begins with its last name.
ListNames ==
  /\ scan = "list"
  /\ listed' = listed \o NextPage
  /\ IF Len(NextPage) < PageLength
     THEN /\ scan' = IF execute /\ Duplicates(listed') # {} THEN "delete" ELSE "ended"
          /\ doomed' = IF execute THEN Duplicates(listed') ELSE {}
          /\ UNCHANGED start
     ELSE /\ start' = NextPage[PageLength].name
          /\ UNCHANGED <<scan, doomed>>
  /\ UNCHANGED <<bucket, now, execute, removed>>

\* A deletion may fail; the next one follows.
DeleteNext ==
  /\ scan = "delete"
  /\ \E i \in doomed :
     /\ doomed' = doomed \ {i}
     /\ \/ bucket' = bucket \ {listed[i]} /\ removed' = removed \cup {listed[i]}
        \/ UNCHANGED <<bucket, removed>>
  /\ scan' = IF doomed' = {} THEN "ended" ELSE scan
  /\ UNCHANGED <<now, start, listed, execute>>

\* The listing fails or the process is killed.
ScriptDies ==
  /\ scan \in {"list", "delete"}
  /\ scan' = "ended" /\ doomed' = {}
  /\ UNCHANGED <<bucket, now, start, listed, execute, removed>>

DedupeNext ==
  \/ \E n \in Names : PutVersion(n) \/ DropVersion(n)
  \/ StartScript \/ ListNames \/ DeleteNext \/ ScriptDies

DedupeSpec == DedupeInit /\ [][DedupeNext]_dedupeVars

-----------------------------------------------------------------------------
(* Properties *)

\* "Keep the latest (newest) version": what the script deletes is older than a
\* version of the same name that it listed and leaves alone, whatever is
\* uploaded and deleted between its pages.  The exception is a version listed
\* twice, at the end of one page and at the beginning of the next: it counts
\* as its own duplicate and is deleted.
NewestKept ==
  \A v \in removed :
    \/ \E i \in DOMAIN listed :
         listed[i].name = v.name /\ listed[i].time > v.time /\ listed[i] \notin removed
    \/ \E i, j \in DOMAIN listed : i # j /\ listed[i] = v /\ listed[j] = v

-----------------------------------------------------------------------------
(* What the proofs rest on.                                                  *)

\* Names come in order, and no name three times; only the last name listed can
\* come again, at the beginning of the next page.
ListedInOrder ==
  /\ \A i, j \in DOMAIN listed : i < j => listed[i].name <= listed[j].name
  /\ \A i, j \in DOMAIN listed : i + 1 < j => listed[i].name < listed[j].name
  /\ scan = "list" => \A i \in DOMAIN listed :
       listed[i].name <= start /\ (i < Len(listed) => listed[i].name < start)

\* Nothing is deleted before the listing is complete, and then duplicates only.
OnlyDuplicates ==
  /\ scan = "idle" => listed = <<>>
  /\ scan \in {"idle", "list"} => removed = {} /\ doomed = {}
  /\ doomed \subseteq Duplicates(listed)
  /\ removed \subseteq {listed[i] : i \in Duplicates(listed)}

DedupeInv == DedupeTypeOK /\ ListedInOrder /\ OnlyDuplicates /\ NewestKept

=============================================================================
