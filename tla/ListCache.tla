------------------------------- MODULE ListCache -------------------------------
(***************************************************************************)
(* The cached file lists of one user: listFiles of files.service.ts, the    *)
(* handlers that change the library, and cache.service.ts with Redis.       *)
(*                                                                         *)
(* A list is stored under a key that ends in the version of the library.    *)
(* Whoever changes the library commits first and increments the version     *)
(* then; whoever lists reads the version first and the rows then.  Redis    *)
(* may fail, expire lists and lose the version.                             *)
(***************************************************************************)
EXTENDS Naturals, FiniteSets

CONSTANTS
  Files,
  Filters,      \* what lists are asked for: a subset of AllFilters
  Slots,        \* requests in flight at the same time
  MaxFailures,  \* MAX_FAILURES of the cache service (5)
  MaxVersion,   \* bound on the version, in the guard of Change
  Failures      \* TRUE: Redis and awaited calls may fail, Redis may forget

AllFilters == {"all", "favorite", "not favorite"}

\* The part of the key that depends on the filter: `favorite || 0`.  The folder,
\* the page and its length are in the key as they are.
KeyOf(q) == IF q = "favorite" THEN "fav:true" ELSE "fav:0"

ASSUME BoundsAssumption == MaxFailures \in Nat \ {0} /\ MaxVersion \in Nat
ASSUME FailuresAssumption == Failures \in BOOLEAN

\* Clients list everything, or their favourites: no two filters share a key.
ASSUME FiltersAssumption ==
  /\ Filters \subseteq AllFilters
  /\ \A p, q \in Filters : KeyOf(p) = KeyOf(q) => p = q

VARIABLES
  rows,      \* rows[f]: "plain" or "favorite"; "gone" when trashed, deleted or
             \* not there yet
  version,   \* the version key in Redis, 0 without one
  lists,     \* the stored lists
  healthy,   \* isHealthy of the cache service
  failures,  \* failureCount
  pc,        \* pc[r]: the await at which slot r stands
  asked,     \* asked[r]: the filter of the list slot r makes, or "none"
  ver,       \* ver[r]: the version it read, 0 before and after it is of use
  snap,      \* snap[r]: the file ids it holds
  changed,   \* changed[r]: the files slot r has changed and not announced
  doubtful,  \* files with a change that was never announced (history)
  overtaken, \* TRUE once Redis lost the version while lists of earlier versions
             \* were stored or on their way (history)
  sure       \* sure[r]: files that neither changed since slot r read the version
             \* nor had a change then that was not announced (history)

libraryVars == <<rows, changed, doubtful>>
redisVars   == <<version, lists, overtaken>>
healthVars  == <<healthy, failures>>
listVars    == <<asked, ver, snap, sure>>
vars        == <<libraryVars, redisVars, healthVars, listVars, pc>>

Kinds == {"plain", "favorite", "gone"}
Keys  == {"fav:true", "fav:0"}
Entry == [key : Keys, ver : Nat, ids : SUBSET Files]

LibraryTypes ==
  /\ rows \in [Files -> Kinds]
  /\ changed \in [Slots -> SUBSET Files]
  /\ \A r \in Slots : pc[r] # "increment" => changed[r] = {}
  /\ doubtful \subseteq Files

RedisTypes == version \in Nat /\ lists \subseteq Entry /\ overtaken \in BOOLEAN

HealthTypes ==
  /\ healthy \in BOOLEAN /\ failures \in 0..MaxFailures
  /\ failures = MaxFailures => ~healthy
  /\ healthy \/ Failures

ListTypes ==
  /\ pc \in [Slots -> {"idle", "get", "rows", "set", "refetch", "urls", "increment"}]
  /\ asked \in [Slots -> Filters \cup {"none"}]
  /\ \A r \in Slots : pc[r] \notin {"idle", "increment"} => asked[r] \in Filters
  /\ ver \in [Slots -> Nat]
  /\ snap \in [Slots -> SUBSET Files]
  /\ sure \in [Slots -> SUBSET Files]

TypeOK == LibraryTypes /\ RedisTypes /\ HealthTypes /\ ListTypes

Init ==
  /\ rows = [f \in Files |-> "gone"]
  /\ version = 0 /\ lists = {} /\ overtaken = FALSE
  /\ healthy \in {TRUE, ~Failures} /\ failures = 0
  /\ pc = [r \in Slots |-> "idle"]
  /\ asked = [r \in Slots |-> "none"]
  /\ ver = [r \in Slots |-> 0]
  /\ snap = [r \in Slots |-> {}]
  /\ changed = [r \in Slots |-> {}]
  /\ doubtful = {}
  /\ sure = [r \in Slots |-> {}]

-----------------------------------------------------------------------------
(* Helpers *)

\* The condition of the query for a list.
Matches(kind, q) ==
  \/ q = "all" /\ kind # "gone"
  \/ q = "favorite" /\ kind = "favorite"
  \/ q = "not favorite" /\ kind = "plain"

Listed(q) == {f \in Files : Matches(rows[f], q)}

\* Files whose last change has not been announced.
Busy == IF overtaken THEN Files
        ELSE doubtful \cup UNION {changed[r] : r \in Slots}

\* handleFailure
CountFailure ==
  /\ failures' = IF failures < MaxFailures THEN failures + 1 ELSE failures
  /\ healthy' = (healthy /\ failures' < MaxFailures)

\* A command to Redis fails; while the service is unhealthy it sends none.
RedisFails ==
  \/ Failures /\ healthy /\ CountFailure
  \/ ~healthy /\ UNCHANGED healthVars

RedisWorks == healthy /\ UNCHANGED healthVars

Go(r, here, await) ==
  /\ pc[r] = here
  /\ pc' = [pc EXCEPT ![r] = await]

Leave(r) ==
  /\ pc' = [pc EXCEPT ![r] = "idle"]
  /\ asked' = [asked EXCEPT ![r] = "none"]
  /\ ver' = [ver EXCEPT ![r] = 0]
  /\ snap' = [snap EXCEPT ![r] = {}]
  /\ sure' = [sure EXCEPT ![r] = {}]

\* The list slot r holds, as it is stored under version v.
Stored(r, v) == [key |-> KeyOf(asked[r]), ver |-> v, ids |-> snap[r]]

\* setex replaces what is stored under the same key.
Store(e) ==
  lists' = {d \in lists : d.key # e.key \/ d.ver # e.ver} \cup {e}

\* The rows become new; whoever lists can rely on the changed ones no longer.
Commit(new) ==
  /\ rows' = new
  /\ sure' = [r \in Slots |-> {f \in sure[r] : new[f] = rows[f]}]

-----------------------------------------------------------------------------
(* Faulty variants of the operations below.  They are no part of Next: each is a  *)
(* mistake this code could have made, and the properties are tested against it.  *)

\* A handler changes the library and does not increment the version.
ChangeQuietly(r) ==
  /\ pc[r] = "idle"
  /\ version < MaxVersion
  /\ \E new \in [Files -> Kinds] : Commit(new)
  /\ UNCHANGED <<changed, doubtful, redisVars, healthVars, asked, ver, snap, pc>>

\* The list is stored under the version of the moment it is stored.
ListSetNow(r) ==
  /\ Go(r, "set", "urls")
  /\ \/ RedisWorks /\ Store(Stored(r, version))
     \/ RedisFails /\ UNCHANGED lists
  /\ ver' = [ver EXCEPT ![r] = 0]
  /\ UNCHANGED <<libraryVars, version, overtaken, asked, snap, sure>>

\* A list of any version is taken.
ListGetAny(r) ==
  \/ /\ Go(r, "get", "refetch")
     /\ RedisWorks
     /\ \E e \in lists :
          /\ e.key = KeyOf(asked[r])
          /\ snap' = [snap EXCEPT ![r] = e.ids]
     /\ UNCHANGED <<libraryVars, redisVars, asked, ver, sure>>
  \/ /\ Go(r, "get", "rows")
     /\ \/ RedisWorks /\ \A e \in lists : e.key # KeyOf(asked[r])
        \/ RedisFails
     /\ UNCHANGED <<libraryVars, redisVars, listVars>>

\* A list that was found is stored again, for another thirty seconds.
ListRefetchRenew(r) ==
  /\ Go(r, "refetch", "set")
  /\ snap' = [snap EXCEPT ![r] = {f \in @ : rows[f] # "gone"}]
  /\ UNCHANGED <<libraryVars, redisVars, healthVars, asked, ver, sure>>

-----------------------------------------------------------------------------
(* Changes of the library: uploads, updates, moves, trash, restoration and    *)
(* deletion all end in one statement that changes rows, then incrementVersion *)

\* MaxVersion leaves room for the increments to come.
Change(r) ==
  /\ pc[r] = "idle"
  /\ version + Cardinality({w \in Slots : pc[w] = "increment"}) < MaxVersion
  /\ \E new \in [Files -> Kinds] :
       /\ Commit(new)
       /\ changed' = [changed EXCEPT ![r] = {f \in Files : new[f] # rows[f]}]
  /\ Go(r, "idle", "increment")
  /\ UNCHANGED <<doubtful, redisVars, healthVars, asked, ver, snap>>

\* A file saved from a share is in the library, and no version is incremented.
SaveToAccount(f) ==
  /\ rows[f] = "gone"
  /\ Commit([rows EXCEPT ![f] = "plain"])
  /\ doubtful' = doubtful \cup {f}
  /\ UNCHANGED <<changed, redisVars, healthVars, asked, ver, snap, pc>>

\* incrementVersion: INCR reaches Redis, and the reply the server ...
IncrementVersion(r) ==
  /\ Go(r, "increment", "idle")
  /\ \/ RedisWorks
     \/ Failures /\ healthy /\ CountFailure         \* ... or is lost
  /\ version' = version + 1
  /\ changed' = [changed EXCEPT ![r] = {}]
  /\ doubtful' = {}
  /\ UNCHANGED <<rows, lists, overtaken, listVars>>

\* It does not, or the handler ends before it; the failure is only logged.
IncrementLost(r) ==
  /\ Go(r, "increment", "idle")
  /\ \/ RedisFails
     \/ Failures /\ UNCHANGED healthVars
  /\ changed' = [changed EXCEPT ![r] = {}]
  /\ doubtful' = doubtful \cup changed[r]
  /\ UNCHANGED <<rows, redisVars, listVars>>

-----------------------------------------------------------------------------
(* listFiles *)

\* getVersion; a version that cannot be read counts as 0.
ListVersion(r, q) ==
  /\ Go(r, "idle", "get")
  /\ asked' = [asked EXCEPT ![r] = q]
  /\ \/ /\ RedisWorks
        /\ ver' = [ver EXCEPT ![r] = version]
        /\ sure' = [sure EXCEPT ![r] = Files \ Busy]
     \/ /\ RedisFails
        /\ ver' = [ver EXCEPT ![r] = 0]
        /\ sure' = [sure EXCEPT ![r] = {}]
  /\ snap' = [snap EXCEPT ![r] = {}]
  /\ UNCHANGED <<libraryVars, redisVars>>

\* get: a list is stored under this key and version, ...
ListHit(r) ==
  /\ Go(r, "get", "refetch")
  /\ RedisWorks
  /\ \E e \in lists :
       /\ e.key = KeyOf(asked[r]) /\ e.ver = ver[r]
       /\ snap' = [snap EXCEPT ![r] = e.ids]
  /\ UNCHANGED <<libraryVars, redisVars, asked, ver, sure>>

\* ... or none is, or Redis does not answer.
ListMiss(r) ==
  /\ Go(r, "get", "rows")
  /\ \/ RedisWorks /\ \A e \in lists : e.key # KeyOf(asked[r]) \/ e.ver # ver[r]
     \/ RedisFails
  /\ UNCHANGED <<libraryVars, redisVars, listVars>>

ListGet(r) == ListHit(r) \/ ListMiss(r)

\* The files of a stored list are read by their ids; only the trash is left out.
ListRefetch(r) ==
  /\ Go(r, "refetch", "urls")
  /\ snap' = [snap EXCEPT ![r] = {f \in @ : rows[f] # "gone"}]
  /\ ver' = [ver EXCEPT ![r] = 0]
  /\ UNCHANGED <<libraryVars, redisVars, healthVars, asked, sure>>

ListRows(r) ==
  /\ Go(r, "rows", "set")
  /\ snap' = [snap EXCEPT ![r] = Listed(asked[r])]
  /\ UNCHANGED <<libraryVars, redisVars, healthVars, asked, ver, sure>>

\* set: under the version that was read at the beginning; a failure is only logged.
ListSet(r) ==
  /\ Go(r, "set", "urls")
  /\ \/ RedisWorks /\ Store(Stored(r, ver[r]))
     \/ RedisFails /\ UNCHANGED lists
  /\ ver' = [ver EXCEPT ![r] = 0]
  /\ UNCHANGED <<libraryVars, version, overtaken, asked, snap, sure>>

\* The URLs are signed and the list is returned.
ListReturn(r) ==
  /\ pc[r] = "urls"
  /\ Leave(r)
  /\ UNCHANGED <<libraryVars, redisVars, healthVars>>

\* A query fails.
ListAbort(r) ==
  /\ Failures
  /\ pc[r] \notin {"idle", "increment"}
  /\ Leave(r)
  /\ UNCHANGED <<libraryVars, redisVars, healthVars>>

-----------------------------------------------------------------------------
(* Redis and the connection to it *)

\* The list stored under a key and version is past its time to live, or evicted.
Expire(k, v) ==
  /\ \E e \in lists : e.key = k /\ e.ver = v
  /\ lists' = {e \in lists : e.key # k \/ e.ver # v}
  /\ UNCHANGED <<libraryVars, version, overtaken, healthVars, listVars, pc>>

\* Redis restarts, without persistence, or evicts the version.
RedisForgets ==
  /\ Failures
  /\ version # 0
  /\ version' = 0
  /\ lists' \in {{}, lists}
  /\ overtaken' = (\/ overtaken
                   \/ lists' # {}
                   \/ \E r \in Slots : pc[r] \in {"get", "rows", "set"})
  /\ sure' = IF overtaken' THEN [r \in Slots |-> {}] ELSE sure
  /\ UNCHANGED <<libraryVars, healthVars, asked, ver, snap, pc>>

\* on('error')
ConnectionError ==
  /\ Failures
  /\ CountFailure
  /\ UNCHANGED <<libraryVars, redisVars, listVars, pc>>

\* on('connect')
Connected ==
  /\ Failures
  /\ healthy' = TRUE /\ failures' = 0
  /\ UNCHANGED <<libraryVars, redisVars, listVars, pc>>

-----------------------------------------------------------------------------
SlotStep(r) ==
  \/ IncrementVersion(r)
  \/ IncrementLost(r)
  \/ ListGet(r)
  \/ ListRefetch(r)
  \/ ListRows(r)
  \/ ListSet(r)
  \/ ListReturn(r)

Next ==
  \/ \E r \in Slots : Change(r) \/ SlotStep(r) \/ ListAbort(r)
  \/ \E r \in Slots, q \in Filters : ListVersion(r, q)
  \/ \E f \in Files : SaveToAccount(f)
  \/ \E k \in Keys, v \in 0..MaxVersion : Expire(k, v)
  \/ RedisForgets
  \/ ConnectionError
  \/ Connected

Spec == Init /\ [][Next]_vars

\* Handlers go on, and what is stored expires.
FairSpec ==
  /\ Spec
  /\ \A r \in Slots : WF_vars(SlotStep(r))
  /\ \A k \in Keys, v \in 0..MaxVersion : WF_vars(Expire(k, v))

-----------------------------------------------------------------------------
(* Properties *)

\* A list is right about every file that did not change since its request read
\* the version and whose changes before that had been announced - whether it comes
\* from Redis or from the table, under every interleaving with changes and other
\* lists, and with every failure of Redis.
AnswersRight ==
  \A r \in Slots : pc[r] \in {"set", "refetch", "urls"} =>
    \A f \in sure[r] : f \in snap[r] <=> Matches(rows[f], asked[r])

\* Why: nothing is stored or on its way under a version that is still to come, ...
NotAhead ==
  ~overtaken =>
    /\ \A e \in lists : e.ver <= version
    /\ \A r \in Slots : pc[r] \in {"get", "rows", "set"} => ver[r] <= version

\* ... what is stored under the current version, or about to be, is wrong only
\* about files with a change that was not announced, ...
CurrentRight ==
  /\ \A e \in lists, q \in Filters : e.ver = version /\ e.key = KeyOf(q) =>
       \A f \in Files \ Busy : f \in e.ids <=> Matches(rows[f], q)
  /\ \A r \in Slots : pc[r] = "set" /\ ver[r] = version =>
       \A f \in Files \ Busy : f \in snap[r] <=> Matches(rows[f], asked[r])

\* ... and what a request may still be given under the version it read, by Redis
\* or by others that will store it there, is right about the files it is sure of.
ReadersRight ==
  \A r \in Slots : pc[r] = "get" => \A f \in sure[r] :
    /\ \A e \in lists : e.ver = ver[r] /\ e.key = KeyOf(asked[r]) =>
         (f \in e.ids <=> Matches(rows[f], asked[r]))
    /\ \A w \in Slots :
         pc[w] = "set" /\ ver[w] = ver[r] /\ asked[w] = asked[r] =>
           (f \in snap[w] <=> Matches(rows[f], asked[r]))

SureIsSettled == \A r \in Slots : sure[r] \cap Busy = {}

\* The inductive invariant of the list cache (ListCache_proofs).
ListInv ==
  /\ TypeOK
  /\ AnswersRight
  /\ NotAhead
  /\ CurrentRight
  /\ ReadersRight
  /\ SureIsSettled

\* The cache keeps what RegularList promises.
Regular == INSTANCE RegularList WITH
  Requests <- Slots,
  NoFilter <- "none",
  Unsure   <- Failures,
  busy     <- Busy,
  answer   <- [r \in Slots |-> IF pc[r] = "urls" THEN snap[r] ELSE {}]

KeepsRegularList == Regular!Spec

\* What Redis failures leave behind passes: once the library has stopped to change,
\* the stored lists are finally all right, and stay so.
StaleListsExpire ==
  <>[][rows' = rows]_rows =>
    <>[](\A e \in lists, q \in Filters : e.key = KeyOf(q) => e.ids = Listed(q))

=============================================================================
