----------------------------- MODULE StorageClient -----------------------------
(***************************************************************************)
(* The client of the B2 object storage (b2-storage.service.ts): credentials *)
(* that expire and are renewed by whichever call is refused, the upload     *)
(* that is retried, the paged listing of a large file's parts, the deletion *)
(* of an object, the health check and the CORS rule set at the start.       *)
(* There are one object name and one large file; concurrent calls share the *)
(* credentials.                                                             *)
(***************************************************************************)
EXTENDS Naturals, Sequences, FiniteSets

CONSTANTS
  Callers,     \* calls that may be in progress at the same time
  MaxParts,    \* bound: the parts of the large file
  PageSize,    \* maxPartCount, 1000 in the code
  MaxRetries,  \* 3 in the code
  MaxVersions  \* bound: the versions of the object that lost answers leave

ASSUME PageSizeAssumption == PageSize \in Nat \ {0}
ASSUME MaxRetriesAssumption == MaxRetries \in Nat
ASSUME MaxPartsAssumption == MaxParts \in Nat

VARIABLES
  client,     \* this.b2: "valid", "expired", or the caller that put a new
              \* instance there and authorizes it
  fresh,      \* this.authToken has not expired
  call,       \* call[c]: the call of caller c
  parts,      \* part numbers stored at B2
  versions,   \* versions of the object stored at B2
  rules,      \* CORS rules of the bucket: "ours" and "theirs"
  configured, \* corsConfigured
  booting,    \* onModuleInit has authorized and has not set the CORS rule yet
  started,    \* uploadFile was called for the object: its path has a new uuid,
              \* so nobody calls it again
  doubled     \* B2 stored an upload whose answer was lost (history)

clientVars == <<client, fresh, configured, booting>>
bucketVars == <<parts, versions, rules, started, doubled>>
storageVars == <<clientVars, call, bucketVars>>

\* simple: startLargeFile, getUploadPartUrl, finishLargeFile, cancelLargeFile and
\* getSignedUploadUrl, which do one request and repeat it after a 401.
CallOps == {"simple", "upload", "list", "delete", "download", "health", "cors"}
CallSteps == {"send", "authorize", "authorizing", "post", "delete", "update", "done"}
Calls == [op : CallOps, at : CallSteps, retries : 0 .. MaxRetries,
          from : 0 .. MaxParts, got : Seq(1 .. MaxParts), saw : SUBSET (1 .. MaxParts)]
NoStorageCall == [op |-> "none"]

StorageTypeOK ==
  /\ client \in {"valid", "expired"} \cup Callers
  /\ fresh \in BOOLEAN
  /\ call \in [Callers -> Calls \cup {NoStorageCall}]
  /\ parts \subseteq 1 .. MaxParts
  /\ versions \in Nat
  /\ rules \subseteq {"ours", "theirs"}
  /\ configured \in BOOLEAN /\ booting \in BOOLEAN
  /\ started \in BOOLEAN /\ doubled \in BOOLEAN

\* onModuleInit has authorized; if that failed the server runs on with an
\* instance that has no credentials.
StorageInit ==
  /\ client \in {"valid"} \cup Callers
  /\ fresh = (client = "valid") /\ booting = (client = "valid")
  /\ call = [c \in Callers |-> NoStorageCall]
  /\ parts = {} /\ versions = 0
  /\ rules \in {{"theirs"}, {"ours", "theirs"}}
  /\ configured = FALSE /\ started = FALSE /\ doubled = FALSE

-----------------------------------------------------------------------------
(* Helpers *)

Stands(c, op, where) == call[c] # NoStorageCall /\ call[c].op = op /\ call[c].at = where
Put(c, r) == call' = [call EXCEPT ![c] = r]
Finish(c) == Put(c, NoStorageCall)
GoOn(c, where) == Put(c, [call[c] EXCEPT !.at = where])

\* Each call, and each repetition after a 401, starts from nothing.
Begin(op, retries) ==
  [op |-> op, at |-> "send", retries |-> retries, from |-> 0, got |-> <<>>,
   saw |-> IF op = "list" THEN parts ELSE {}]

\* ensureBucketCors is called once, before the server listens.
StartCall(c) ==
  /\ call[c] = NoStorageCall
  /\ IF booting
     THEN Put(c, Begin("cors", 0)) /\ UNCHANGED started
     ELSE \E op \in CallOps \ {"cors"} :
            /\ \A d \in Callers : call[d].op # "cors"
            /\ op = "upload" => ~started
            /\ started' = (started \/ op = "upload")
            /\ Put(c, Begin(op, 0))
  /\ booting' = FALSE
  /\ UNCHANGED <<client, fresh, parts, versions, rules, configured, doubled>>

-----------------------------------------------------------------------------
(* Credentials *)

\* B2 answers 401 to the first request of a call.  deleteFiles swallows that
\* like any other error; the CORS call logs it.
Refused401(c) ==
  /\ call[c] # NoStorageCall /\ call[c].at = "send"
  /\ IF call[c].op \in {"download", "cors"} THEN ~fresh ELSE client = "expired"
  /\ IF call[c].op \in {"delete", "cors"} THEN Finish(c) ELSE GoOn(c, "authorize")
  /\ UNCHANGED <<clientVars, bucketVars>>

\* authorize replaces this.b2 by an instance that has no credentials yet.
Authorize(c) ==
  /\ call[c] # NoStorageCall /\ call[c].at = "authorize"
  /\ client' = c
  /\ GoOn(c, "authorizing")
  /\ UNCHANGED <<booting, fresh, configured, bucketVars>>

\* A faulty variant: the repeated listing goes on with the pages it has.
AuthorizedResuming(c) ==
  /\ call[c] # NoStorageCall /\ call[c].at = "authorizing"
  /\ client' = IF client = c THEN "valid" ELSE client
  /\ fresh' = TRUE
  /\ IF call[c].op = "health" THEN Finish(c)
     ELSE Put(c, [Begin(call[c].op, call[c].retries) EXCEPT !.got = call[c].got])
  /\ UNCHANGED <<booting, configured, bucketVars>>

\* The instance of c has its credentials, though another may be in place by
\* now; the call is repeated, except for the health check.
Authorized(c) ==
  /\ call[c] # NoStorageCall /\ call[c].at = "authorizing"
  /\ client' = IF client = c THEN "valid" ELSE client
  /\ fresh' = TRUE
  /\ IF call[c].op = "health" THEN Finish(c)
     ELSE Put(c, Begin(call[c].op, call[c].retries))
  /\ UNCHANGED <<booting, configured, bucketVars>>

\* The instance stays without credentials until a restart: what it is asked
\* fails without a 401.
AuthorizeFails(c) ==
  /\ call[c] # NoStorageCall /\ call[c].at = "authorizing"
  /\ Finish(c)
  /\ UNCHANGED <<clientVars, bucketVars>>

\* The call fails: no credentials, an error of B2 or a network failure that is
\* not retried.
CallFails(c) ==
  /\ call[c] # NoStorageCall /\ call[c].at \in {"send", "post", "delete", "update"}
  /\ Finish(c)
  /\ UNCHANGED <<clientVars, bucketVars>>

\* After a day the credentials expire.
CredentialsExpire ==
  /\ client' = IF client = "valid" THEN "expired" ELSE client
  /\ fresh' = FALSE
  /\ UNCHANGED <<booting, call, configured, bucketVars>>

Restart ==
  /\ client' \in {"valid"} \cup Callers
  /\ fresh' = (client' = "valid") /\ booting' = (client' = "valid")
  /\ call' = [c \in Callers |-> NoStorageCall]
  /\ configured' = FALSE
  /\ UNCHANGED bucketVars

-----------------------------------------------------------------------------
(* Calls *)

CallSucceeds(c) ==
  /\ \/ (Stands(c, "simple", "send") \/ Stands(c, "health", "send")) /\ client = "valid"
     \/ Stands(c, "download", "send") /\ fresh
     \/ Stands(c, "list", "done")
  /\ Finish(c)
  /\ UNCHANGED <<clientVars, bucketVars>>

\* uploadFile: getUploadUrl, then a POST to that URL.
UploadUrl(c) ==
  /\ Stands(c, "upload", "send") /\ client = "valid"
  /\ GoOn(c, "post")
  /\ UNCHANGED <<clientVars, bucketVars>>

\* A faulty variant: the loop of retries is not left after a success.
UploadStoredAgain(c) ==
  /\ Stands(c, "upload", "post")
  /\ versions' = versions + 1
  /\ IF call[c].retries < MaxRetries
     THEN Put(c, Begin("upload", call[c].retries + 1))
     ELSE Finish(c)
  /\ UNCHANGED <<clientVars, parts, rules, started, doubled>>

UploadStored(c) ==
  /\ Stands(c, "upload", "post")
  /\ versions' = versions + 1
  /\ Finish(c)
  /\ UNCHANGED <<clientVars, parts, rules, started, doubled>>

\* The text of the refusal of the POST has a 401 in it.
UploadTokenRefused(c) ==
  /\ Stands(c, "upload", "post")
  /\ GoOn(c, "authorize")
  /\ UNCHANGED <<clientVars, bucketVars>>

\* A faulty variant: a retry too many.
UploadRetriesLenient(c) ==
  /\ Stands(c, "upload", "send") \/ Stands(c, "upload", "post")
  /\ IF call[c].retries <= MaxRetries
     THEN Put(c, Begin("upload", call[c].retries + 1))
     ELSE Finish(c)
  /\ UNCHANGED <<clientVars, bucketVars>>

\* A network failure of either request or the time-out of the POST: it is
\* tried again, up to MaxRetries times.  B2 may have stored the object.
UploadRetries(c) ==
  /\ Stands(c, "upload", "send") \/ Stands(c, "upload", "post")
  /\ IF call[c].retries < MaxRetries
     THEN Put(c, Begin("upload", call[c].retries + 1))
     ELSE Finish(c)
  /\ \/ UNCHANGED <<versions, doubled>>
     \/ /\ Stands(c, "upload", "post") /\ versions < MaxVersions
        /\ versions' = versions + 1 /\ doubled' = TRUE
  /\ UNCHANGED <<clientVars, parts, rules, started>>

\* listParts: a page of the parts from the next part number on; its last page
\* has no next part number.
Page(from) ==
  {p \in parts : p >= from /\ Cardinality({q \in parts : from <= q /\ q < p}) < PageSize}
InOrder(S) ==
  [i \in 1 .. Cardinality(S) |->
     CHOOSE p \in S : Cardinality({q \in S : q < p}) = i - 1]

ListPage(c) ==
  /\ Stands(c, "list", "send") /\ client = "valid"
  /\ LET page == Page(call[c].from)
         rest == {p \in parts : p >= call[c].from} \ page
         got == call[c].got \o InOrder(page)
     IN IF rest = {} THEN Put(c, [call[c] EXCEPT !.got = got, !.at = "done"])
        ELSE Put(c, [call[c] EXCEPT !.got = got,
                                    !.from = CHOOSE p \in rest : \A q \in rest : p <= q])
  /\ UNCHANGED <<clientVars, bucketVars>>

\* deleteFiles: the newest version under the name, if there is one.
FindVersion(c) ==
  /\ Stands(c, "delete", "send") /\ client = "valid"
  /\ IF versions = 0 THEN Finish(c) ELSE GoOn(c, "delete")
  /\ UNCHANGED <<clientVars, bucketVars>>

DeleteVersion(c) ==
  /\ Stands(c, "delete", "delete") /\ client = "valid"
  /\ versions' = IF versions = 0 THEN 0 ELSE versions - 1
  /\ Finish(c)
  /\ UNCHANGED <<clientVars, parts, rules, started, doubled>>

\* ensureBucketCors: nothing to do when our rule is there; else the rules that
\* were read, with ours, replace those of the bucket.
ReadRules(c) ==
  /\ Stands(c, "cors", "send") /\ fresh
  /\ IF "ours" \in rules THEN configured' = TRUE /\ Finish(c)
     ELSE UNCHANGED configured /\ GoOn(c, "update")
  /\ UNCHANGED <<booting, client, fresh, bucketVars>>

UpdateRules(c) ==
  /\ Stands(c, "cors", "update") /\ fresh
  /\ rules' = rules \cup {"ours"}
  /\ configured' = TRUE
  /\ Finish(c)
  /\ UNCHANGED <<booting, client, fresh, parts, versions, started, doubled>>

\* A browser uploads a part.
PartArrives ==
  /\ \E p \in (1 .. MaxParts) \ parts : parts' = parts \cup {p}
  /\ UNCHANGED <<clientVars, call, versions, rules, started, doubled>>

CallStep(c) ==
  \/ StartCall(c) \/ Refused401(c) \/ Authorize(c) \/ Authorized(c)
  \/ AuthorizeFails(c) \/ CallFails(c) \/ CallSucceeds(c)
  \/ UploadUrl(c) \/ UploadStored(c) \/ UploadTokenRefused(c) \/ UploadRetries(c)
  \/ ListPage(c) \/ FindVersion(c) \/ DeleteVersion(c)
  \/ ReadRules(c) \/ UpdateRules(c)

StorageNext ==
  \/ \E c \in Callers : CallStep(c)
  \/ CredentialsExpire \/ Restart \/ PartArrives

StorageSpec == StorageInit /\ [][StorageNext]_storageVars

-----------------------------------------------------------------------------
(* Properties *)

\* "Used for resume reconciliation": a finished listing names every part that
\* was there when it began, in order and none twice, though parts arrive
\* between its pages and the credentials expire in the middle of it.
ListingExact ==
  \A c \in Callers : Stands(c, "list", "done") =>
    LET got == call[c].got IN
    /\ \A i, j \in DOMAIN got : i < j => got[i] < got[j]
    /\ call[c].saw \subseteq {got[i] : i \in DOMAIN got}
    /\ {got[i] : i \in DOMAIN got} \subseteq parts

\* An upload that is repeated, for a 401 or after a failure, stores its object
\* once, unless an answer got lost after B2 had stored it: deleteFiles deletes
\* one version, and a second one would stay.
RetryStoresOnce == versions > 1 => doubled

-----------------------------------------------------------------------------
(* What the proofs rest on.                                                  *)

\* One caller uploads the object, once; until it is over nothing is stored but
\* by a lost answer.
UploadOnce ==
  /\ \A c, d \in Callers : call[c].op = "upload" /\ call[d].op = "upload" => c = d
  /\ \A c \in Callers : call[c].op = "upload" => started /\ (~doubled => versions = 0)
  /\ ~started => versions = 0
  /\ RetryStoresOnce

\* What a listing has of the parts below the next part number.
ListingSoFar ==
  \A c \in Callers : Stands(c, "list", "send") =>
    LET got == call[c].got IN
    /\ \A i, j \in DOMAIN got : i < j => got[i] < got[j]
    /\ \A i \in DOMAIN got : got[i] < call[c].from /\ got[i] \in parts
    /\ call[c].saw \subseteq parts
    /\ \A p \in call[c].saw : p < call[c].from => \E i \in DOMAIN got : got[i] = p

StorageInv == StorageTypeOK /\ UploadOnce /\ ListingSoFar /\ ListingExact

=============================================================================
