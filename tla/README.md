# TLA+ specifications of aamenn-backend

aamenn-backend is a NestJS service for encrypted photo and document storage:
rows in Postgres (through TypeORM), objects at Backblaze B2, lists and short-lived
codes in Redis, card payments through Paymob, and transfers that an administrator
reviews. This directory holds TLA+ models of its core, TLC configurations that
check them on small instances, and proofs of their main invariants for the TLA+
proof system. Paths below are relative to `src/src/` of the repository.

The code has no lock, no transaction around its multi-step operations, and few
unique constraints. Node runs one callback at a time, so what can go wrong goes
wrong at an `await`: another request, another delivery of a webhook or a cron job
runs between two awaits of a handler, a call fails and the handler ends
half-way, or the process restarts. The models therefore all have the same shape:
a handler is one action per `await`, what it has read is kept in a variable of
its own, and it may fail and end at any of them (a constant `Failures` or an action
`...Fails`, `Abort...`).

## Inventory

| Component | State it keeps | Operations that change it | Correct when |
|---|---|---|---|
| Chunked uploads (`uploads`) | `upload_sessions` rows, the large file at B2, `files` rows | start, record a part, complete, cancel, poll, clean-up job | one file per upload, never without its object; recorded parts are not lost; abandoned sessions go |
| Files and copies (`files`, `shares.saveToAccount`) | `files` rows with `deleted_at`, objects at B2 | upload, save a shared file, update, trash, restore, delete for ever | a file in somebody's library has its object; no object stays without a row |
| Trash retention (`files/trash-cleanup`) | the same | nightly purge | what is past its retention goes |
| Folders (`folders`) | `folders` rows: parent, `deleted_at` | create, rename, move, trash, restore, delete for ever | a tree; a folder in the library is reachable |
| Card payments (`payments`) | `payments`, `subscriptions`, `users.storage_limit_gb` | checkout, renewal, webhook, hourly job | one live subscription, one activation per payment, the limit follows |
| InstaPay (`payments/instapay`) | `instapay_payments` and the same | submit, approve, reject, expire | one pending submission, one verdict |
| Account deletion (`users`, `admin`) | everything of a user | delete by the user, delete by an administrator | nothing of the user is left, nothing of others is lost |
| Sign-in (`auth`) | `refresh_tokens` | login, Google sign-in, refresh, logout, logout everywhere | a login has one live token; what was revoked stays revoked |
| Registration (`auth`, `signup-abuse`, `ip-lookup`, `signup-ip-limit.guard`) | `users`, `user_security`, a counter in Redis | register and its background tasks | no task undoes the other; the limit per address holds |
| One-time codes (`otp`) | two Redis keys per address and purpose | generate, verify | at most five attempts, single use |
| List cache (`cache`, `files.listFiles`) | Redis versions and lists | get, set, increment the version | a list served is one that was current |
| Vault password (`vault`, `users.controller`) | `users`, `user_security` | set up, change, reset | both rows change together |
| Object storage client (`storage/b2-storage`) | credentials, CORS flag; the bucket | upload, list parts, delete, health check, authorize | a retry stores once; a listing is complete |
| Controllers, guards, filter (`common`, `*.controller`) | none but the request | match a route, run its guards and pipes, answer | the right operation runs, for a caller entitled to it |
| Deduplication script (`scripts/deduplicate-b2-bucket`) | the bucket | list names page by page, delete older versions | the newest version of every name stays |
| Share links (`shares`) | `shares` rows | create, revoke, resolve, browse | a revoked or expired link opens nothing |
| Administration, contacts, feedback | single rows | single statements | - |
| Mail, Paymob client, thumbnails, migrations | none, or not at run time | - | - |

How they interact:

- `uploads.completeUpload`, `files` and `shares.saveToAccount` all insert `files`
  rows; `saveToAccount` makes a second row for the *same* object, so every
  deletion of an object has to know about the others' rows.
- `folders` trashes, restores and deletes the files of a subtree.
- `payments` and `instapay` both end in `activateSubscription`, which sets the
  limit that `uploads.startUpload` compares with.
- `auth`, `users.controller`, `admin` and the follow-ups of a registration all save
  entities of the same `users` row.
- `users.deleteAccount` and `admin.deleteUser` cut across all of them; the
  foreign keys (`ON DELETE CASCADE`, `SET NULL`) do part of the work.
- Three cron jobs (uploads every six hours, trash at 3 AM, subscriptions every
  hour) run beside the requests.

### What is hard

Interleavings at an await (two completions of an upload, two moves in the folder
tree, a reference count and a copy); entities that are saved long after they were
read (`repository.save` writes the stale columns back and even inserts a row that
has been deleted); failures between two awaits, and which retry or job repairs
them; webhooks that are delivered late, twice and in any order; jobs that must
finally get to everything. `PROJECT.json` lists each of them with its line.

### What is assumed of the libraries

TypeORM and B2 are modelled from how the code uses them:

- `save(entity)` writes the columns of the entity as the handler holds it, and
  inserts the row if it is missing (`SaveRow`, `SaveFolder`);
- `find`, `findOne` and `count` do not see rows with `deleted_at` set unless
  `withDeleted` is given;
- a single statement is atomic; two statements are not; the same holds of Redis commands;
- `folders.parent_folder_id` is `ON DELETE SET NULL`, `files.user_id` is
  `ON DELETE CASCADE`;
- B2 joins a large file once and only with all parts, and answers 400 or 404 for
  one it has finished or cancelled before; it may store an upload whose answer is lost;
- Redis forgets a key when its time to live has passed, at any moment between two
  commands; `INCR` on an absent key creates one that never expires.

## Modules

| Module | Models | What its variables are |
|---|---|---|
| `UploadSessions` | `uploads.service`, `upload-cleanup.service`, the large-file calls of `b2-storage.service` | `status`, `parts`, `old`: the row; `large`, `uploaded`: the large file at B2; `files`: `files` rows made; `pc`, `on`, `loaded`, `adding`: the handlers; `todo`, `stale`, `expiring`: the clean-up job; `settled`: history |
| `FileStore` | `files.service`, `shares.saveToAccount`, deletion of the files of a folder or an account, `trash-cleanup.service` | `row`, `path`: `files`; `objects`, `thumbs`: B2; `present`: `users`; `late`, `nightly`: retention; `pc`, `by`, `batch`, `source`, `unchecked`, `doomed`: the handlers; `condemned`, `crossed`, `mislaid`: history |
| `FolderTree` | every change of the tree in `folders.service` | `state`, `parent`: `folders`; `pc`, `on`, `into`, `loaded`: a handler and the entity it holds; `cur`, `depth`: the walk up; `queue`, `level`: the walk down |
| `Billing` | `payments.service`, `instapay.service`, `subscription.scheduler` | `pay`, `inst`, `sub`, `boughtBy`, `limit`: rows; `open`, `charged`: Paymob; `aged`, `stale`, `ended`, `lapsed`: time; `pc`, `job`, `list`: what is in flight; `approved`, `halfway`, `crossed`, `raced`: history |
| `ListCache` | `files.listFiles`, every handler that changes the library, `cache.service`, Redis | `rows`: `files`; `version`, `lists`: Redis; `healthy`, `failures`: the cache service; `pc`, `asked`, `ver`, `snap`, `changed`: the handlers; `doubtful`, `overtaken`, `sure`: history |
| `RegularList` | nothing of the code: what a client may rely on, implemented by `ListCache` | `rows`, `busy`, `asked`, `sure`, `answer` |
| `PaidStorage` | nothing of the code: what billing promises a user, implemented by `Billing` | `paid`, `granted`, `inForce`, `over`, `limit`, `whole` |
| `FolderLibrary` | nothing of the code: what the operations on folders promise, implemented by `FolderTree` when one request runs at a time | `state`, `parent`, `doomed` |
| `Accounts` | `register`, `googleLogin` and `setupUserSecurity`, change and reset of the vault password, profile and status, deletion of the rows, the IP lookup and the abuse check | `users`, `security`: rows; `age`: time since creation; `reset`: reset sessions; `req`: the requests in flight with the entities they hold; `lookup`, `abuse`: the follow-ups; `deleted`, `resolved`, `checked`, `stale`, `torn`: history |
| `RefreshTokens` | login, Google sign-in, refresh, logout, the revocations | `row`, `expired`: `refresh_tokens`; `exists`, `isActive`: the user; `await`, `presented`: the handlers; `origin`, `forked`, `cut`: history |
| `Otp` | `otp.service` | `code`, `attempts`, `expiry`: the Redis keys; `sending`, `at`, `guess`: the requests; `guesses`, `alone`, `spent`, `replay`: history |
| `SignupLimit` | `signup-ip-limit.guard` with the increment in `register` | `count`, `hasTtl`: the Redis key; `step`, `existed`: the registrations; `accounts`, `orderly`, `undying`: history |
| `Gateway` | all routes with their guards and pipes, the access token, the admin guard, the exception filter | `asked`, `request`: what the client wants and sends; `matched`, `todo`, `user`, `phase`, `status`: the request on its way |
| `StorageClient` | `b2-storage.service` | `client`, `fresh`, `configured`, `booting`: the service; `call`: the calls in progress; `parts`, `versions`, `rules`: B2; `started`, `doubled`: history |
| `Dedupe` | `scripts/deduplicate-b2-bucket` beside the application | `bucket`, `now`: B2; `scan`, `start`, `listed`, `doomed`, `execute`: the script; `removed`: history |
| `Services` | the seven modules above side by side | theirs, and `arena`: which of them takes steps |
| `MC...` | - | the values of the constants for TLC |
| `..._proofs` | - | theorems and their proofs |

Action names are those of the code's functions, one action per await:
`completeUpload` is `CompleteRead`, `CompleteFinish` or `CompleteRefused`,
`CompleteSaveFile`, `CompleteSaveSession`. An action reads what the code reads at
that point and nothing later; what was read before is in the handler's variables.
Each module has a section of *faulty variants*: mistakes this code could have made.
They are no part of `Next`; every property is tested by replacing an action by one
of them and seeing the property fail.

What is abstracted:

- *UploadSessions*: one user; sizes are small numbers; a part is a number. The
  thumbnails of an upload are not distinguished from its row. Old means that
  `updated_at` is more than 24 hours back.
- *FileStore*: content, small and medium thumbnail are one object, because every
  path of the code treats them alike; the large thumbnail has its own set,
  because one path does not. The batches of `emptyTrash` are sets of files. The
  handlers count references and delete objects in any order, as `Promise.all` does.
  The nightly purge is one step, since its query never returns a row.
- *FolderTree*: names are left out; one user, since the queries all have the owner
  in their condition. The `UPDATE` of the files of a trashed or restored subtree is
  `MoveToTrash` or `RestoreFiles` of `FileStore`, at any set of the user's files.
- *Accounts*: the columns that two handlers write, with the part of
  `authProviderId` behind the colon as a key; a password stands for its hash and for the
  key derived from it, so wrapping the master key with a password is storing that
  password. A request that is not in flight leaves nothing behind but rows, so requests
  are slots. Verification of codes and Google tokens comes before the first action.
- *RefreshTokens*: one account. A token is the number of its row. Expiry is a prefix of
  the tokens, since all live equally long. Every token is new: the code signs no `jti`,
  so two tokens of one user and one second are equal, which the model leaves out. *Otp*: one address and purpose; keys
  go when their time is over, and the eviction of one of them by a full Redis
  (`allkeys-lfu` in `docker-compose.yml`) is left out. *SignupLimit*:
  one address.
- *Gateway*: one request at a time, since it shares nothing with others. A path is a
  sequence of words and parameters; a handler is the name of its operation.
- *StorageClient*: one object name, one large file. A second version of the object is
  what a repeated upload may leave. *Dedupe*: names and times are numbers.
- *Billing*: one user, since no query mixes users but the job's, which treats each
  alone. Time is two facts per subscription and one per payment and submission. A
  provider that repeats, delays and reorders deliveries is `WebhookRead` being
  enabled at any time. The signature that the server verifies covers the outcome and the
  amount of a transaction and not the reference from which it takes the payment, so a
  delivery may name any payment that has a row; all that success says is that a payment
  of the same price was charged (`Covered`).

- *ListCache*: one user. A row is what a list sees of it: plain, favourite or gone.
  Folder and page are parts of the key as they are, so a filter stands for them; the
  total is not modelled. `Change` stands for every handler that commits one change of
  the `files` rows and then calls `incrementVersion` (uploads, updates, moves, trash,
  restoration, deletion), `SaveToAccount` for the one that does not call it.

`RegularList` is an abstract specification. It knows neither versions nor Redis: a
list must be right about every file whose last change was over (announced, or not
announced because Redis failed) before it was asked for and that does not change
meanwhile, and may say either about the others. `ListCache` implements it with `busy` the files with an
unannounced change and `answer` what a handler holds while it signs the URLs.

`PaidStorage` is the second. It knows no webhooks, reviews or jobs: money is received,
what was paid for is granted once and replaces what was in force, the limit is that of what
is in force, and it falls back to the free tier only when the time bought is over. `Billing`
does in several saves what it does in one step, and `Promise` maps one to the other: an
activation counts from its first save, which expires the subscription before it (`Granted`,
`InForce`, `PromisedLimit` show the state as the remaining saves will leave it), and a
downgrade from the save that marks the subscription as expired. Once a failure has hit
between such saves (`halfway`), or two handlers have worked on the same rows at a time
(`raced`, `crossed`), every step maps to `Fail`, after which `PaidStorage` promises less,
but still no subscription and no storage whose price was not received.

`FolderLibrary` is the third. Its operations move, trash, restore and delete a folder with
everything below it in one step, where `FolderTree` takes a query per level and a statement
per row. What is below a folder is defined without walking: what every set contains that
contains the folder and the subfolders of its members (`Below`). The state is the same in
both; `Doomed` is what a permanent deletion has collected and not deleted yet. Two things
show from outside: a restored folder is taken out of a parent in the trash before it is
restored (`Lift`), and a failure in the middle of a permanent deletion spares the rest (`BreakOff`).

## Runs

Each run answers one question. `Failures` is written F, the number of handlers in
flight R.

| Run | Bounds | Shows |
|---|---|---|
| `UploadRaces` | 1 session, 2 parts, R 2, F, fair | at most one file per upload and never without its object, under every interleaving of two handlers with the clean-up job; a settled part stays recorded through parallel reports and polls, and polling brings back the parts that parallel reports lost; abandoned sessions leave the active list; `RecordingInv` is an invariant |
| `FilesShared` | 2 users, 2 files, R 2, F, all calls | with copies and any overlap: a file keeps its object while nobody asks for the deletion of a row of that object; a copy keeps it through the deletions of others unless one of them `crossed` it; what is left at B2 without a row was `mislaid`; `SharedInv` is an invariant |
| `FoldersSerial` | 4 folders, depth 4, R 1, F, fair | no cycle, nothing active below the trash, every handler ends; `FolderTree` implements `FolderLibrary` |
| `BillingRaces` | 1 payment, 1 submission, 2 subscriptions, R 2, F | one activation per payment although deliveries repeat; the limit follows the subscription; a rejected transfer buys nothing; `Billing` implements `PaidStorage`; all under overlap, until two slots work on the same payment, transfer or pair of subscription and limit; `ApartInv` is an invariant |
| `BillingTakesBack` | 1 payment, 2 subscriptions, R 2, F, fair | storage that is not paid for any more is finally taken back |
| `ListsRegular` | 1 file, 1 filter, R 2, version up to 1, 2 failures until unhealthy, F, fair | a list is right about what did not change meanwhile; `ListCache` implements `RegularList`; wrong lists expire; `ListInv` is an invariant |
| `Services` | 2 concurrent requests, verifications, handlers, registrations or calls; 2 users, e-mails and passwords; 2 codes, 2 attempts; 3 tokens; 2 parts; 3 names | the seven components below, side by side; `ServicesInv`, the conjunction of their inductive invariants, is an invariant |
| `FilesFolderDelete` | 2 users, 2 files, R 1 | *violated*: deleting a folder for ever takes the object from another user's copy |
| `FilesDeletedReturns` | 2 users, 2 files, R 2 | *violated*: a row that was deleted for ever comes back with the save of `updateFile` |
| `FilesRetention` | 2 files, R 1, fair | *violated*: the nightly job never purges anything |
| `FoldersMoveRace` | 2 folders, R 2 | *violated*: two moves make a cycle |
| `BillingCrash` | 1 payment, F | *violated*: a failure after the payment was saved loses the subscription |

Why the bounds are enough to be interesting. Two handlers suffice for every race
listed: each is a read of one and a write of another in between. With two parts a
list can lose one and keep one. Two files are an original and its copy, in the
libraries of two users. Four folders give a chain of
three with a target beside it, so the walk up ends in every way it can, and the walk
down meets a tree with two levels and a branch. Two subscriptions (`Subs`) are two activations: a
renewal, or the one that repeated deliveries would add; `Room` stops an activation that
would need a third. Slots and subscription ids are symmetric in `BillingRaces`, requests
in `FilesShared`: no definition tells them apart but by equality. Two payments of one price, either
or both of which may be charged, were checked in an instance of their own with the properties of
`BillingRaces` (1.8 million states); batches of several files of one user, and a copy in a
third library, are left to the proofs. `MaxDepth`
is 50 in the code; in the runs it is at least the number of folders, so that the
walk is not cut short - what happens when it is, is under Known gaps.

In `ListsRegular` one file and the filter for favourites already
have a file move in and out of a list without being trashed; versions 0 and 1 give a
stale reader, a stale writer and, because Redis may forget its version, any number of
increments. That lists of several filters and changes of several files do not disturb
each other is proved.

Type invariants are not listed where the run checks an inductive invariant that
contains them.

`Services` checks seven components that share no state (`Otp`, `RefreshTokens`,
`Accounts`, `SignupLimit`, `Gateway`, `StorageClient`, `Dedupe`) in one run: `arena`
says which of them takes steps, the others stand still in an initial state. The states
are therefore the sum of theirs and not the product, and every behaviour of each is
among them. It shows:

- one-time codes: guesses stay within `MaxAttempts` while requests do not overlap
  (`GuessesBounded`); a code that was accepted is not accepted by a later request
  (`UsedCodeIsGone`);
- refresh tokens: one live token per login (`OneLivePerLogin`), revocation for good
  (`RevokedForGood`);
- accounts: the password hash and the wrapping of the master key agree
  (`CredentialsAgree`); two sign-ups from one device are both flagged
  (`SharedDeviceFlagged`, which excepts deleted, `stale` and `torn` accounts);
- the limit of sign-ups per address (`SignupLimitHolds`);
- routes: no route shadows another (`RightOperationRuns`); every operation has the guards
  its data needs (`CallerIsEntitled`);
- the client of B2: a listing interrupted by a 401 is complete and without repetitions
  (`ListingExact`); a repeated upload stores once (`RetryStoresOnce`);
- the script: the newest version of a name stays (`NewestKept`).

Several of these properties name exceptions, kept as history variables, where the code
does not hold them: `alone` and `orderly` (requests overlap), `forked` (two refreshes of
one token), `torn` (two changes of one account's credentials overlap, or one breaks off),
`stale` (an entity read before a change is saved after it), `doubled` (an upload whose
answer was lost), `undying` (a counter that lost its expiry), a version listed twice.
Each exception is as narrow as the counterexamples allow, is reached within the
bounds, and has its entry under Known gaps. Everything else overlaps freely.

The other modules name theirs in the same way, per object and not per run:

- `UploadSessions`: a part is `settled` when its report ended while no other report
  or poll of the session had a list waiting to be saved. Reports begin, overlap and end as they
  like before and after it.
- `FileStore`: an object is `crossed` when its deletion overlaps a copy of it, when a row
  of it becomes active again after the deletion of another was asked for, or when a
  folder or an account is deleted although another active row needs it, which those paths do
  not count. It is `mislaid` when a call that should have stored its row or deleted it failed,
  when the user's own account deletion leaves out its large thumbnail, when two deletions counted each other's rows, or when an account was deleted while
  rows it had not read were there.
- `Billing`: a payment or transfer is `crossed` when two slots work on it at a time;
  `raced` says that two slots were changing subscriptions and limit at a time; `halfway`
  that a failure ended a handler between two saves that belong together.

Two concurrent requests are each a read of one and a write of another in between. In
`Accounts` two requests (`MaxRequests`) already overlap with two IP lookups and two abuse
checks, which are not counted; three requests were checked as well, in a run of
its own that takes longer. Slots, users, e-mails and passwords are symmetric: no
definition compares or chooses among them but by equality. `CHECK_DEADLOCK FALSE` in this
run, because a component that has used up its bounds stops. It is on everywhere else:
`Waiting` lets the server idle only when nothing is in flight, so a handler that cannot go
on would be reported.

### Fairness

`FairSpec` of each module says only this:

- a handler that began goes on (`WF` of its steps): the event loop runs every
  settled await, and every call has a timeout;
- time passes (`GrowOld`, `RetentionPasses`, `PeriodEnds`, `GraceEnds`);
- the jobs are started again and again by the scheduler. In `UploadSessions` and
  `Billing` the steps of a job that depend on luck are strongly fair: every run reads
  afresh, so what failed is tried again, and a run that is repeated for ever
  gets through some time.

- what Redis stores expires (`Expire`), since `set` always gives a time to live.

`Services` assumes no fairness: it checks safety only.

No fairness is assumed of clients, of Paymob or of administrators, and none for
failures not to happen. `PollsHeal` assumes that the client polls again and again, in
its own premise. `StorageTakenBack` holds unless a failure falls between two saves that
belong together (`halfway`) or two slots change subscriptions and limit at a time (`raced`); what
happens then is under Known gaps and in `BillingCrash`.

## Proofs

`UploadSessions_proofs` proves, for every set of sessions, parts and handlers, that
`UploadInv` is an invariant, and from it type correctness, `OneFilePerUpload`,
`FileHasObject` and `CompletedHasFile`. The last three are not inductive alone: a second file
could be inserted from a state in which two handlers both stand after
`finishLargeFile`. `UploadInv` adds what rules this out: an id is started by one
handler before anything else exists (`StartedOnce`), everybody else works on an id
whose large file exists (`LargeFileFirst`), and whoever stands between the joining of
the parts and the saving of the session found the large file unfinished, so there is one
such handler and the file count agrees with where it stands (`JoinedOnce`). The
argument rests on B2 joining a large file once; no assumption is made about the
rows, which are stale half of the time.

`SettledPartsStay` is proved for any number of reports and polls in parallel, with
failures and the clean-up job at any time. A report may be of a part that B2 does not
have, because nobody asks; what is settled is the part of it that B2 holds. `RecordingInv`
adds that no part is reported before the row exists (`NewUntilInserted`), that B2 holds
every settled part, so that the list a poll takes from B2 lacks none
(`SettledIsUploaded`), and that every list on its way to an active row has the parts
settled so far (`SavesKeepSettled`). The last is where overlap matters: a part is settled
when no other list is on its way, and every list begun later starts from a row, or from
an answer of B2, that has it.

`FileStore_proofs` proves `SharedInv` for any users, files, copies, calls, overlaps and
failures, and from it `UncrossedRowHasObject`, `UntouchedRowHasObject` and
`NoLeakedObject`. Every row points to an object some upload has inserted a row for
(`KnownObjects`). Who saves a row saves a new one with its object in place, or the one it has read
with the object it had (`SavesKnownRow`). Deletions work on condemned rows only, and no
object is crossed before a row of it is condemned (`OnlyCondemnedDeleted`). The object of
a row that is not condemned is there, even when the row is in the trash, until
the deletion of another row takes it from a trashed one (`KeptUntilCondemned`): trashed
rows are not counted, so one that is restored later is crossed. Nobody deletes what is
being copied (`CopiesHaveObject`), and what a deletion dooms is needed by no active row that is not
condemned itself (`DoomedUnneeded`). For leaks, each object that was not
mislaid has an upload on its way to the row, or a row that no deletion has done with
(`ObjectsReachable`). That a deleted row does not come back is not true of the code
(`FilesDeletedReturns`).

`Billing_proofs` proves everything for any number of payments, submissions, slots and
failures. The first invariant is `BillingInv`: every subscription and every limit above the free
tier goes back to an amount that was received or an approval (`SubscriptionsCovered`), and so does every
handler on its way to an activation (`JobsCovered`); every successful payment has its
subscription, a handler on its way to it, or was cut off half-way
(`SuccessAccountedFor`); the job has only read subscriptions that exist (`ListedExist`).
`PaidIsActivatedIfWhole` follows from it.

`UncrossedActivatedOnce`, `LimitMatches` and `RejectedIsUnpaid` follow from `ApartInv`. Two
overlapping deliveries of one payment do activate two subscriptions, and an activation that
overlaps the job may lose its limit, so each part of the invariant
speaks of a payment or transfer that is not `crossed`, or of subscriptions and limit before
they were `raced`; everything else may be in any disorder meanwhile. `SlotsApart` says that the history
variables mean this. What the job has listed is as it was when it acts on
it, and no subscription is live while one is being activated or taken away
(`ListedAsRead`); a payment with a subscription is recorded as successful, so that no
delivery begins again (`ProcessedOnce`); a transfer with a subscription is approved or its
handler is on the way to say so (`VerdictOnce`); the limit is out of step only between the
two saves that change it (`LimitFollows`).

`StorageIsPaidFor` is `Spec => KeepsPromise`, the refinement of `PaidStorage`, without
assumptions. Most steps stutter. A charge by Paymob or an approval is `Receive`,
`ActivateExpire` is `Grant`, `JobExpire` is `Lapse`; the saves after them change the
rows and not what `Promise` shows of them, because `ProcessedOnce`, `VerdictOnce` and
`LimitFollows` say how far along the handler is (`SamePromise`, `SameView`). That a lapse comes
from time that is over is `InTime`: what the job is about to take away has passed its grace
period, although the job read it some awaits before. A step that tears something apart, and
every step after it, is `Fail`; what `Fail` still promises is `SubscriptionsCovered`.

`ListCache_proofs` proves `ListInv` and the refinement `Spec => Regular!Spec`, for any
files, filters and requests. What a request is given must be right about the files it
is sure of (`AnswersRight`); this needs that nothing is stored, or on its way, under a
version still to come (`NotAhead`), that what is stored or on its way under the
current version is wrong about unannounced changes only (`CurrentRight`), and that the
same holds of the version a reader holds, as long as it may still be given a list of
it (`ReadersRight`). The order of the awaits carries the proof: changes commit before
they increment, readers read the version before the rows. `FiltersAssumption` says
that no two filters share a key; where they do, see Known gaps.

`FolderTree_proofs` proves `TypeCorrect` without any assumption, and the rest for one request
at a time (`OneRequest`; with two, `FoldersMoveRace` has a cycle), wherever requests
fail. `ActiveUnderActive` follows from `SerialInv`: the entity a handler holds is as the
database has it (`EntityAsRead`); an active folder below one the walk down has visited
has been collected, unless its parent is still in the queue, and what is restored has its
parent in the same subtree (`SubtreeClosed`). `Acyclic` needs the walk up of
`moveFolderToFolder` to be complete: what it has passed is a chain that begins at the
target, as long as `depth` says, without the folder that is moved (`Walked`), and no
trashed folder ends it early, because the ancestors of an active folder are active
(`WalkComplete`). The code gives up after `MaxDepth` levels and then allows the move, so
`TreeInv` is proved for steps that begin in a tree without a chain of more than
`MaxDepth` folders (`NoDeeperThanWalk`); with `MaxDepth` 1, TLC finds the cycle that the
assumption excludes. `SmallTreeInvariant` has no such assumption: a user with at most
`MaxDepth` folders never has a cycle from one request after the other.

With the assumption `NoDeeperThanWalk`, `OperationsReachSubtrees` is proved, the refinement `Spec =>
KeepsLibrary`. The last statement of a handler is the step of `FolderLibrary`, the ones
before it stutter. When the walk down has ended, what it has collected contains the folder
and all subfolders it can see of what it contains, and of everything collected but the folder itself the parent is
collected (`SubtreeExact`). In a tree without a cycle that is exactly `Below`
(`SubtreeIsBelow`); with a cycle the walk would not end. That a folder does not go below
itself is the walk up once more: what it has passed is not below the folder
that moves (`WalkedIsNotBelow`).

`Storage_proofs` is about the client of B2 and the script. `ListingExact` is proved for any
page size and any number of parts, callers and interruptions: on the way, a listing has
each part that it saw at its beginning and whose number lies below the next page, in order
(`ListingSoFar`). The lemmas before it say what a page is: the parts of lowest rank
from a number on, in order, so that none lies between two pages. `RetryStoresOnce` follows
from `UploadOnce`: one caller uploads, and until it has its answer nothing is
stored but by an upload whose answer was lost. For the script, names are listed in order
and only the last one can come again, on the next page (`ListedInOrder`), and nothing is
deleted but what repeats an earlier entry (`OnlyDuplicates`); so `NewestKept` holds for any
bucket, page length, and uploads and deletions meanwhile. The versions it excepts are those
listed twice; the theorem has the same exception.

`Services_proofs` is about one-time codes, refresh tokens, the limit of sign-ups and the
gateway. It proves `OtpInv`, and from it `GuessesBounded` and `UsedCodeIsGone`, for any
number of verifications, attempts and codes. A code that was accepted is not stored and
will not be, since a code is stored once (`CodesInOrder`, `SpentNotStored`); as long as
nothing overlaps, every guess has been counted before it is compared, and the counter
belongs to the stored code and expires after it (`Counted`).

It proves `TokensInv`, and from it `OneLivePerLogin` and `RevokedForGood`. One live token is not inductive: a refresh that has revoked its token and
not yet inserted the successor must be the only one of its login. `LastOfLogin` says that
only the last token of a login is live or being refreshed, and by one request;
`RevokedBeforeInsert` that whoever is about to insert has revoked. Logins with two
refreshes of one token (`forked`) are left out.

It proves `LimitInv` for every limit: with no overlap the counter lacks at
most the account that was made last (`CountedOnce`).

It proves `GatewayInv`, and from it `RightOperationRuns` and `CallerIsEntitled`. The first is
a fact about the table of routes: no route takes the requests that a client makes for a
later one (`WholeTable`). For two routes of one controller this is shown row by row: they
differ in the method, in the number of segments, or in a segment where the earlier one has
a word (`Apart`). Routes of different controllers differ in the first segment, and the
lemmas about joining two parts of the table (`PartsJoined`, `ControllersJoined`) put the
controllers together, in whatever order `AppModule` registers them. Behind it stands that the router finds
the route that was wanted (`RouteFound`). For the second, `GuardsInOrder` says that what is
left of the guards is the end of the list of the route and that the ones before have passed:
behind `JwtAuthGuard` the user is what the token says, and behind `AdminGuard` an
administrator. Every route that works on the data of all has `AdminGuard`, and every route
that works on the caller's own data is not public (`AllGuarded`).

`ServicesCorrect` puts the seven components together: a step of `Services` is a step of one
of them and leaves the others alone (`StepOfEach`), so each keeps its inductive invariant,
and `ServicesInv` holds for all values of all their constants.

`Accounts_proofs` proves `AccountsInv`, and from it `CredentialsAgree`, for any number of
users, requests and follow-ups. Between the change of one row and of the other, the
two disagree, and the request that changes them has the password in hand: `RowsAgree`
relates the three at each of its awaits. It needs that this request is the only one
(`OneChange`), that no entity with an older hash will be saved (`HeldIsCurrent`), that a
deleted account does not come back (`DeletedIsGone`) and leaves no security row
(`NoOrphans`).

On `AccountsInv` rests `SignupInv`, and from it `SharedDeviceFlagged`, for any number of
users, devices, requests and checks. That both of two accounts are flagged is a
relation of two checks that run beside each other: one must find the other's row. At every
moment, of two accounts with one fingerprint, both are flagged or resolved, or the check
of one has still to look or has found the other (`SharedFound`). A new check therefore may
begin before or after the other has looked, but must look for the fingerprint that the row
has and keeps (`ChecksKnow`), and no flag may be undone by a save of an older entity
(`HeldSignup`). The row keeps its fingerprint because an account signs up once
(`SignsUpOnce`): `register` saves the metadata after it has inserted the security row, a
later `register` finds that row, and only a deletion removes it. The proof is where the
exemption of `torn` accounts comes from. TLC finds nothing with the bounds of `Services`,
but the invariant could not be proved without it, and with four requests and two devices
there is a counterexample of 23 steps: a deletion that breaks off after the security row
lets its account sign up again, from another device, after the check of the first.

The constants are assumed to be what the `ASSUME`s of their modules say: bounds are
natural numbers, `Nothing`, `NoFile` and the like are none of the values they stand
beside, a page of the script has room for two names.

Only model-checked is everything under fairness (`AbandonedSessionsExpire`, `PollsHeal`, `HandlersEnd`,
`StorageTakenBack`, `StaleListsExpire`), since liveness is out of the proof system's reach.
Every invariant and refinement of a passing run is stated by a theorem; `Acyclic` is a
part of `SmallTreeInvariant`. `TreeInv` is no property of a run; its runs check what follows
from it.

## Known gaps of the code

Five disagreements between the code and what it says of itself have a run of
their own (the last five of the table). The same models reach more of them; each was
seen as a counterexample of the property named while the models were written, and
most are an interleaving or a failure away from a run above:

- *Part reports in parallel.* Two reports both read the list and both write it, and
  one part is lost (`uploads.service.ts:148-156`) until the next poll (`PollsHeal`).
  `SettledPartsStay` without the condition on other lists fails.
- *Parts nobody has.* A report is believed without a look at B2
  (`uploads.service.ts:135-151`).
- *A finished upload listed as pending.* A poll or part report that overlaps a
  completion saves its stale row over `completed` (`uploads.service.ts:315`).
- *Quota.* Sessions under way are not counted (`uploads.service.ts:45-51`), so two
  uploads begun below the limit exceed it together.
- *A dead branch.* The poll tests for "404" in an error that `listParts` has replaced
  by "Failed to list file parts" (`b2-storage.service.ts:599`), so a session whose
  upload is gone stays active until it is old.
- *Orphans at B2.* A failure between `startLargeFile` and the insert leaves a large
  file no row knows of; `listUnfinishedLargeFiles` has no caller.
- *Copies.* `saveToAccount` may insert its row after the owner's deletion has counted
  references; a trashed copy is not counted and can be restored; two rows of one
  object deleted at the same time each see the other, and the object stays.
- *Update after deletion.* `updateFile` saves the entity it read; a row deleted in
  between is inserted again, without an object (`FilesDeletedReturns`), and one trashed in
  between is taken out of the trash.
- *Account deletion.* The list of paths in `users.service.ts:266-268` lacks the large
  thumbnail.
- *Depth.* The walk up gives up after 50 levels and then allows the move.
- *Trash.* A folder created in or moved into a subtree while it is being trashed
  stays active below it.
- *Order of deletion.* `folders.service.ts:339` reverses a list whose last
  element is the folder itself, so the folder goes first and `SET NULL` puts its
  children at the root until their turn.
- *Webhooks.* Two overlapping deliveries both activate a subscription: without the
  exemption of `crossed`, `UncrossedActivatedOnce` fails with two slots. The signature does
  not cover the reference to the payment (`paymob.service.ts:156-177`,
  `payments.service.ts:182-191`), so that billing only knows that the price was received, not
  that it was for this payment.
- *Downgrade.* The job lowers the limit of a user who has just paid again; after a
  failure between the two saves no later run takes the storage back.
- *Lists.* `favorite || 0` (`files.service.ts:474`) stores the list of the files that
  are no favourites under the key of the list of all files, so within thirty seconds one
  is served as the other. A file saved from a share increments no version and is
  missing from lists until they expire. After `MAX_FAILURES` failures over any length of
  time the cache stays off until the connection is made again, since a success does not
  reset the count.
- *Overtaken saves.* The IP lookup of a registration answers up to seconds later and
  saves the user it was given (`auth.service.ts:148`): an abuse block that came in between
  is undone, and an account deleted in between is inserted again, although
  `users.controller.ts:216-218` calls the deletion irreversible. Profile, status and
  Google sign-in save entities in the same way, over shorter times.
- *Torn credentials.* A password change that fails between its two rows leaves a
  password that does not open the vault (`users.controller.ts:402`); so do two changes at
  the same time, and a `register` for an account that is being deleted, which may wrap the
  key with another password. A deletion that fails after the security row leaves an
  account that can sign up again from another device, which the abuse checks of others
  then find under the new fingerprint only. `changeVaultPassword` compares no current password for
  Google accounts.
- *Refresh tokens.* Two refreshes with one token both issue a successor
  (`auth.service.ts:296`), and a refresh in flight survives a revocation of all tokens.
  The lifetime in seconds is added as milliseconds (`auth.service.ts:348-351`).
  `googleLogin` does not look at `isActive`. `logout` and `logoutAll` have no caller.
- *One-time codes.* Overlapping verifications read the counter before each other's
  `INCR`; a code whose counter was not set, because the command failed, gets the counter
  of the code before it or one without expiry.
- *Sign-up limit.* Overlapping registrations pass the guard together; a failure after
  `INCR`, or an expiry between `EXISTS` and `INCR`, leaves a counter that refuses the
  address for good.
- *Object storage.* A call refused with 401 authorizes and repeats itself as often as it is
  refused, not once; `deleteFiles` logs a 401 as it logs every failure; a failed
  authorization leaves a client without credentials until the next 401. An
  upload whose answer was lost leaves a version that `deleteFiles` does not delete.
- *Deduplication.* The next page begins with the last name of the page before
  (`deduplicate-b2-bucket.ts:111`), so the version there is listed twice and, if it is the
  only one, deleted as its own duplicate.
- *Answers.* Errors of the admin service are plain `Error`s and are answered with 500
  where the controller documents 403 and 404. `AuthThrottleGuard` has the same limit as
  the global one. A deactivated or deleted user's access token is good until it expires.
- *Batches.* `getFilesBatch` leaves out files without a thumbnail.
- *Declined payments.* A declined attempt that was read before a successful one was saved
  overwrites the payment's status with failed (`payments.service.ts:235`).
- *Reviews.* Two submissions may be pending, and two administrators may give one
  submission two verdicts.

## Not modelled

- Reads that change nothing: listings other than the cached one, downloads, statistics,
  search, browsing of shares. Their routes and guards are in `Gateway`.
- Single statements without a second step: contacts, feedback, creation and revocation of
  share links, plans and limits set by an administrator, the download log, avatars.
- Mail, image processing, the HTTP client of Paymob: they keep no state. What Paymob does
  to the server is the environment of `Billing`.
- The counters of the throttlers and the validation of request bodies, done by
  libraries; migrations, seeds and `clear-database`, run by hand on a stopped system; the
  tables for Drive transfers, which no code uses.
- The arithmetic of the trash retention, token lifetimes and subscription periods: time is
  the facts that the code compares.
- The foreign keys that delete sessions, folders and payments with their user.

Encryption and random codes are taken as given: a code is new, a hash stands
for its password, an access token says who its bearer is.

## Plan

Done, in this order: `UploadSessions` (the longest protocol, with an outside party),
`FileStore` (shared objects), `FolderTree`, `Billing`, `ListCache`; then
`Accounts`, `RefreshTokens`, `Otp`, `SignupLimit`, `StorageClient`, `Gateway`, `Dedupe`.
Then the proofs: the inductive invariants of every component that interleaves, the refinements of `RegularList`,
`PaidStorage` and `FolderLibrary`, the tree of `FolderTree`, the pages of `StorageClient` and
`Dedupe`, the abuse checks of `Accounts`, the routes of `Gateway`, and `Services`.

Next, in this order:

1. a composition of `UploadSessions`, `FileStore` and `Billing` over the quota, and of
   `Accounts`, `FileStore` and `RefreshTokens` over the deletion of an account;
2. `ShareLinks`: creation, expiry and revocation beside browsing and `saveToAccount`;
3. an abstract file store, in which an object lives as long as a row needs it, implemented
   by `FileStore` as long as nothing is `crossed`.
