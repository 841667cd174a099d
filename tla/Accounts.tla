------------------------------- MODULE Accounts -------------------------------
(***************************************************************************)
(* User rows and their security rows: registration and its follow-ups (the  *)
(* lookup of the IP and the abuse check), Google sign-in, the changes of    *)
(* the vault password, profile and administration, deletion                 *)
(* (auth.service.ts, users.service.ts, users.controller.ts,                 *)
(* signup-abuse.service.ts, ip-lookup.service.ts, admin.service.ts).        *)
(*                                                                         *)
(* Many handlers read a user entity, change a field and save the entity.    *)
(* repository.save writes every column of the entity that differs from the  *)
(* row as it is by then, and inserts the row when it has been deleted, so a *)
(* handler that is overtaken undoes what others did.                        *)
(***************************************************************************)
EXTENDS Naturals, FiniteSets

CONSTANTS
  Users,        \* row ids; one is handed out once
  Emails,
  Passwords,
  Devices,      \* deviceFingerprint values
  Subnets,      \* /24 subnets signups come from
  Slots,        \* requests that may be in flight at the same time
  MaxRequests,  \* bound: the requests that arrive
  Nothing

ASSUME MaxRequestsAssumption == MaxRequests \in Nat
ASSUME NothingAssumption ==
  Nothing \notin Users \cup Emails \cup Passwords \cup Devices

\* The columns of users the handlers read or write.  The authProviderId is
\* "local:<email>" or "google:<sub>"; key stands for what follows the colon.
Row == [email : Emails, provider : {"local", "google"}, key : Emails,
        passwordHash : Passwords \cup {Nothing}, isActive : BOOLEAN,
        signupFlagged : BOOLEAN, signupFingerprint : Devices \cup {Nothing},
        signupIp : Subnets \cup {Nothing}]
NoRow == [email |-> Nothing]

\* A request in flight: the await it stands at, its handler, the user it works
\* on, the entity it holds and will save, and what it was called with, as far
\* as that is used after an await.
Kinds == {"register", "google", "setup", "change", "reset", "profile", "status",
          "resolve", "delete"}
AccountAwaits == {"find", "insert", "security.find", "security.save", "meta",
                  "hash", "wrap", "consume", "save", "security.delete",
                  "user.delete"}
Request == [at : AccountAwaits, kind : Kinds, user : Users \cup {Nothing},
            entity : Row \cup {NoRow}, password : Passwords \cup {Nothing}]
NoRequest == [at |-> "idle"]

\* An abuse check: the signup it was called for and the other signups found;
\* near: one of them is of the same subnet and of the last hour.
Check == [user : Users, at : {"match", "flag", "block"}, device : Devices,
          subnet : Subnets \cup {Nothing}, others : SUBSET Users, near : BOOLEAN]

VARIABLES
  users,     \* users[u]: the row, or NoRow
  security,  \* security[u]: the password whose KEK wraps the master key, or Nothing
  age,       \* age[u]: time since created_at: "hour", "month" or "older"
  reset,     \* users with an open vault-reset session
  req,       \* req[s]: the request in slot s
  lookup,    \* lookup[u]: the entities held by IP lookups for signups of u
  abuse,     \* the abuse checks in progress
  arrived,   \* the number of requests so far
  deleted,   \* users that were deleted (history)
  resolved,  \* users an administrator unflagged since they were last flagged
             \* (history)
  checked,   \* users whose abuse check has ended normally (history)
  stale,     \* users changed while another handler held an entity read before
             \* the change (history)
  torn       \* users two changes of the credentials overlapped on, or one broke
             \* off on half-way; a deletion is such a change (history)

followUpVars == <<lookup, abuse>>
historyVars == <<deleted, resolved, checked, stale, torn>>
accountVars == <<users, security, age, reset, req, followUpVars, arrived,
                 historyVars>>

AccountsTypeOK ==
  /\ users \in [Users -> Row \cup {NoRow}]
  /\ security \in [Users -> Passwords \cup {Nothing}]
  /\ age \in [Users -> {"hour", "month", "older"}]
  /\ reset \subseteq Users
  /\ req \in [Slots -> Request \cup {NoRequest}]
  /\ lookup \in [Users -> SUBSET Row]
  /\ abuse \subseteq Check
  /\ arrived \in Nat /\ arrived <= MaxRequests
  /\ deleted \subseteq Users /\ resolved \subseteq Users /\ checked \subseteq Users
  /\ stale \subseteq Users /\ torn \subseteq Users

Exists(u) == users[u] # NoRow

\* A local account of e with password p, and a Google account.
LocalRow(e, p) ==
  [email |-> e, provider |-> "local", key |-> e, passwordHash |-> p,
   isActive |-> TRUE, signupFlagged |-> FALSE,
   signupFingerprint |-> Nothing, signupIp |-> Nothing]
GoogleRow(e, sub) ==
  [LocalRow(e, Nothing) EXCEPT !.provider = "google", !.key = sub]

\* The database is empty or holds one account with its security row.
AccountsInit ==
  /\ \E first \in {NoRow} \cup {LocalRow(e, p) : e \in Emails, p \in Passwords}
                  \cup {GoogleRow(e, e) : e \in Emails} :
       \E u \in Users, p \in Passwords :
         /\ users = [v \in Users |-> IF v = u THEN first ELSE NoRow]
         /\ first # NoRow => first.passwordHash \in {p, Nothing}
         /\ security = [v \in Users |-> IF v = u /\ first # NoRow THEN p ELSE Nothing]
  /\ age = [u \in Users |-> "hour"]
  /\ reset = {}
  /\ req = [s \in Slots |-> NoRequest]
  /\ lookup = [u \in Users |-> {}]
  /\ abuse = {}
  /\ arrived = 0
  /\ deleted = {} /\ resolved = {} /\ checked = {} /\ stale = {} /\ torn = {}

-----------------------------------------------------------------------------
(* Helpers *)

Idle(s) == req[s] = NoRequest
Working(s, u) == ~Idle(s) /\ req[s].user = u

Arrive(s, r) ==
  /\ Idle(s) /\ arrived < MaxRequests
  /\ arrived' = arrived + 1
  /\ req' = [req EXCEPT ![s] = r]
Call(a, k, u, e, p) ==
  [at |-> a, kind |-> k, user |-> u, entity |-> e, password |-> p]
At(s, a) == ~Idle(s) /\ req[s].at = a
Await(s, a) == req' = [req EXCEPT ![s].at = a]
Answer(s) == req' = [req EXCEPT ![s] = NoRequest]

\* A row of S is changed by none of the requests in R: those that hold an
\* entity of it, and the lookups that do, hold an old one.
Holding(R, u) ==
  \/ lookup[u] # {}
  \/ \E r \in R : Working(r, u) /\ req[r].entity # NoRow
Overtake(R, S) == stale' = stale \cup {u \in S : Holding(R, u)}
Others(s) == Slots \ {s}

\* A change of the two rows that depend on the password of u begins in s: it is
\* set, changed, or deleted with the account.
Credentials == {"security.find", "security.save", "hash", "wrap",
                "security.delete", "user.delete"}
Contend(s, u) ==
  torn' = IF \E r \in Others(s) : Working(r, u) /\ req[r].at \in Credentials
          THEN torn \cup {u} ELSE torn

\* The unique columns email and auth_provider_id.
Refused(u, e) ==
  \E v \in Users \ {u} :
    /\ Exists(v)
    /\ \/ users[v].email = e.email
       \/ users[v].provider = e.provider /\ users[v].key = e.key

\* repository.save of a user entity
SaveUser(u, e) ==
  users' = IF Refused(u, e) THEN users ELSE [users EXCEPT ![u] = e]

\* The first two lookups of findOrCreate: by auth_provider_id, then by e-mail.
Known(e) ==
  LET byKey == {u \in Users : Exists(u) /\ users[u].provider = e.provider
                                       /\ users[u].key = e.key}
  IN IF byKey # {} THEN byKey ELSE {u \in Users : users[u].email = e.email}

Unused(u) ==
  /\ ~Exists(u) /\ u \notin deleted
  /\ \A s \in Slots : ~Working(s, u)

-----------------------------------------------------------------------------
(* register, googleLogin and setupUserSecurity                              *)

\* register, after verifyOtp, when findUser has not found the e-mail.
Register(s, e, p, d, n) ==
  /\ \A u \in Users : users[u].email # e
  /\ Arrive(s, Call("find", "register", Nothing,
                    [LocalRow(e, p) EXCEPT !.signupFingerprint = d, !.signupIp = n],
                    p))
  /\ UNCHANGED <<users, security, age, reset, followUpVars, historyVars>>

\* googleLogin with a token of Google account sub, whose e-mail now is e.
GoogleSignIn(s, e, sub) ==
  /\ Arrive(s, Call("find", "google", Nothing, GoogleRow(e, sub), Nothing))
  /\ UNCHANGED <<users, security, age, reset, followUpVars, historyVars>>

\* findOrCreate finds the account: register goes on with it, a sign-in saves
\* it if the e-mail has changed at the provider.
FindAccount(s) ==
  /\ At(s, "find")
  /\ LET new == req[s].entity IN
     IF Known(new) = {} THEN Await(s, "insert") /\ UNCHANGED torn
     ELSE \E u \in Known(new) :
       IF req[s].kind = "register"
       THEN /\ req' = [req EXCEPT ![s].at = "security.find", ![s].user = u,
                 ![s].entity = [users[u] EXCEPT !.signupIp = new.signupIp,
                   !.signupFingerprint = new.signupFingerprint]]
            /\ Contend(s, u)
       ELSE /\ IF users[u].email = new.email THEN Answer(s)
               ELSE req' = [req EXCEPT ![s].at = "save", ![s].user = u,
                              ![s].entity = [users[u] EXCEPT !.email = new.email]]
            /\ UNCHANGED torn
  /\ UNCHANGED <<users, security, age, reset, followUpVars, arrived, deleted,
                 resolved, checked, stale>>

\* findOrCreate inserts the account; a unique column may refuse it.
InsertAccount(s) ==
  /\ At(s, "insert")
  /\ \E u \in Users :
       /\ Unused(u)
       /\ IF Refused(u, req[s].entity) THEN Answer(s) /\ UNCHANGED users
          ELSE /\ users' = [users EXCEPT ![u] =
                     [req[s].entity EXCEPT !.signupIp = Nothing,
                                           !.signupFingerprint = Nothing]]
               /\ IF req[s].kind = "google" THEN Answer(s)
                  ELSE req' = [req EXCEPT ![s].at = "security.find", ![s].user = u]
  /\ UNCHANGED <<security, age, reset, followUpVars, arrived, historyVars>>

\* users.controller setupUserSecurity.  The client of a local account wraps
\* the key with the password it signs in with.  The access token outlives the
\* account.
SetupSecurity(s, u, p) ==
  /\ Exists(u) \/ u \in deleted
  /\ Exists(u) => users[u].passwordHash \in {p, Nothing}
  /\ security[u] = Nothing
  /\ Arrive(s, Call("security.find", "setup", u, NoRow, p))
  /\ Contend(s, u)
  /\ UNCHANGED <<users, security, age, reset, followUpVars, deleted,
                 resolved, checked, stale>>

FindSecurity(s) ==
  /\ At(s, "security.find")
  /\ IF security[req[s].user] = Nothing THEN Await(s, "security.save")
     ELSE Answer(s)
  /\ UNCHANGED <<users, security, age, reset, followUpVars, arrived, historyVars>>

\* The row has the user's id as its key: save inserts it or overwrites it.
SaveSecurity(s) ==
  /\ At(s, "security.save")
  /\ LET u == req[s].user IN
     IF Exists(u)
     THEN /\ security' = [security EXCEPT ![u] = req[s].password]
          /\ IF req[s].kind = "register" THEN Await(s, "meta") ELSE Answer(s)
     ELSE Answer(s) /\ UNCHANGED security
  /\ UNCHANGED <<users, age, reset, followUpVars, arrived, historyVars>>

\* The signup metadata is saved and, unless that fails, the follow-ups start: the
\* IP lookup, which keeps the entity, and the abuse check of a known device.
SaveSignup(s) ==
  /\ At(s, "meta")
  /\ LET u == req[s].user
         e == req[s].entity
     IN /\ SaveUser(u, e)
        /\ IF Refused(u, e) THEN UNCHANGED <<followUpVars, stale>>
           ELSE /\ Overtake(Others(s), {u})
                /\ lookup' = [lookup EXCEPT ![u] = @ \cup {e}]
                /\ abuse' = abuse \cup
                     {[user |-> u, at |-> "match", device |-> d,
                       subnet |-> e.signupIp, others |-> {}, near |-> FALSE] :
                        d \in {e.signupFingerprint} \ {Nothing}}
  /\ Answer(s)
  /\ UNCHANGED <<security, age, reset, arrived, deleted, resolved, checked, torn>>

-----------------------------------------------------------------------------
(* The password and the wrapping of the master key                          *)

\* A faulty variant: the new password only wraps the key.
FirstStepWrap(u) == "wrap"

\* Both changes first replace the hash of a local account.
FirstStep(u) == IF users[u].provider = "local" THEN "hash" ELSE "wrap"

\* changeVaultPassword; the current password is right.
ChangePassword(s, u, p) ==
  /\ Exists(u)
  /\ Arrive(s, Call(FirstStep(u), "change", u, NoRow, p))
  /\ Contend(s, u)
  /\ UNCHANGED <<users, security, age, reset, followUpVars, deleted, resolved,
                 checked, stale>>

\* vaultResetRequest and vaultResetVerify: the owner of an account with a
\* recovery key proves the e-mail and gets a session; it expires.
OpenReset(u) ==
  /\ Exists(u) /\ security[u] # Nothing
  /\ reset' = reset \cup {u}
  /\ UNCHANGED <<users, security, age, req, followUpVars, arrived, historyVars>>
ExpireReset(u) ==
  /\ u \in reset
  /\ reset' = reset \ {u}
  /\ UNCHANGED <<users, security, age, req, followUpVars, arrived, historyVars>>

\* vaultResetComplete
CompleteReset(s, u, p) ==
  /\ u \in reset /\ Exists(u)
  /\ Arrive(s, Call(FirstStep(u), "reset", u, NoRow, p))
  /\ Contend(s, u)
  /\ UNCHANGED <<users, security, age, reset, followUpVars, deleted, resolved,
                 checked, stale>>

\* updatePasswordHash is an UPDATE: no row, no change.
Hash(s) ==
  /\ At(s, "hash")
  /\ LET u == req[s].user IN
     /\ users' = IF Exists(u)
                 THEN [users EXCEPT ![u].passwordHash = req[s].password]
                 ELSE users
     /\ Overtake(Others(s), {u})
  /\ Await(s, "wrap")
  /\ UNCHANGED <<security, age, reset, followUpVars, arrived, deleted, resolved,
                 checked, torn>>

\* updateSecurityParams; a reset then revokes the refresh tokens and goes on
\* to consume its session.
Wrap(s) ==
  /\ At(s, "wrap")
  /\ LET u == req[s].user IN
     IF security[u] = Nothing THEN Answer(s) /\ UNCHANGED security
     ELSE /\ security' = [security EXCEPT ![u] = req[s].password]
          /\ IF req[s].kind = "reset" THEN Await(s, "consume") ELSE Answer(s)
  /\ UNCHANGED <<users, age, reset, followUpVars, arrived, historyVars>>

ConsumeReset(s) ==
  /\ At(s, "consume")
  /\ reset' = reset \ {req[s].user}
  /\ Answer(s)
  /\ UNCHANGED <<users, security, age, followUpVars, arrived, historyVars>>

-----------------------------------------------------------------------------
(* Handlers that read an entity, change it and save it; deletion            *)

Read(s, k, u, e) ==
  /\ Exists(u)
  /\ Arrive(s, Call("save", k, u, e, Nothing))
  /\ UNCHANGED <<users, security, age, reset, followUpVars, historyVars>>

\* updateProfile; the admin's updateUserStatus and resolveFlaggedUser.
UpdateProfile(s, u) == Read(s, "profile", u, users[u])
UpdateUserStatus(s, u) ==
  \E b \in BOOLEAN : Read(s, "status", u, [users[u] EXCEPT !.isActive = b])
ResolveFlagged(s, u) ==
  Read(s, "resolve", u, [users[u] EXCEPT !.signupFlagged = FALSE])

SaveEntity(s) ==
  /\ At(s, "save")
  /\ LET u == req[s].user IN
     /\ SaveUser(u, req[s].entity)
     /\ Overtake(Others(s), {u})
     /\ resolved' = IF req[s].kind = "resolve" /\ ~Refused(u, req[s].entity)
                    THEN resolved \cup {u} ELSE resolved
  /\ Answer(s)
  /\ UNCHANGED <<security, age, reset, followUpVars, arrived, deleted, checked,
                 torn>>

\* deleteAccount of the owner deletes the security row before the user row
\* (the files in between are FileStore's); the administrator's deleteUser
\* leaves it to the foreign key.
DeleteAccount(s, u) ==
  /\ Exists(u)
  /\ \E a \in {"security.delete", "user.delete"} :
       Arrive(s, Call(a, "delete", u, NoRow, Nothing))
  /\ Contend(s, u)
  /\ UNCHANGED <<users, security, age, reset, followUpVars, deleted, resolved,
                 checked, stale>>

DeleteSecurity(s) ==
  /\ At(s, "security.delete")
  /\ security' = [security EXCEPT ![req[s].user] = Nothing]
  /\ Await(s, "user.delete")
  /\ UNCHANGED <<users, age, reset, followUpVars, arrived, historyVars>>

DeleteUserRow(s) ==
  /\ At(s, "user.delete")
  /\ LET u == req[s].user IN
     /\ users' = [users EXCEPT ![u] = NoRow]
     /\ security' = [security EXCEPT ![u] = Nothing]
     /\ deleted' = deleted \cup {u}
     /\ Overtake(Others(s), {u})
  /\ Answer(s)
  /\ UNCHANGED <<age, reset, followUpVars, arrived, resolved, checked, torn>>

-----------------------------------------------------------------------------
(* The follow-ups of a signup; each may fail or be lost with the server     *)

\* lookupIp answers: the entity is saved, flagged for a VPN or a data center.
LookupDone(u) ==
  /\ \E e \in lookup[u], anonymous \in BOOLEAN :
       /\ SaveUser(u, [e EXCEPT !.signupFlagged = @ \/ anonymous])
       /\ lookup' = [lookup EXCEPT ![u] = @ \ {e}]
  /\ stale' = IF \E r \in Slots : Working(r, u) /\ req[r].entity # NoRow
              THEN stale \cup {u} ELSE stale
  /\ UNCHANGED <<security, age, reset, req, abuse, arrived, deleted, resolved,
                 checked, torn>>

LookupLost(u) ==
  /\ \E e \in lookup[u] : lookup' = [lookup EXCEPT ![u] = @ \ {e}]
  /\ UNCHANGED <<users, security, age, reset, req, abuse, arrived, historyVars>>

\* checkSignupAnomaly: the other signups of the device in the last 30 days.
AbuseMatch(c) ==
  /\ c.at = "match"
  /\ LET found == {v \in Users \ {c.user} :
                     /\ Exists(v) /\ age[v] # "older"
                     /\ users[v].signupFingerprint = c.device}
     IN IF found = {}
        THEN abuse' = abuse \ {c} /\ checked' = checked \cup {c.user}
        ELSE /\ abuse' = (abuse \ {c}) \cup
                  {[c EXCEPT !.at = "flag", !.others = found,
                      !.near = \E v \in found : /\ users[v].signupIp = c.subnet
                                                /\ age[v] = "hour"]}
             /\ UNCHANGED checked
  /\ UNCHANGED <<users, security, age, reset, req, lookup, arrived, deleted,
                 resolved, stale, torn>>

\* A faulty variant: only the signup that was checked is flagged.
AbuseFlagSelf(c) ==
  /\ c.at = "flag"
  /\ LET flagged == {c.user} IN
     /\ users' = [u \in Users |-> IF u \in flagged /\ Exists(u)
                    THEN [users[u] EXCEPT !.signupFlagged = TRUE] ELSE users[u]]
     /\ resolved' = resolved \ flagged
     /\ Overtake(Slots, flagged)
  /\ IF c.near THEN /\ abuse' = (abuse \ {c}) \cup {[c EXCEPT !.at = "block"]}
                    /\ UNCHANGED checked
     ELSE abuse' = abuse \ {c} /\ checked' = checked \cup {c.user}
  /\ UNCHANGED <<security, age, reset, req, lookup, arrived, deleted, torn>>

AbuseFlag(c) ==
  /\ c.at = "flag"
  /\ LET flagged == {c.user} \cup c.others IN
     /\ users' = [u \in Users |-> IF u \in flagged /\ Exists(u)
                    THEN [users[u] EXCEPT !.signupFlagged = TRUE] ELSE users[u]]
     /\ resolved' = resolved \ flagged
     /\ Overtake(Slots, flagged)
  /\ IF c.near THEN /\ abuse' = (abuse \ {c}) \cup {[c EXCEPT !.at = "block"]}
                    /\ UNCHANGED checked
     ELSE abuse' = abuse \ {c} /\ checked' = checked \cup {c.user}
  /\ UNCHANGED <<security, age, reset, req, lookup, arrived, deleted, torn>>

AbuseBlock(c) ==
  /\ c.at = "block"
  /\ users' = IF Exists(c.user) THEN [users EXCEPT ![c.user].isActive = FALSE]
              ELSE users
  /\ Overtake(Slots, {c.user})
  /\ abuse' = abuse \ {c}
  /\ checked' = checked \cup {c.user}
  /\ UNCHANGED <<security, age, reset, req, lookup, arrived, deleted, resolved,
                 torn>>

AbuseFails(c) ==
  /\ abuse' = abuse \ {c}
  /\ UNCHANGED <<users, security, age, reset, req, lookup, arrived, historyVars>>

\* A request fails at an await; what it has written stays.
AbortRequest(s) ==
  /\ ~Idle(s)
  /\ torn' = IF req[s].at \in Credentials THEN torn \cup {req[s].user} ELSE torn
  /\ Answer(s)
  /\ UNCHANGED <<users, security, age, reset, followUpVars, arrived, deleted,
                 resolved, checked, stale>>

\* Time passes; far more of it than a request or a follow-up takes.
Age(u) ==
  /\ Exists(u) /\ age[u] # "older"
  /\ abuse = {} /\ \A s \in Slots : Idle(s)
  /\ age' = [age EXCEPT ![u] = IF @ = "hour" THEN "month" ELSE "older"]
  /\ UNCHANGED <<users, security, reset, req, followUpVars, arrived, historyVars>>

-----------------------------------------------------------------------------
Arrival(s) ==
  \/ \E e \in Emails, p \in Passwords, d \in Devices \cup {Nothing}, n \in Subnets :
       Register(s, e, p, d, n)
  \/ \E e, sub \in Emails : GoogleSignIn(s, e, sub)
  \/ \E u \in Users :
       \/ \E p \in Passwords : \/ SetupSecurity(s, u, p)
                               \/ ChangePassword(s, u, p) \/ CompleteReset(s, u, p)
       \/ UpdateProfile(s, u) \/ UpdateUserStatus(s, u) \/ ResolveFlagged(s, u)
       \/ DeleteAccount(s, u)

RequestStep(s) ==
  \/ FindAccount(s) \/ InsertAccount(s) \/ FindSecurity(s) \/ SaveSecurity(s)
  \/ SaveSignup(s) \/ Hash(s) \/ Wrap(s) \/ ConsumeReset(s) \/ SaveEntity(s)
  \/ DeleteSecurity(s) \/ DeleteUserRow(s) \/ AbortRequest(s)

FollowUp ==
  \/ \E u \in Users : LookupDone(u) \/ LookupLost(u)
  \/ \E c \in abuse : AbuseMatch(c) \/ AbuseFlag(c) \/ AbuseBlock(c) \/ AbuseFails(c)

AccountsNext ==
  \/ \E s \in Slots : Arrival(s) \/ RequestStep(s)
  \/ FollowUp
  \/ \E u \in Users : OpenReset(u) \/ ExpireReset(u) \/ Age(u)

AccountsSpec == AccountsInit /\ [][AccountsNext]_accountVars

-----------------------------------------------------------------------------
(* Properties *)

\* One password opens the account and unwraps the master key: the two rows of
\* a local account agree when no change of them is in progress, whatever other
\* requests, follow-ups and deletions happened, unless two changes or deletions
\* overlapped or one broke off between the rows (torn), or an entity read before
\* the change was saved after it (stale).
Changing(u) == \E s \in Slots : Working(s, u) /\ req[s].at \in Credentials
CredentialsAgree ==
  \A u \in Users \ (torn \cup stale) :
    Exists(u) /\ users[u].provider = "local" /\ security[u] # Nothing /\ ~Changing(u)
      => users[u].passwordHash = security[u]

\* Two accounts of one device, both of the last 30 days and both checked: each
\* is flagged, though the two registrations and their checks interleave, unless
\* an administrator has resolved it since.  Exempt are accounts of which another
\* handler held an entity when they were changed (stale): its save may undo the
\* flag, hide the fingerprint for a while, or bring the account back after its
\* deletion.  So are those of which a deletion broke off after the security row, or
\* overlapped with a registration (torn): they can sign up again, from another
\* device.
SharedDeviceFlagged ==
  \A u, v \in checked \ (deleted \cup stale \cup torn) :
    /\ u # v
    /\ users[u].signupFingerprint = users[v].signupFingerprint
    /\ users[u].signupFingerprint # Nothing
    /\ age[u] # "older" /\ age[v] # "older"
    => users[u].signupFlagged \/ u \in resolved

-----------------------------------------------------------------------------
(* The inductive invariant                                                  *)

\* A local row has a password.
Whole(e) == e.provider = "local" => e.passwordHash \in Passwords
RowsWhole ==
  /\ \A u \in Users : Exists(u) => Whole(users[u])
  /\ \A s \in Slots : ~Idle(s) /\ req[s].entity # NoRow => Whole(req[s].entity)
  /\ \A u \in Users : \A e \in lookup[u] : Whole(e)

\* What a request has in hand at each of its awaits.
BeforeUser == {"find", "insert"}
SecurityAwaits == {"security.find", "security.save"}
InHand(r) ==
  /\ r.at \in BeforeUser =>
       /\ r.user = Nothing /\ r.entity # NoRow /\ r.kind \in {"register", "google"}
       /\ r.kind = "register" => /\ r.entity.provider = "local"
                                 /\ r.entity.passwordHash = r.password
       /\ r.kind = "google" => r.entity.provider = "google"
  /\ r.at \notin BeforeUser =>
       r.user \in Users /\ (Exists(r.user) \/ r.user \in deleted)
  /\ r.at \in SecurityAwaits => r.kind \in {"register", "setup"}
  /\ r.at \in SecurityAwaits \cup {"hash", "wrap"} => r.password \in Passwords
  /\ r.at \in {"meta", "save"} \/ r.kind = "register" => r.entity # NoRow
  /\ r.at \in {"hash", "wrap", "consume", "security.delete", "user.delete"} =>
       r.entity = NoRow /\ r.kind # "register"
RequestsInOrder == \A s \in Slots : ~Idle(s) => InHand(req[s])

\* One change of the credentials of a user at a time.
ChangesIn(s, u) == Working(s, u) /\ req[s].at \in Credentials
OneChange ==
  \A u \in Users \ torn : \A r, s \in Slots : ChangesIn(r, u) /\ ChangesIn(s, u) => r = s

\* The entities that requests and lookups hold are not overtaken.
Same(e, f) == e.provider = f.provider /\ e.passwordHash = f.passwordHash
HeldIsCurrent ==
  \A u \in Users \ stale :
    /\ \A s \in Slots : Working(s, u) /\ req[s].entity # NoRow =>
         Exists(u) /\ Same(req[s].entity, users[u])
    /\ \A e \in lookup[u] : Exists(u) /\ Same(e, users[u])

DeletedIsGone == \A u \in deleted \ stale : ~Exists(u)
NoOrphans == \A u \in Users : ~Exists(u) => security[u] = Nothing

\* The passwords of a user's two rows and of the request that changes them.
StandsAt(s, u, a) == Working(s, u) /\ req[s].at = a
Agrees(u) ==
  LET hash == users[u].passwordHash IN
  /\ security[u] # Nothing /\ (\A s \in Slots : ~StandsAt(s, u, "wrap")) => hash = security[u]
  /\ security[u] = Nothing =>
       \E s \in Slots : Working(s, u) /\ req[s].at \in SecurityAwaits \cup {"user.delete"}
  /\ \A s \in Slots :
       /\ StandsAt(s, u, "security.find") => req[s].password = hash \/ security[u] # Nothing
       /\ StandsAt(s, u, "security.save") => req[s].password = hash
       /\ StandsAt(s, u, "wrap") => req[s].password = hash
RowsAgree ==
  \A u \in Users \ (torn \cup stale) :
    Exists(u) /\ users[u].provider = "local" => Agrees(u)

AccountsInv ==
  /\ AccountsTypeOK /\ RowsWhole /\ RequestsInOrder /\ OneChange /\ HeldIsCurrent
  /\ DeletedIsGone /\ NoOrphans /\ RowsAgree

-----------------------------------------------------------------------------
(* What SharedDeviceFlagged rests on                                        *)

\* The users the property is about.
Undisputed == Users \ (deleted \cup stale \cup torn)
Fingerprint(u) == users[u].signupFingerprint
Covered(u) == users[u].signupFlagged \/ u \in resolved

\* Nothing is left of a signup of u.
Fresh(u) ==
  /\ Exists(u) => Fingerprint(u) = Nothing
  /\ lookup[u] = {} /\ u \notin checked /\ \A c \in abuse : c.user # u

\* A registration that finds the security row of u does not save its signup.
Secured(u) == security[u] # Nothing \/ \E s \in Slots : StandsAt(s, u, "user.delete")

\* A user signs up once: whoever is about to save the signup is alone and finds
\* nothing of another.
SignsUpOnce ==
  \A u \in Undisputed :
    /\ \A s \in Slots : StandsAt(s, u, "security.save") =>
         Fresh(u) /\ \A r \in Slots : ~StandsAt(r, u, "meta")
    /\ \A s \in Slots : StandsAt(s, u, "meta") =>
         Fresh(u) /\ Secured(u) /\ \A r \in Slots : StandsAt(r, u, "meta") => r = s
    /\ ~Fresh(u) => Exists(u) /\ Secured(u)

\* No save undoes a flag or changes the fingerprint.
Holds(s, u) == Working(s, u) /\ req[s].entity # NoRow
Current(s, u) ==
  /\ req[s].kind # "resolve" => req[s].entity.signupFlagged = users[u].signupFlagged
  /\ req[s].at = "save" => req[s].entity.signupFingerprint = Fingerprint(u)
HeldSignup ==
  \A u \in Undisputed :
    /\ \A s \in Slots : Holds(s, u) => Current(s, u)
    /\ \A e \in lookup[u] : /\ e.signupFlagged = users[u].signupFlagged
                            /\ e.signupFingerprint = Fingerprint(u)
                            /\ lookup[u] = {e}

\* A check looks for the fingerprint of its user.
ChecksKnow == \A c \in abuse : c.user \in Undisputed => Fingerprint(c.user) = c.device

\* The check of u has still to look, or has found v.
WillFind(u, v) ==
  /\ u \notin checked
  /\ \A c \in abuse : c.user = u => c.at = "match" \/ (c.at = "flag" /\ v \in c.others)

\* Two accounts of one device, both of the last 30 days.
Shares(u, v) ==
  /\ u # v /\ Exists(u) /\ Exists(v)
  /\ Fingerprint(u) = Fingerprint(v) /\ Fingerprint(u) # Nothing
  /\ age[u] # "older" /\ age[v] # "older"

\* They are flagged, or the check of one of them will flag both.
SharedFound ==
  \A u, v \in Undisputed :
    Shares(u, v) => (Covered(u) /\ Covered(v)) \/ WillFind(u, v) \/ WillFind(v, u)

SignupInv == AccountsInv /\ SignsUpOnce /\ HeldSignup /\ ChecksKnow /\ SharedFound

=============================================================================
