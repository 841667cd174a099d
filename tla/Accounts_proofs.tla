---------------------------- MODULE Accounts_proofs ----------------------------
(***************************************************************************)
(* Theorems of Accounts for any number of users and requests.  The passwords *)
(* of an account's two rows are related through the request that changes    *)
(* them: it has the password in hand between the rows (RowsAgree), it is the *)
(* only one (OneChange), and no other save brings an older hash back         *)
(* (HeldIsCurrent).  The digests below say once what a step does to the      *)
(* requests, so that the proofs of the conjuncts need not expand it.         *)
(* Second part: an account signs up once (SignsUpOnce), nobody who holds an  *)
(* entity of it undoes its flag (HeldSignup), and of two accounts that share *)
(* a device the one whose check is last finds the other (SharedFound).       *)
(***************************************************************************)
EXTENDS Accounts, TLAPS

\* The rows findOrCreate is called with are rows.
LEMMA GoogleRows ==
  ASSUME NEW e \in Emails, NEW k \in Emails
  PROVE  /\ GoogleRow(e, k) \in Row /\ GoogleRow(e, k).provider = "google"
         /\ GoogleRow(e, k).signupFingerprint = Nothing
BY DEF Row, LocalRow, GoogleRow

\* A row is not the absence of one.
LEMMA RowExists == \A e \in Row : e # NoRow
BY DEF Row, NoRow

\* The same for a registration.
LEMMA RowsBuilt ==
  ASSUME NEW e \in Emails, NEW p \in Passwords,
         NEW d \in Devices \cup {Nothing}, NEW n \in Subnets
  PROVE  /\ [LocalRow(e, p) EXCEPT !.signupFingerprint = d, !.signupIp = n] \in Row
         /\ [LocalRow(e, p) EXCEPT !.signupFingerprint = d, !.signupIp = n].provider = "local"
         /\ [LocalRow(e, p) EXCEPT !.signupFingerprint = d, !.signupIp = n].passwordHash = p
BY DEF Row, LocalRow

\* A request arrives in an idle slot and the others go on.
LEMMA Arriving ==
  ASSUME AccountsTypeOK, NEW s \in Slots, NEW a \in AccountAwaits, NEW k \in Kinds,
         NEW u \in Users \cup {Nothing}, NEW e \in Row \cup {NoRow},
         NEW p \in Passwords \cup {Nothing}, Arrive(s, Call(a, k, u, e, p))
  PROVE  /\ Idle(s) /\ arrived' \in Nat /\ arrived' <= MaxRequests
         /\ req' \in [Slots -> Request \cup {NoRequest}]
         /\ \A r \in Slots \ {s} : req'[r] = req[r]
         /\ req'[s] \in Request
         /\ req'[s].at = a /\ req'[s].kind = k /\ req'[s].user = u
         /\ req'[s].entity = e /\ req'[s].password = p
<1>1. Call(a, k, u, e, p) \in Request
  BY DEF Call, Request
<1>2. req' = [req EXCEPT ![s] = Call(a, k, u, e, p)]
  BY DEF Arrive
<1>3. req'[s] = Call(a, k, u, e, p)
  BY <1>2 DEF AccountsTypeOK
<1> QED
  BY <1>1, <1>2, <1>3, MaxRequestsAssumption DEF AccountsTypeOK, Arrive, Call

\* What the lookup of an account and of a device leave alone.
Untouched == UNCHANGED <<users, security, age, reset, lookup, arrived, deleted, stale>>

\* The device lookup changes nothing but the check itself.
LEMMA Matching ==
  ASSUME AccountsTypeOK, NEW c \in abuse, AbuseMatch(c)
  PROVE  /\ Untouched /\ UNCHANGED <<req, resolved, torn>>
         /\ abuse' \subseteq Check /\ checked' \subseteq Users
<1> DEFINE found == {v \in Users \ {c.user} :
                       /\ Exists(v) /\ age[v] # "older"
                       /\ users[v].signupFingerprint = c.device}
           near == \E v \in found : users[v].signupIp = c.subnet /\ age[v] = "hour"
           d == [c EXCEPT !.at = "flag", !.others = found, !.near = near]
<1>1. Untouched /\ UNCHANGED <<req, resolved, torn>>
  BY DEF AbuseMatch, Untouched
<1>2. c \in Check
  BY DEF AccountsTypeOK
<1>3. found \in SUBSET Users /\ near \in BOOLEAN
  OBVIOUS
<1>4. \/ abuse' = abuse \ {c} /\ checked' = checked \cup {c.user}
      \/ abuse' = (abuse \ {c}) \cup {d} /\ checked' = checked
  BY DEF AbuseMatch
<1> HIDE DEF found, near
<1>5. d \in Check
  BY <1>2, <1>3 DEF Check
<1>6. c.user \in Users
  BY <1>2 DEF Check
<1> HIDE DEF d
<1> QED
  BY <1>1, <1>4, <1>5, <1>6 DEF AccountsTypeOK

\* The request in s takes up user u with entity e.
Becomes(s, a, u, e) ==
  /\ req' \in [Slots -> Request \cup {NoRequest}]
  /\ \A r \in Slots \ {s} : req'[r] = req[r]
  /\ req'[s] \in Request
  /\ req'[s].at = a /\ req'[s].user = u /\ req'[s].entity = e
  /\ req'[s].kind = req[s].kind /\ req'[s].password = req[s].password

\* The three outcomes of findOrCreate's lookup.
LEMMA Finding ==
  ASSUME AccountsTypeOK, RequestsInOrder, NEW s \in Slots, FindAccount(s)
  PROVE  /\ Untouched /\ UNCHANGED <<abuse, resolved, checked>>
         /\ req[s] \in Request /\ req[s].at = "find"
         /\ \/ Await(s, "insert") /\ torn' = torn
            \/ Answer(s) /\ torn' = torn
            \/ \E u \in Users, e \in Row :
                 /\ Exists(u) /\ Same(e, users[u])
                 /\ \/ /\ req[s].kind = "register" /\ Contend(s, u)
                       /\ Becomes(s, "security.find", u, e)
                    \/ /\ req[s].kind = "google" /\ torn' = torn
                       /\ Becomes(s, "save", u, e)
<1>1. Untouched /\ UNCHANGED <<abuse, resolved, checked>>
  BY DEF FindAccount, Untouched, followUpVars
<1>2. req[s] \in Request /\ req[s].at = "find" /\ req[s].kind \in {"register", "google"}
      /\ req[s].entity \in Row
  BY DEF FindAccount, At, Idle, AccountsTypeOK, RequestsInOrder, InHand, BeforeUser,
         Request
<1> DEFINE new == req[s].entity
<1>3. ASSUME NEW u \in Users, u \in Known(new)
      PROVE  users[u] \in Row /\ Exists(u)
  BY <1>2, <1>3, NothingAssumption DEF Known, Exists, NoRow, Row, AccountsTypeOK
<1>4. CASE Known(new) = {}
  BY <1>1, <1>2, <1>4 DEF FindAccount
<1>5. CASE Known(new) # {}
  <2>1. PICK u \in Known(new) :
         IF req[s].kind = "register"
         THEN /\ req' = [req EXCEPT ![s].at = "security.find", ![s].user = u,
                   ![s].entity = [users[u] EXCEPT !.signupIp = new.signupIp,
                     !.signupFingerprint = new.signupFingerprint]]
              /\ Contend(s, u)
         ELSE /\ IF users[u].email = new.email THEN Answer(s)
                 ELSE req' = [req EXCEPT ![s].at = "save", ![s].user = u,
                                ![s].entity = [users[u] EXCEPT !.email = new.email]]
              /\ UNCHANGED torn
    BY <1>5 DEF FindAccount
  <2>2. u \in Users /\ users[u] \in Row /\ Exists(u)
    BY <1>3, <2>1 DEF Known
  <2>3. CASE req[s].kind = "register"
    <3> DEFINE e == [users[u] EXCEPT !.signupIp = new.signupIp,
                                     !.signupFingerprint = new.signupFingerprint]
    <3>1. e \in Row /\ Same(e, users[u])
      BY <1>2, <2>2 DEF Row, Same
    <3> HIDE DEF e
    <3>2. req' = [req EXCEPT ![s] = [[[req[s] EXCEPT !.at = "security.find"]
                                        EXCEPT !.user = u] EXCEPT !.entity = e]]
      BY <2>1, <2>3 DEF AccountsTypeOK, e
    <3>3. Becomes(s, "security.find", u, e)
      BY <1>2, <2>2, <3>1, <3>2 DEF Becomes, Request, AccountAwaits, AccountsTypeOK
    <3> QED
      BY <1>1, <1>2, <2>1, <2>2, <2>3, <3>1, <3>3
  <2>4. CASE req[s].kind = "google"
    <3> DEFINE e == [users[u] EXCEPT !.email = new.email]
    <3>1. e \in Row /\ Same(e, users[u])
      BY <1>2, <2>2 DEF Row, Same
    <3>2. CASE Answer(s)
      BY <1>1, <1>2, <2>1, <2>4, <3>2
    <3> HIDE DEF e
    <3>3. CASE ~Answer(s)
      <4>1. req' = [req EXCEPT ![s] = [[[req[s] EXCEPT !.at = "save"]
                                        EXCEPT !.user = u] EXCEPT !.entity = e]]
        BY <2>1, <2>4, <3>3 DEF AccountsTypeOK, e
      <4>2. Becomes(s, "save", u, e)
        BY <1>2, <2>2, <3>1, <4>1 DEF Becomes, Request, AccountAwaits, AccountsTypeOK
      <4> QED
        BY <1>1, <1>2, <2>1, <2>2, <2>4, <3>1, <4>2
    <3> QED
      BY <3>2, <3>3
  <2> QED
    BY <1>2, <2>3, <2>4
<1> QED
  BY <1>4, <1>5

\* The request in s goes on to the await at and is otherwise the same.
Steps(s, at) ==
  /\ req' \in [Slots -> Request \cup {NoRequest}]
  /\ \A r \in Slots \ {s} : req'[r] = req[r]
  /\ req'[s] \in Request /\ req'[s].at = at
  /\ req'[s].kind = req[s].kind /\ req'[s].user = req[s].user
  /\ req'[s].entity = req[s].entity /\ req'[s].password = req[s].password

\* Await moves one request on.
LEMMA Awaiting ==
  ASSUME AccountsTypeOK, NEW s \in Slots, ~Idle(s), NEW a \in AccountAwaits, Await(s, a)
  PROVE  Steps(s, a)
BY DEF AccountsTypeOK, Idle, Await, Steps, Request

\* Answer ends one request.
LEMMA Answering ==
  ASSUME AccountsTypeOK, NEW s \in Slots, Answer(s)
  PROVE  /\ req' \in [Slots -> Request \cup {NoRequest}]
         /\ req'[s] = NoRequest
         /\ \A r \in Slots \ {s} : req'[r] = req[r]
BY DEF AccountsTypeOK, Answer

\* A request in flight is a request, and has in hand what its await says.
LEMMA InHandOf ==
  ASSUME AccountsTypeOK, RequestsInOrder, NEW s \in Slots, ~Idle(s)
  PROVE  req[s] \in Request /\ InHand(req[s])
BY DEF AccountsTypeOK, RequestsInOrder, Idle

\* repository.save leaves rows of the right type.
LEMMA RowStored ==
  ASSUME AccountsTypeOK, NEW u \in Users, NEW e \in Row, SaveUser(u, e)
  PROVE  users' \in [Users -> Row \cup {NoRow}]
BY DEF AccountsTypeOK, SaveUser
\* The entities the profile and administration handlers hold are rows.
LEMMA Profiles ==
  ASSUME AccountsTypeOK, NEW u \in Users, Exists(u), NEW b \in BOOLEAN
  PROVE  /\ users[u] \in Row
         /\ [users[u] EXCEPT !.isActive = b] \in Row
         /\ [users[u] EXCEPT !.signupFlagged = b] \in Row
BY DEF AccountsTypeOK, Exists, Row

\* What an arrival leaves alone.
Rest == UNCHANGED <<users, security, age, reset, lookup, abuse, deleted, resolved, checked, stale>>
\* An arrival with arguments of the right type keeps the types.
LEMMA ArrivalTypes ==
  ASSUME AccountsTypeOK, NEW s \in Slots, NEW a \in AccountAwaits, NEW k \in Kinds,
         NEW u \in Users \cup {Nothing}, NEW e \in Row \cup {NoRow},
         NEW p \in Passwords \cup {Nothing}, Arrive(s, Call(a, k, u, e, p)),
         Rest, torn' \subseteq Users
  PROVE  AccountsTypeOK'
BY Arriving DEF AccountsTypeOK, Rest

\* The outcomes of findOrCreate's insert: refused, or a row like the entity.
LEMMA Inserting ==
  ASSUME AccountsTypeOK, RequestsInOrder, NEW s \in Slots, InsertAccount(s)
  PROVE  /\ req[s] \in Request /\ req[s].user = Nothing
         /\ UNCHANGED <<security, age, reset, lookup, abuse, arrived, deleted, resolved,
                        checked, stale, torn>>
         /\ \/ Answer(s) /\ UNCHANGED users
            \/ \E u \in Users, e \in Row :
                 /\ Unused(u) /\ Same(e, req[s].entity)
                 /\ users' = [users EXCEPT ![u] = e]
                 /\ \/ req[s].kind = "google" /\ e.provider = "google" /\ Answer(s)
                    \/ /\ req[s].kind = "register" /\ e.provider = "local"
                       /\ e.passwordHash = req[s].password /\ req[s].entity # NoRow
                       /\ Becomes(s, "security.find", u, req[s].entity)
<1>1. /\ req[s] \in Request /\ req[s].entity \in Row /\ InHand(req[s])
      /\ req[s].at = "insert"
  BY InHandOf DEF InsertAccount, At, InHand, BeforeUser, Request
<1>2. PICK u \in Users :
        /\ Unused(u)
        /\ IF Refused(u, req[s].entity) THEN Answer(s) /\ UNCHANGED users
           ELSE /\ users' = [users EXCEPT ![u] =
                     [req[s].entity EXCEPT !.signupIp = Nothing,
                                           !.signupFingerprint = Nothing]]
                /\ IF req[s].kind = "google" THEN Answer(s)
                   ELSE req' = [req EXCEPT ![s].at = "security.find", ![s].user = u]
  BY DEF InsertAccount
<1> DEFINE e == [req[s].entity EXCEPT !.signupIp = Nothing, !.signupFingerprint = Nothing]
           q == [[req[s] EXCEPT !.at = "security.find"] EXCEPT !.user = u]
<1>3. e \in Row /\ Same(e, req[s].entity)
  BY <1>1 DEF Row, Same
<1>4. /\ q \in Request /\ q.at = "security.find" /\ q.user = u
      /\ q.entity = req[s].entity /\ q.kind = req[s].kind /\ q.password = req[s].password
  BY <1>1 DEF Request, AccountAwaits
<1>5. req' = [req EXCEPT ![s].at = "security.find", ![s].user = u]
        => Becomes(s, "security.find", u, req[s].entity)
  <2>1. req' = [req EXCEPT ![s].at = "security.find", ![s].user = u] => req' = [req EXCEPT ![s] = q]
    BY DEF AccountsTypeOK
  <2> HIDE DEF q
  <2> QED
    BY <1>4, <2>1 DEF Becomes, AccountsTypeOK
<1>6. /\ req[s].kind \in {"register", "google"} /\ req[s].user = Nothing
      /\ req[s].kind = "register" => /\ req[s].entity.provider = "local"
                                     /\ req[s].entity.passwordHash = req[s].password
      /\ req[s].kind = "google" => req[s].entity.provider = "google"
      /\ req[s].entity # NoRow
  BY <1>1 DEF InHand, BeforeUser
<1>7. UNCHANGED <<security, age, reset, lookup, abuse, arrived, deleted, resolved,
                  checked, stale, torn>>
  BY DEF InsertAccount, followUpVars, historyVars
<1> HIDE DEF e, q
<1> QED
  BY <1>1, <1>2, <1>3, <1>5, <1>6, <1>7 DEF e, Same

\* Two requests do not both change the credentials of one user.
LEMMA ChangesAlone ==
  ASSUME OneChange, NEW u \in Users \ torn, NEW r \in Slots, NEW s \in Slots,
         ChangesIn(r, u), ChangesIn(s, u)
  PROVE  r = s
BY DEF OneChange

\* Reading an entity changes no row and no password in hand.
LEMMA RowsAgreeUpdateUserStatus ==
  ASSUME AccountsInv, NEW s \in Slots, NEW v \in Users, UpdateUserStatus(s, v)
  PROVE  RowsAgree'
<1> USE NothingAssumption
<1> SUFFICES ASSUME NEW u \in Users, u \notin torn', u \notin stale', Exists(u)',
                    users'[u].provider = "local"
             PROVE  Agrees(u)'
  BY DEF RowsAgree
<1>0. /\ AccountsTypeOK /\ RequestsInOrder /\ OneChange /\ NoOrphans /\ RowsAgree
  BY DEF AccountsInv
<1>1. \E e \in Row : Arrive(s, Call("save", "status", v, e, Nothing))
  BY <1>0, Profiles DEF UpdateUserStatus, Read
<1>2. /\ Idle(s) /\ ~StandsAt(s, u, "wrap")'
      /\ ~StandsAt(s, u, "security.find")' /\ ~StandsAt(s, u, "security.save")'
      /\ \A r \in Slots \ {s} : req'[r] = req[r]
  BY <1>0, <1>1, Arriving DEF StandsAt, AccountAwaits, Kinds
<1>3. UNCHANGED <<users, security, torn, stale>>
  BY DEF UpdateUserStatus, Read, historyVars
<1>4. Agrees(u)
  BY <1>0, <1>3 DEF RowsAgree, Exists
<1> QED
  BY <1>0, <1>2, <1>3, <1>4 DEF Agrees, StandsAt, Working, Idle

\* The same for the administrator's other handler.
LEMMA RowsAgreeResolveFlagged ==
  ASSUME AccountsInv, NEW s \in Slots, NEW v \in Users, ResolveFlagged(s, v)
  PROVE  RowsAgree'
<1> USE NothingAssumption
<1> SUFFICES ASSUME NEW u \in Users, u \notin torn', u \notin stale', Exists(u)',
                    users'[u].provider = "local"
             PROVE  Agrees(u)'
  BY DEF RowsAgree
<1>0. /\ AccountsTypeOK /\ RequestsInOrder /\ OneChange /\ NoOrphans /\ RowsAgree
  BY DEF AccountsInv
<1>1. \E e \in Row : Arrive(s, Call("save", "resolve", v, e, Nothing))
  BY <1>0, Profiles DEF ResolveFlagged, Read
<1>2. /\ Idle(s) /\ ~StandsAt(s, u, "wrap")'
      /\ ~StandsAt(s, u, "security.find")' /\ ~StandsAt(s, u, "security.save")'
      /\ \A r \in Slots \ {s} : req'[r] = req[r]
  BY <1>0, <1>1, Arriving DEF StandsAt, AccountAwaits, Kinds
<1>3. UNCHANGED <<users, security, torn, stale>>
  BY DEF ResolveFlagged, Read, historyVars
<1>4. Agrees(u)
  BY <1>0, <1>3 DEF RowsAgree, Exists
<1> QED
  BY <1>0, <1>2, <1>3, <1>4 DEF Agrees, StandsAt, Working, Idle

\* A register that finds the account cannot be the only change of it unless its
\* security row exists.
LEMMA RowsAgreeFindAccount ==
  ASSUME AccountsInv, NEW s \in Slots, FindAccount(s)
  PROVE  RowsAgree'
<1> USE NothingAssumption
<1> SUFFICES ASSUME NEW u \in Users, u \notin torn', u \notin stale', Exists(u)',
                    users'[u].provider = "local"
             PROVE  Agrees(u)'
  BY DEF RowsAgree
<1>0. /\ AccountsTypeOK /\ RequestsInOrder /\ OneChange /\ NoOrphans /\ RowsAgree
  BY DEF AccountsInv
<1>1. /\ UNCHANGED <<users, security, stale>> /\ torn \subseteq torn'
      /\ req[s].user = Nothing
  BY <1>0, Finding, InHandOf DEF Untouched, Contend, FindAccount, At, InHand, BeforeUser
<1>2. Agrees(u)
  BY <1>0, <1>1 DEF RowsAgree, Exists
<1>3. \A r \in Slots \ {s} : req'[r] = req[r]
  BY <1>0, Finding, Awaiting, Answering DEF FindAccount, At, Steps, Becomes, AccountAwaits
<1>4. CASE ~(Working(s, u)' /\ StandsAt(s, u, "security.find")')
  <2>1. \A a \in {"security.save", "wrap"} : ~StandsAt(s, u, a)'
    BY <1>0, <1>1, Finding, Awaiting, Answering
       DEF FindAccount, At, Steps, Becomes, AccountAwaits, StandsAt, Working, Idle
  <2> QED
    BY <1>1, <1>2, <1>3, <1>4, <2>1 DEF Agrees, StandsAt, Working, Idle
<1>5. CASE Working(s, u)' /\ StandsAt(s, u, "security.find")'
  <2>1. Contend(s, u)
    <3>1. ~Idle(s)' /\ req'[s].at = "security.find" /\ req'[s].user = u
      BY <1>5 DEF StandsAt, Working
    <3>2. ~Answer(s)
      BY <1>0, <3>1, Answering DEF Idle
    <3>3. ~Await(s, "insert")
      BY <1>0, <3>1, Awaiting DEF FindAccount, At, Steps, AccountAwaits
    <3>4. PICK v \in Users, e \in Row : \/ Contend(s, v) /\ Becomes(s, "security.find", v, e)
                                        \/ Becomes(s, "save", v, e)
      BY <1>0, <3>2, <3>3, Finding
    <3> QED
      BY <3>1, <3>4 DEF Becomes
  <2>2. security[u] # Nothing
    BY <1>1, <1>2, <2>1 DEF Contend, Agrees, Working, Credentials, SecurityAwaits, Others
  <2> QED
    BY <1>1, <1>2, <1>3, <1>5, <2>2 DEF Agrees, StandsAt, Working, Idle
<1> QED
  BY <1>4, <1>5

\* A new account starts with the password its register has in hand.
LEMMA RowsAgreeInsertAccount ==
  ASSUME AccountsInv, NEW s \in Slots, InsertAccount(s)
  PROVE  RowsAgree'
<1> USE NothingAssumption
<1> SUFFICES ASSUME NEW u \in Users, u \notin torn', u \notin stale', Exists(u)',
                    users'[u].provider = "local"
             PROVE  Agrees(u)'
  BY DEF RowsAgree
<1>0. /\ AccountsTypeOK /\ RequestsInOrder /\ OneChange /\ NoOrphans /\ RowsAgree
  BY DEF AccountsInv
<1>1. /\ UNCHANGED <<security, stale, torn>> /\ req[s].user = Nothing
  BY <1>0, Inserting
<1>2. ASSUME \A r \in Slots : ~Working(r, u)' \/ req'[r] = req[r], users'[u] = users[u],
             \A r \in Slots : Working(r, u) => req'[r] = req[r]
      PROVE  Agrees(u)'
  <2>1. Agrees(u)
    BY <1>0, <1>1, <1>2 DEF RowsAgree, Exists
  <2> QED
    BY <1>1, <1>2, <2>1 DEF Agrees, StandsAt, Working, Idle
<1>3. \A r \in Slots \ {s} : req'[r] = req[r]
  BY <1>0, Inserting, Answering DEF Becomes
<1>4. CASE Answer(s) /\ users'[u] = users[u]
  BY <1>0, <1>1, <1>2, <1>3, <1>4, Answering DEF Working, Idle
<1>5. CASE ~(Answer(s) /\ users'[u] = users[u])
  <2>1. PICK v \in Users, e \in Row :
          /\ Unused(v) /\ users' = [users EXCEPT ![v] = e]
          /\ \/ e.provider = "google" /\ Answer(s)
             \/ /\ e.passwordHash = req[s].password
                /\ Becomes(s, "security.find", v, req[s].entity)
    BY <1>0, <1>5, Inserting
  <2>2. CASE u # v
    BY <1>0, <1>1, <1>2, <1>3, <1>5, <2>1, <2>2 DEF AccountsTypeOK, Becomes, Working, Idle
  <2>3. CASE u = v
    <3>1. users'[u] = e /\ Becomes(s, "security.find", u, req[s].entity)
      BY <1>0, <2>1, <2>3 DEF AccountsTypeOK
    <3>2. security'[u] = Nothing
      BY <1>0, <1>1, <2>1, <2>3 DEF Unused, NoOrphans
    <3>3. /\ Working(s, u)' /\ StandsAt(s, u, "security.find")'
          /\ req'[s].password = users'[u].passwordHash
      BY <2>1, <3>1 DEF Becomes, Working, StandsAt, Idle, Request, NoRequest
    <3>4. \A r \in Slots \ {s} : ~Working(r, u)'
      BY <1>3, <2>1, <2>3 DEF Unused, Working, Idle
    <3> QED
      BY <3>2, <3>3, <3>4 DEF Agrees, StandsAt, SecurityAwaits
  <2> QED
    BY <2>2, <2>3
<1> QED
  BY <1>4, <1>5

\* The security row is found, or the request goes on to insert it.
LEMMA RowsAgreeFindSecurity ==
  ASSUME AccountsInv, NEW s \in Slots, FindSecurity(s)
  PROVE  RowsAgree'
<1> USE NothingAssumption
<1> SUFFICES ASSUME NEW u \in Users, u \notin torn', u \notin stale', Exists(u)',
                    users'[u].provider = "local"
             PROVE  Agrees(u)'
  BY DEF RowsAgree
<1>0. /\ AccountsTypeOK /\ RequestsInOrder /\ OneChange /\ NoOrphans /\ RowsAgree
  BY DEF AccountsInv
<1>1. UNCHANGED <<users, security, stale, torn>> /\ ~Idle(s) /\ req[s].at = "security.find"
  BY DEF FindSecurity, At, historyVars
<1>2. Agrees(u)
  BY <1>0, <1>1 DEF RowsAgree, Exists
<1>3. CASE security[req[s].user] = Nothing
  <2>1. Steps(s, "security.save")
    BY <1>0, <1>1, <1>3, Awaiting DEF FindSecurity, AccountAwaits
  <2>2. ~Idle(s)'
    BY <2>1 DEF Steps, Idle, Request, NoRequest
  <2> QED
    BY <1>1, <1>2, <1>3, <2>1, <2>2 DEF Agrees, StandsAt, Working, Idle, Steps,
       SecurityAwaits
<1>4. CASE security[req[s].user] # Nothing
  BY <1>0, <1>1, <1>2, <1>4, Answering DEF FindSecurity, Agrees, StandsAt, Working, Idle
<1> QED
  BY <1>3, <1>4

\* The new hash is the password the same request will wrap the key with.
LEMMA RowsAgreeHash ==
  ASSUME AccountsInv, NEW s \in Slots, Hash(s)
  PROVE  RowsAgree'
<1> USE NothingAssumption
<1> SUFFICES ASSUME NEW u \in Users, u \notin torn', u \notin stale', Exists(u)',
                    users'[u].provider = "local"
             PROVE  Agrees(u)'
  BY DEF RowsAgree
<1>0. /\ AccountsTypeOK /\ RequestsInOrder /\ OneChange /\ NoOrphans /\ RowsAgree
  BY DEF AccountsInv
<1>1. ~Idle(s) /\ req[s].at = "hash" /\ req[s].user \in Users
  BY <1>0, InHandOf DEF Hash, At, InHand, BeforeUser
<1>2. /\ UNCHANGED <<security, torn>> /\ stale \subseteq stale'
      /\ \A v \in Users \ {req[s].user} : users'[v] = users[v]
      /\ Exists(u) /\ users[u].provider = "local"
  BY <1>0, <1>1 DEF Hash, Overtake, AccountsTypeOK, Exists
<1>3. Agrees(u)
  BY <1>0, <1>2 DEF RowsAgree
<1>4. Steps(s, "wrap") /\ ~Idle(s)'
  BY <1>0, <1>1, Awaiting DEF Hash, AccountAwaits, Steps, Idle, Request, NoRequest
<1>5. CASE u # req[s].user
  BY <1>2, <1>3, <1>4, <1>5 DEF Agrees, StandsAt, Working, Idle, Steps
<1>6. CASE u = req[s].user
  <2>1. users'[u].passwordHash = req'[s].password
    BY <1>0, <1>2, <1>4, <1>6 DEF Hash, Steps, AccountsTypeOK, Exists, NoRow, Row
  <2>2. \A r \in Slots \ {s} : ~ChangesIn(r, u)
    BY <1>0, <1>1, <1>2, <1>6, ChangesAlone DEF ChangesIn, Working, Credentials
  <2>3. StandsAt(s, u, "wrap")'
    BY <1>4, <1>6 DEF StandsAt, Working, Steps
  <2>4. security[u] # Nothing
    BY <1>1, <1>3, <2>2 DEF Agrees, ChangesIn, Credentials, SecurityAwaits
  <2> QED
    BY <1>2, <1>4, <2>1, <2>2, <2>3, <2>4
       DEF Agrees, StandsAt, ChangesIn, Working, Idle, Steps, Credentials
<1> QED
  BY <1>5, <1>6

\* The key is wrapped with the password the same request stored the hash of.
LEMMA RowsAgreeWrap ==
  ASSUME AccountsInv, NEW s \in Slots, Wrap(s)
  PROVE  RowsAgree'
<1> USE NothingAssumption
<1> SUFFICES ASSUME NEW u \in Users, u \notin torn', u \notin stale', Exists(u)',
                    users'[u].provider = "local"
             PROVE  Agrees(u)'
  BY DEF RowsAgree
<1>0. /\ AccountsTypeOK /\ RequestsInOrder /\ OneChange /\ NoOrphans /\ RowsAgree
  BY DEF AccountsInv
<1>1. ~Idle(s) /\ req[s].at = "wrap" /\ req[s].user \in Users
  BY <1>0, InHandOf DEF Wrap, At, InHand, BeforeUser
<1>2. /\ UNCHANGED <<users, torn, stale>>
      /\ \A v \in Users \ {req[s].user} : security'[v] = security[v]
  BY <1>0, <1>1 DEF Wrap, historyVars, AccountsTypeOK
<1>3. Agrees(u)
  BY <1>0, <1>2 DEF RowsAgree, Exists
<1>4. /\ \A r \in Slots \ {s} : req'[r] = req[r]
      /\ req'[s] = NoRequest \/ req'[s].at = "consume"
  BY <1>0, <1>1, Awaiting, Answering DEF Wrap, AccountAwaits, Steps
<1>5. CASE u # req[s].user
  BY <1>2, <1>3, <1>4, <1>5 DEF Agrees, StandsAt, Working, Idle, SecurityAwaits
<1>6. CASE u = req[s].user
  <2>1. \A r \in Slots \ {s} : ~ChangesIn(r, u)
    BY <1>0, <1>1, <1>2, <1>6, ChangesAlone DEF ChangesIn, Working, Credentials
  <2>2. security[u] # Nothing
    BY <1>1, <1>3, <2>1 DEF Agrees, ChangesIn, Credentials, SecurityAwaits
  <2>3. security'[u] = req[s].password /\ req[s].password \in Passwords
    BY <1>0, <1>1, <1>6, <2>2, InHandOf DEF Wrap, AccountsTypeOK, InHand
  <2>4. users'[u].passwordHash = security'[u] /\ security'[u] # Nothing
    BY <1>1, <1>2, <1>3, <1>6, <2>3 DEF Agrees, StandsAt, Working
  <2>5. \A r \in Slots : ~ChangesIn(r, u)'
    BY <1>4, <2>1 DEF ChangesIn, Working, Idle, Credentials
  <2> QED
    BY <2>4, <2>5 DEF Agrees, StandsAt, ChangesIn, Credentials
<1> QED
  BY <1>5, <1>6

\* An account without its security row is about to be deleted.
LEMMA RowsAgreeDeleteSecurity ==
  ASSUME AccountsInv, NEW s \in Slots, DeleteSecurity(s)
  PROVE  RowsAgree'
<1> USE NothingAssumption
<1> SUFFICES ASSUME NEW u \in Users, u \notin torn', u \notin stale', Exists(u)',
                    users'[u].provider = "local"
             PROVE  Agrees(u)'
  BY DEF RowsAgree
<1>0. /\ AccountsTypeOK /\ RequestsInOrder /\ OneChange /\ NoOrphans /\ RowsAgree
  BY DEF AccountsInv
<1>1. ~Idle(s) /\ req[s].at = "security.delete" /\ req[s].user \in Users
  BY <1>0, InHandOf DEF DeleteSecurity, At, InHand, BeforeUser
<1>2. /\ UNCHANGED <<users, torn, stale>>
      /\ \A v \in Users \ {req[s].user} : security'[v] = security[v]
      /\ security'[req[s].user] = Nothing
  BY <1>0, <1>1 DEF DeleteSecurity, historyVars, AccountsTypeOK
<1>3. Agrees(u)
  BY <1>0, <1>2 DEF RowsAgree, Exists
<1>4. Steps(s, "user.delete") /\ ~Idle(s)'
  BY <1>0, <1>1, Awaiting DEF DeleteSecurity, AccountAwaits, Steps, Idle, Request, NoRequest
<1>5. CASE u # req[s].user
  BY <1>2, <1>3, <1>4, <1>5 DEF Agrees, StandsAt, Working, Idle, Steps
<1>6. CASE u = req[s].user
  <2>1. \A r \in Slots \ {s} : ~ChangesIn(r, u)
    BY <1>0, <1>1, <1>2, <1>6, ChangesAlone DEF ChangesIn, Working, Credentials
  <2>2. /\ Working(s, u)' /\ req'[s].at = "user.delete"
        /\ \A r \in Slots \ {s} : ~ChangesIn(r, u)'
    BY <1>4, <1>6, <2>1 DEF Steps, Working, ChangesIn, Idle
  <2> QED
    BY <1>2, <1>6, <2>2 DEF Agrees, StandsAt, ChangesIn, SecurityAwaits, Credentials
<1> QED
  BY <1>5, <1>6

\* Types are preserved.
LEMMA KeepsTypes ==
  ASSUME AccountsInv, AccountsNext
  PROVE  AccountsTypeOK'
<1> USE NothingAssumption, MaxRequestsAssumption DEF followUpVars, historyVars
<1>0. AccountsTypeOK /\ RequestsInOrder
  BY DEF AccountsInv
<1>1. ASSUME NEW s \in Slots, NEW e \in Emails, NEW p \in Passwords,
             NEW d \in Devices \cup {Nothing}, NEW n \in Subnets, Register(s, e, p, d, n)
      PROVE  AccountsTypeOK'
  <2>1. Arrive(s, Call("find", "register", Nothing,
                           [LocalRow(e, p) EXCEPT !.signupFingerprint = d, !.signupIp = n], p))
    BY <1>1 DEF Register
  <2>2. [LocalRow(e, p) EXCEPT !.signupFingerprint = d, !.signupIp = n] \in Row
    BY RowsBuilt
  <2>3. Rest /\ torn' \subseteq Users
    BY <1>0, <1>1 DEF Register, Rest, Contend, AccountsTypeOK
  <2> QED
    BY <1>0, <2>1, <2>2, <2>3, ArrivalTypes DEF AccountAwaits, Kinds
<1>2. ASSUME NEW s \in Slots, NEW e \in Emails, NEW sub \in Emails, GoogleSignIn(s, e, sub)
      PROVE  AccountsTypeOK'
  <2>1. Arrive(s, Call("find", "google", Nothing, GoogleRow(e, sub), Nothing))
    BY <1>2 DEF GoogleSignIn
  <2>2. GoogleRow(e, sub) \in Row
    BY GoogleRows
  <2>3. Rest /\ torn' \subseteq Users
    BY <1>0, <1>2 DEF GoogleSignIn, Rest, Contend, AccountsTypeOK
  <2> QED
    BY <1>0, <2>1, <2>2, <2>3, ArrivalTypes DEF AccountAwaits, Kinds
<1>3. ASSUME NEW s \in Slots, NEW u \in Users, NEW p \in Passwords, SetupSecurity(s, u, p)
      PROVE  AccountsTypeOK'
  <2>1. Arrive(s, Call("security.find", "setup", u, NoRow, p))
    BY <1>3 DEF SetupSecurity
  <2>2. FirstStep(u) \in AccountAwaits
    BY DEF FirstStep, AccountAwaits
  <2>3. Rest /\ torn' \subseteq Users
    BY <1>0, <1>3 DEF SetupSecurity, Rest, Contend, AccountsTypeOK
  <2> QED
    BY <1>0, <2>1, <2>2, <2>3, ArrivalTypes DEF AccountAwaits, Kinds
<1>4. ASSUME NEW s \in Slots, NEW u \in Users, NEW p \in Passwords, ChangePassword(s, u, p)
      PROVE  AccountsTypeOK'
  <2>1. Arrive(s, Call(FirstStep(u), "change", u, NoRow, p))
    BY <1>4 DEF ChangePassword
  <2>2. FirstStep(u) \in AccountAwaits
    BY DEF FirstStep, AccountAwaits
  <2>3. Rest /\ torn' \subseteq Users
    BY <1>0, <1>4 DEF ChangePassword, Rest, Contend, AccountsTypeOK
  <2> QED
    BY <1>0, <2>1, <2>2, <2>3, ArrivalTypes DEF AccountAwaits, Kinds
<1>5. ASSUME NEW s \in Slots, NEW u \in Users, NEW p \in Passwords, CompleteReset(s, u, p)
      PROVE  AccountsTypeOK'
  <2>1. Arrive(s, Call(FirstStep(u), "reset", u, NoRow, p))
    BY <1>5 DEF CompleteReset
  <2>2. FirstStep(u) \in AccountAwaits
    BY DEF FirstStep, AccountAwaits
  <2>3. Rest /\ torn' \subseteq Users
    BY <1>0, <1>5 DEF CompleteReset, Rest, Contend, AccountsTypeOK
  <2> QED
    BY <1>0, <2>1, <2>2, <2>3, ArrivalTypes DEF AccountAwaits, Kinds
<1>6. ASSUME NEW s \in Slots, NEW u \in Users, UpdateProfile(s, u)
      PROVE  AccountsTypeOK'
  <2>1. Arrive(s, Call("save", "profile", u, users[u], Nothing))
    BY <1>6 DEF UpdateProfile, Read
  <2>2. users[u] \in Row
    BY <1>0, <1>6, Profiles DEF UpdateProfile, Read
  <2>3. Rest /\ torn' \subseteq Users
    BY <1>0, <1>6 DEF UpdateProfile, Read, Rest, Contend, AccountsTypeOK
  <2> QED
    BY <1>0, <2>1, <2>2, <2>3, ArrivalTypes DEF AccountAwaits, Kinds
<1>7. ASSUME NEW s \in Slots, NEW u \in Users, UpdateUserStatus(s, u)
      PROVE  AccountsTypeOK'
  <2>1. PICK b \in BOOLEAN : Arrive(s, Call("save", "status", u,
                           [users[u] EXCEPT !.isActive = b], Nothing))
    BY <1>7 DEF UpdateUserStatus, Read
  <2>2. [users[u] EXCEPT !.isActive = b] \in Row
    BY <1>0, <1>7, Profiles DEF UpdateUserStatus, Read
  <2>3. Rest /\ torn' \subseteq Users
    BY <1>0, <1>7 DEF UpdateUserStatus, Read, Rest, Contend, AccountsTypeOK
  <2> QED
    BY <1>0, <2>1, <2>2, <2>3, ArrivalTypes DEF AccountAwaits, Kinds
<1>8. ASSUME NEW s \in Slots, NEW u \in Users, ResolveFlagged(s, u)
      PROVE  AccountsTypeOK'
  <2>1. Arrive(s, Call("save", "resolve", u,
                           [users[u] EXCEPT !.signupFlagged = FALSE], Nothing))
    BY <1>8 DEF ResolveFlagged, Read
  <2>2. [users[u] EXCEPT !.signupFlagged = FALSE] \in Row
    BY <1>0, <1>8, Profiles DEF ResolveFlagged, Read
  <2>3. Rest /\ torn' \subseteq Users
    BY <1>0, <1>8 DEF ResolveFlagged, Read, Rest, Contend, AccountsTypeOK
  <2> QED
    BY <1>0, <2>1, <2>2, <2>3, ArrivalTypes DEF AccountAwaits, Kinds
<1>9. ASSUME NEW s \in Slots, NEW u \in Users, DeleteAccount(s, u)
      PROVE  AccountsTypeOK'
  <2>1. PICK a \in {"security.delete", "user.delete"} :
          Arrive(s, Call(a, "delete", u, NoRow, Nothing))
    BY <1>9 DEF DeleteAccount
  <2>2. a \in AccountAwaits
    BY DEF AccountAwaits
  <2>3. Rest /\ torn' \subseteq Users
    BY <1>0, <1>9 DEF DeleteAccount, Rest, Contend, AccountsTypeOK
  <2> QED
    BY <1>0, <2>1, <2>2, <2>3, ArrivalTypes DEF AccountAwaits, Kinds
<1>10. ASSUME NEW s \in Slots, FindAccount(s)
      PROVE  AccountsTypeOK'
  <2>1. Untouched /\ UNCHANGED <<abuse, resolved, checked>>
    BY <1>0, <1>10, Finding
  <2>2. req' \in [Slots -> Request \cup {NoRequest}]
    <3>1. ~Idle(s) /\ "insert" \in AccountAwaits
      BY <1>10 DEF FindAccount, At, AccountAwaits
    <3>2. Await(s, "insert") => req' \in [Slots -> Request \cup {NoRequest}]
      BY <1>0, <3>1, Awaiting DEF Steps
    <3>3. Answer(s) => req' \in [Slots -> Request \cup {NoRequest}]
      BY <1>0, <3>1, Answering
    <3> QED
      BY <1>0, <1>10, <3>2, <3>3, Finding DEF Becomes
  <2>3. torn' \subseteq Users
    BY <1>0, <1>10, Finding DEF Contend, AccountsTypeOK
  <2> QED
    BY <1>0, <2>1, <2>2, <2>3 DEF Untouched, AccountsTypeOK
<1>11. ASSUME NEW s \in Slots, InsertAccount(s)
      PROVE  AccountsTypeOK'
  <2>1. ~Idle(s) /\ req[s] \in Request /\ req[s].entity \in Row
    BY <1>0, <1>11, InHandOf DEF InsertAccount, At, InHand, BeforeUser, Request
  <2>2. PICK u \in Users :
          IF Refused(u, req[s].entity) THEN Answer(s) /\ UNCHANGED users
          ELSE /\ users' = [users EXCEPT ![u] =
                     [req[s].entity EXCEPT !.signupIp = Nothing,
                                           !.signupFingerprint = Nothing]]
               /\ IF req[s].kind = "google" THEN Answer(s)
                  ELSE req' = [req EXCEPT ![s].at = "security.find", ![s].user = u]
    BY <1>11 DEF InsertAccount
  <2> DEFINE e == [req[s].entity EXCEPT !.signupIp = Nothing, !.signupFingerprint = Nothing]
             q == [[req[s] EXCEPT !.at = "security.find"] EXCEPT !.user = u]
  <2>3. e \in Row /\ q \in Request
    BY <2>1 DEF Row, Request, AccountAwaits
  <2>4. users' = users \/ users' = [users EXCEPT ![u] = e]
    BY <2>2
  <2>5. Answer(s) \/ req' = [req EXCEPT ![s] = q]
    BY <1>0, <2>2 DEF AccountsTypeOK
  <2>6. UNCHANGED <<security, age, reset, followUpVars, arrived, historyVars>>
    BY <1>11 DEF InsertAccount
  <2> HIDE DEF e, q
  <2> QED
    BY <1>0, <2>3, <2>4, <2>5, <2>6, Answering DEF AccountsTypeOK
<1>12. ASSUME NEW s \in Slots, FindSecurity(s)
      PROVE  AccountsTypeOK'
  <2>1. req' \in [Slots -> Request \cup {NoRequest}]
    BY <1>0, <1>12, Awaiting, Answering DEF FindSecurity, At, AccountAwaits, Steps
  <2>2. security' \in [Users -> Passwords \cup {Nothing}]
    BY <1>0, <1>12, InHandOf DEF FindSecurity, At, InHand, BeforeUser, AccountsTypeOK,
       Request
  <2> QED
    BY <1>0, <1>12, <2>1, <2>2 DEF FindSecurity, AccountsTypeOK
<1>13. ASSUME NEW s \in Slots, SaveSecurity(s)
      PROVE  AccountsTypeOK'
  BY <1>0, <1>13, InHandOf, Awaiting, Answering, RowStored
    DEF SaveSecurity, At, InHand, BeforeUser, Steps, AccountAwaits, Overtake, Request,
        Idle, AccountsTypeOK
<1>14. ASSUME NEW s \in Slots, SaveSignup(s)
      PROVE  AccountsTypeOK'
  <2>1. ~Idle(s) /\ req[s] \in Request /\ req[s].entity \in Row /\ req[s].user \in Users
    BY <1>0, <1>14, InHandOf DEF SaveSignup, At, InHand, BeforeUser, Request
  <2>2. users' \in [Users -> Row \cup {NoRow}]
    BY <1>0, <1>14, <2>1, RowStored DEF SaveSignup
  <2>3. lookup' \in [Users -> SUBSET Row]
    BY <1>0, <1>14, <2>1 DEF SaveSignup, AccountsTypeOK
  <2>4. abuse' \subseteq Check
    <3> DEFINE e == req[s].entity
               check(dv) == [user |-> req[s].user, at |-> "match", device |-> dv,
                            subnet |-> e.signupIp, others |-> {}, near |-> FALSE]
    <3>1. /\ e.signupFingerprint \in Devices \cup {Nothing}
          /\ \A dv \in Devices : check(dv) \in Check
      BY <2>1 DEF Row, Check
    <3>2. \/ abuse' = abuse
          \/ abuse' = abuse \cup {check(dv) : dv \in {e.signupFingerprint} \ {Nothing}}
      BY <1>14 DEF SaveSignup
    <3> HIDE DEF e, check
    <3> QED
      BY <1>0, <3>1, <3>2 DEF AccountsTypeOK
  <2>5. stale' \subseteq Users
    BY <1>0, <1>14, <2>1 DEF SaveSignup, Overtake, AccountsTypeOK
  <2>6. req' \in [Slots -> Request \cup {NoRequest}]
    BY <1>0, <1>14, Answering DEF SaveSignup
  <2> QED
    BY <1>0, <1>14, <2>2, <2>3, <2>4, <2>5, <2>6 DEF SaveSignup, AccountsTypeOK
<1>15. ASSUME NEW s \in Slots, Hash(s)
      PROVE  AccountsTypeOK'
  <2>1. req' \in [Slots -> Request \cup {NoRequest}]
    BY <1>0, <1>15, Awaiting DEF Hash, At, AccountAwaits, Steps
  <2>2. users' \in [Users -> Row \cup {NoRow}]
    <3>1. req[s].user \in Users /\ req[s].password \in Passwords
      BY <1>0, <1>15, InHandOf DEF Hash, At, InHand, BeforeUser
    <3> DEFINE v == req[s].user
               p == req[s].password
    <3>2. CASE Exists(v)
      <4>1. users[v] \in Row
        BY <1>0, <3>1, <3>2 DEF AccountsTypeOK, Exists
      <4>2. [users[v] EXCEPT !.passwordHash = p] \in Row
        BY <3>1, <4>1 DEF Row
      <4>3. users' = [users EXCEPT ![v] = [users[v] EXCEPT !.passwordHash = p]]
        BY <1>0, <1>15, <3>2 DEF Hash, AccountsTypeOK
      <4> QED
        BY <1>0, <4>2, <4>3 DEF AccountsTypeOK
    <3> QED
      BY <1>0, <1>15, <3>2 DEF Hash, AccountsTypeOK
  <2>3. stale' \subseteq Users
    BY <1>0, <1>15, InHandOf DEF Hash, At, InHand, BeforeUser, Overtake, AccountsTypeOK
  <2> QED
    BY <1>0, <1>15, <2>1, <2>2, <2>3 DEF Hash, AccountsTypeOK
<1>16. ASSUME NEW s \in Slots, Wrap(s)
      PROVE  AccountsTypeOK'
  <2>1. req' \in [Slots -> Request \cup {NoRequest}]
    BY <1>0, <1>16, Awaiting, Answering DEF Wrap, At, AccountAwaits, Steps
  <2>2. security' \in [Users -> Passwords \cup {Nothing}]
    BY <1>0, <1>16, InHandOf DEF Wrap, At, InHand, BeforeUser, AccountsTypeOK, Request
  <2> QED
    BY <1>0, <1>16, <2>1, <2>2 DEF Wrap, AccountsTypeOK
<1>17. ASSUME NEW s \in Slots, ConsumeReset(s)
      PROVE  AccountsTypeOK'
  BY <1>0, <1>17, InHandOf, Awaiting, Answering, RowStored
    DEF ConsumeReset, At, InHand, BeforeUser, Steps, AccountAwaits, Overtake, Request,
        Idle, AccountsTypeOK
<1>18. ASSUME NEW s \in Slots, SaveEntity(s)
      PROVE  AccountsTypeOK'
  BY <1>0, <1>18, InHandOf, Awaiting, Answering, RowStored
    DEF SaveEntity, At, InHand, BeforeUser, Steps, AccountAwaits, Overtake, Request,
        Idle, AccountsTypeOK
<1>19. ASSUME NEW s \in Slots, DeleteSecurity(s)
      PROVE  AccountsTypeOK'
  BY <1>0, <1>19, InHandOf, Awaiting, Answering, RowStored
    DEF DeleteSecurity, At, InHand, BeforeUser, Steps, AccountAwaits, Overtake, Request,
        Idle, AccountsTypeOK
<1>20. ASSUME NEW s \in Slots, DeleteUserRow(s)
      PROVE  AccountsTypeOK'
  BY <1>0, <1>20, InHandOf, Awaiting, Answering, RowStored
    DEF DeleteUserRow, At, InHand, BeforeUser, Steps, AccountAwaits, Overtake, Request,
        Idle, AccountsTypeOK
<1>21. ASSUME NEW s \in Slots, AbortRequest(s)
      PROVE  AccountsTypeOK'
  <2>1. torn' \subseteq Users
    BY <1>0, <1>21, InHandOf DEF AbortRequest, InHand, BeforeUser, Credentials,
       AccountsTypeOK
  <2> QED
    BY <1>0, <1>21, <2>1, Answering DEF AbortRequest, AccountsTypeOK
<1>22. ASSUME NEW u \in Users, LookupDone(u)
      PROVE  AccountsTypeOK'
  BY <1>0, <1>22 DEF LookupDone, AccountsTypeOK, Exists, Row, SaveUser, Overtake
<1>23. ASSUME NEW u \in Users, LookupLost(u)
      PROVE  AccountsTypeOK'
  BY <1>0, <1>23 DEF LookupLost, AccountsTypeOK, Exists, Row, SaveUser, Overtake
<1>24. ASSUME NEW c \in abuse, AbuseMatch(c)
      PROVE  AccountsTypeOK'
  BY <1>0, <1>24, Matching DEF Untouched, AccountsTypeOK
<1>25. ASSUME NEW c \in abuse, AbuseFlag(c)
      PROVE  AccountsTypeOK'
  <2>1. c \in Check
    BY <1>0 DEF AccountsTypeOK
  <2>2. users' \in [Users -> Row \cup {NoRow}]
    <3>1. \A v \in Users : Exists(v) =>
            /\ [users[v] EXCEPT !.signupFlagged = TRUE] \in Row
            /\ [users[v] EXCEPT !.isActive = FALSE] \in Row
      BY <1>0, Profiles DEF Row
    <3> QED
      BY <1>0, <1>25, <2>1, <3>1 DEF AbuseFlag, AccountsTypeOK, Check
  <2>3. abuse' \subseteq Check /\ checked' \subseteq Users
    BY <1>0, <1>25, <2>1 DEF AbuseFlag, AccountsTypeOK, Check
  <2>4. stale' \subseteq Users
    BY <1>0, <1>25, <2>1 DEF AbuseFlag, Overtake, AccountsTypeOK, Check
  <2> QED
    BY <1>0, <1>25, <2>2, <2>3, <2>4 DEF AbuseFlag, AccountsTypeOK
<1>26. ASSUME NEW c \in abuse, AbuseBlock(c)
      PROVE  AccountsTypeOK'
  <2>1. c \in Check
    BY <1>0 DEF AccountsTypeOK
  <2>2. users' \in [Users -> Row \cup {NoRow}]
    <3>1. \A v \in Users : Exists(v) =>
            /\ [users[v] EXCEPT !.signupFlagged = TRUE] \in Row
            /\ [users[v] EXCEPT !.isActive = FALSE] \in Row
      BY <1>0, Profiles DEF Row
    <3> QED
      BY <1>0, <1>26, <2>1, <3>1 DEF AbuseBlock, AccountsTypeOK, Check
  <2>3. abuse' \subseteq Check /\ checked' \subseteq Users
    BY <1>0, <1>26, <2>1 DEF AbuseBlock, AccountsTypeOK, Check
  <2>4. stale' \subseteq Users
    BY <1>0, <1>26, <2>1 DEF AbuseBlock, Overtake, AccountsTypeOK, Check
  <2> QED
    BY <1>0, <1>26, <2>2, <2>3, <2>4 DEF AbuseBlock, AccountsTypeOK
<1>27. ASSUME NEW c \in abuse, AbuseFails(c)
      PROVE  AccountsTypeOK'
  BY <1>0, <1>27 DEF AbuseFails, AccountsTypeOK, Exists, Row, SaveUser, Overtake
<1>28. ASSUME NEW u \in Users, OpenReset(u)
      PROVE  AccountsTypeOK'
  BY <1>0, <1>28 DEF OpenReset, AccountsTypeOK, Exists, Row, SaveUser, Overtake
<1>29. ASSUME NEW u \in Users, ExpireReset(u)
      PROVE  AccountsTypeOK'
  BY <1>0, <1>29 DEF ExpireReset, AccountsTypeOK, Exists, Row, SaveUser, Overtake
<1>30. ASSUME NEW u \in Users, Age(u)
      PROVE  AccountsTypeOK'
  BY <1>0, <1>30 DEF Age, AccountsTypeOK, Exists, Row, SaveUser, Overtake
<1> HIDE DEF AccountsTypeOK
<1> QED
  BY <1>1, <1>2, <1>3, <1>4, <1>5, <1>6, <1>7, <1>8, <1>9, <1>10, <1>11, <1>12, <1>13,
     <1>14, <1>15, <1>16, <1>17, <1>18, <1>19, <1>20, <1>21, <1>22, <1>23, <1>24, <1>25,
     <1>26, <1>27, <1>28, <1>29, <1>30
     DEF AccountsNext, Arrival, RequestStep, FollowUp

\* Local rows, stored or held, keep having a password.
LEMMA KeepsRowsWhole ==
  ASSUME AccountsInv, AccountsNext
  PROVE  RowsWhole'
<1> USE NothingAssumption
<1>0. /\ AccountsTypeOK /\ RowsWhole /\ RequestsInOrder /\ OneChange /\ HeldIsCurrent
      /\ DeletedIsGone /\ NoOrphans /\ RowsAgree
  BY DEF AccountsInv
<1>1. ASSUME NEW s \in Slots, NEW e \in Emails, NEW p \in Passwords,
             NEW d \in Devices \cup {Nothing}, NEW n \in Subnets, Register(s, e, p, d, n)
      PROVE  RowsWhole'
  BY <1>0, <1>1 DEF Register, RowsWhole, followUpVars, historyVars, LocalRow, Arrive,
     Call, NoRow, Exists, Idle, Whole, NoRequest
<1>2. ASSUME NEW s \in Slots, NEW e \in Emails, NEW sub \in Emails, GoogleSignIn(s, e, sub)
      PROVE  RowsWhole'
  BY <1>0, <1>2 DEF GoogleSignIn, RowsWhole, followUpVars, historyVars, GoogleRow,
     Arrive, Call, NoRow, Exists, Idle, Whole, LocalRow, NoRequest
<1>3. ASSUME NEW s \in Slots, NEW u \in Users, NEW p \in Passwords, SetupSecurity(s, u, p)
      PROVE  RowsWhole'
  BY <1>0, <1>3 DEF SetupSecurity, RowsWhole, NoRow, followUpVars, Exists, Arrive,
     Call, Contend, Idle, Whole, Working, Others, Credentials, NoRequest
<1>4. ASSUME NEW s \in Slots, NEW u \in Users, NEW p \in Passwords, ChangePassword(s, u, p)
      PROVE  RowsWhole'
  BY <1>0, <1>4 DEF ChangePassword, RowsWhole, NoRow, followUpVars, Exists, Arrive,
     Call, Contend, FirstStep, Idle, Whole, Working, Others, Credentials, NoRequest
<1>5. ASSUME NEW s \in Slots, NEW u \in Users, NEW p \in Passwords, CompleteReset(s, u, p)
      PROVE  RowsWhole'
  BY <1>0, <1>5 DEF CompleteReset, RowsWhole, NoRow, followUpVars, Exists, Arrive,
     Call, Contend, FirstStep, Idle, Whole, Working, Others, Credentials, NoRequest
<1>6. ASSUME NEW s \in Slots, NEW u \in Users, UpdateProfile(s, u)
      PROVE  RowsWhole'
  BY <1>0, <1>6 DEF UpdateProfile, RowsWhole, Read, NoRow, Exists, Idle, Whole,
     followUpVars, historyVars, Arrive, Call, NoRequest
<1>7. ASSUME NEW s \in Slots, NEW u \in Users, UpdateUserStatus(s, u)
      PROVE  RowsWhole'
  BY <1>0, <1>7 DEF UpdateUserStatus, RowsWhole, Read, NoRow, Exists, Idle, Whole,
     followUpVars, historyVars, Arrive, Call, NoRequest
<1>8. ASSUME NEW s \in Slots, NEW u \in Users, ResolveFlagged(s, u)
      PROVE  RowsWhole'
  BY <1>0, <1>8 DEF ResolveFlagged, RowsWhole, Read, NoRow, Exists, Idle, Whole,
     followUpVars, historyVars, Arrive, Call, NoRequest
<1>9. ASSUME NEW s \in Slots, NEW u \in Users, DeleteAccount(s, u)
      PROVE  RowsWhole'
  BY <1>0, <1>9 DEF DeleteAccount, RowsWhole, NoRow, followUpVars, Exists, Arrive,
     Call, Contend, Idle, Whole, Working, Others, Credentials, NoRequest
<1>10. ASSUME NEW s \in Slots, FindAccount(s)
      PROVE  RowsWhole'
  BY <1>0, <1>10, Finding DEF RowsWhole, AccountsTypeOK, RequestsInOrder, NoOrphans,
     HeldIsCurrent, OneChange, DeletedIsGone, Await, Answer, Contend, Others, Working,
     Idle, At, NoRow, Exists, Whole, Row, Request, NoRequest, Check, InHand, Same,
     ChangesIn, Credentials, Kinds, AccountAwaits, BeforeUser, SecurityAwaits, Becomes,
     Untouched
<1>11. ASSUME NEW s \in Slots, InsertAccount(s)
      PROVE  RowsWhole'
  <2>1. ~Idle(s) /\ req[s].entity # NoRow /\ Whole(req[s].entity)
    BY <1>0, <1>11, InHandOf DEF InsertAccount, At, InHand, BeforeUser, RowsWhole
  <2>2. \A u \in Users : users'[u] = users[u] \/ Whole(users'[u])
    BY <1>0, <1>11, <2>1, Inserting DEF Same, Whole, AccountsTypeOK
  <2>3. /\ \A r \in Slots \ {s} : req'[r] = req[r]
        /\ req'[s] = NoRequest \/ req'[s].entity = req[s].entity
        /\ lookup' = lookup
    BY <1>0, <1>11, Inserting, Answering DEF Becomes
  <2> QED
    BY <1>0, <2>1, <2>2, <2>3 DEF RowsWhole, Exists, Idle
<1>12. ASSUME NEW s \in Slots, FindSecurity(s)
      PROVE  RowsWhole'
  BY <1>0, <1>12 DEF FindSecurity, RowsWhole, AccountsTypeOK, followUpVars,
     historyVars, At, Await, Answer, NoRow, Exists, Idle, Whole, Row, Request, NoRequest,
     Check, Kinds, AccountAwaits
<1>13. ASSUME NEW s \in Slots, SaveSecurity(s)
      PROVE  RowsWhole'
  BY <1>0, <1>13 DEF SaveSecurity, RowsWhole, AccountsTypeOK, followUpVars,
     historyVars, Exists, At, Await, Answer, NoRow, Idle, Whole, Row, Request, NoRequest,
     Check, Kinds, AccountAwaits
<1>14. ASSUME NEW s \in Slots, SaveSignup(s)
      PROVE  RowsWhole'
  BY <1>0, <1>14 DEF SaveSignup, RowsWhole, AccountsTypeOK, RequestsInOrder,
     followUpVars, At, Answer, Overtake, Others, Refused, SaveUser, NoRow, Exists, Idle,
     Whole, Row, Request, NoRequest, Check, InHand, Holding, Kinds, AccountAwaits,
     BeforeUser, SecurityAwaits, Working
<1>15. ASSUME NEW s \in Slots, Hash(s)
      PROVE  RowsWhole'
  BY <1>0, <1>15 DEF Hash, RowsWhole, AccountsTypeOK, RequestsInOrder, followUpVars,
     Exists, At, Await, Overtake, Others, NoRow, Idle, Whole, Row, Request, NoRequest,
     Check, InHand, Holding, Kinds, AccountAwaits, BeforeUser, SecurityAwaits, Working
<1>16. ASSUME NEW s \in Slots, Wrap(s)
      PROVE  RowsWhole'
  BY <1>0, <1>16 DEF Wrap, RowsWhole, AccountsTypeOK, followUpVars, historyVars, At,
     Await, Answer, NoRow, Exists, Idle, Whole, Row, Request, NoRequest, Check, Kinds,
     AccountAwaits
<1>17. ASSUME NEW s \in Slots, ConsumeReset(s)
      PROVE  RowsWhole'
  BY <1>0, <1>17 DEF ConsumeReset, RowsWhole, followUpVars, historyVars, At, Answer,
     NoRow, Exists, Idle, Whole, NoRequest
<1>18. ASSUME NEW s \in Slots, SaveEntity(s)
      PROVE  RowsWhole'
  BY <1>0, <1>18 DEF SaveEntity, RowsWhole, followUpVars, At, Answer, Overtake,
     Others, Refused, SaveUser, NoRow, Exists, Idle, Whole, NoRequest, Holding, Working
<1>19. ASSUME NEW s \in Slots, DeleteSecurity(s)
      PROVE  RowsWhole'
  BY <1>0, <1>19 DEF DeleteSecurity, RowsWhole, followUpVars, historyVars, At, Await,
     NoRow, Exists, Idle, Whole, NoRequest
<1>20. ASSUME NEW s \in Slots, DeleteUserRow(s)
      PROVE  RowsWhole'
  BY <1>0, <1>20 DEF DeleteUserRow, RowsWhole, NoRow, followUpVars, At, Answer,
     Overtake, Others, Exists, Idle, Whole, NoRequest, Holding, Working
<1>21. ASSUME NEW s \in Slots, AbortRequest(s)
      PROVE  RowsWhole'
  BY <1>0, <1>21 DEF AbortRequest, RowsWhole, followUpVars, Idle, Answer, Credentials,
     NoRow, Exists, Whole, NoRequest
<1>22. ASSUME NEW u \in Users, LookupDone(u)
      PROVE  RowsWhole'
  BY <1>0, <1>22 DEF LookupDone, RowsWhole, NoRow, Working, SaveUser, Exists, Idle,
     Whole, Refused, NoRequest
<1>23. ASSUME NEW u \in Users, LookupLost(u)
      PROVE  RowsWhole'
  BY <1>0, <1>23 DEF LookupLost, RowsWhole, historyVars, NoRow, Exists, Idle, Whole,
     NoRequest
<1>24. ASSUME NEW c \in abuse, AbuseFlag(c)
      PROVE  RowsWhole'
  BY <1>0, <1>24 DEF AbuseFlag, RowsWhole, Exists, Overtake, NoRow, Idle, Whole,
     Holding, NoRequest, Working
<1>25. ASSUME NEW c \in abuse, AbuseBlock(c)
      PROVE  RowsWhole'
  BY <1>0, <1>25 DEF AbuseBlock, RowsWhole, Exists, Overtake, NoRow, Idle, Whole,
     Holding, NoRequest, Working
<1>26. ASSUME UNCHANGED <<users, req, lookup>>
      PROVE  RowsWhole'
  BY <1>0, <1>26 DEF RowsWhole, Exists, Idle
<1> HIDE DEF RowsWhole
<1> QED
  BY <1>1, <1>2, <1>3, <1>4, <1>5, <1>6, <1>7, <1>8, <1>9, <1>10, <1>11, <1>12, <1>13,
     <1>14, <1>15, <1>16, <1>17, <1>18, <1>19, <1>20, <1>21, <1>22, <1>23, <1>24, <1>25,
     <1>26
     DEF AccountsNext, Arrival, RequestStep, FollowUp, AbuseMatch, AbuseFails, OpenReset,
         ExpireReset, Age, followUpVars, historyVars

\* Requests have in hand what their await says.
LEMMA KeepsRequestsInOrder ==
  ASSUME AccountsInv, AccountsNext
  PROVE  RequestsInOrder'
<1> USE NothingAssumption
<1>0. /\ AccountsTypeOK /\ RowsWhole /\ RequestsInOrder /\ OneChange /\ HeldIsCurrent
      /\ DeletedIsGone /\ NoOrphans /\ RowsAgree
  BY DEF AccountsInv
<1>1. ASSUME NEW s \in Slots, NEW e \in Emails, NEW p \in Passwords,
             NEW d \in Devices \cup {Nothing}, NEW n \in Subnets, Register(s, e, p, d, n)
      PROVE  RequestsInOrder'
  <2> DEFINE e1 == [LocalRow(e, p) EXCEPT !.signupFingerprint = d, !.signupIp = n]
  <2>1. e1 \in Row /\ e1.provider = "local" /\ e1.passwordHash = p
    BY RowsBuilt DEF Row, LocalRow
  <2>2. Arrive(s, Call("find", "register", Nothing, e1, p))
    BY <1>1 DEF Register
  <2>3. UNCHANGED <<users, deleted>>
    BY <1>1 DEF Register, historyVars
  <2> HIDE DEF e1
  <2>4. /\ req'[s].at = "find" /\ req'[s].kind = "register" /\ req'[s].user = Nothing
        /\ req'[s].entity = e1 /\ req'[s].password = p
        /\ \A r \in Slots \ {s} : req'[r] = req[r]
    BY <1>0, <2>1, <2>2, Arriving DEF AccountAwaits, Kinds
  <2>5. InHand(req[s])'
    BY <2>1, <2>4, RowExists DEF InHand, BeforeUser, SecurityAwaits
  <2>6. ASSUME NEW r \in Slots \ {s}, ~Idle(r)'
        PROVE  InHand(req[r])'
    BY <1>0, <2>3, <2>4, <2>6 DEF RequestsInOrder, InHand, Exists, Idle
  <2> QED
    BY <2>5, <2>6 DEF RequestsInOrder
<1>2. ASSUME NEW s \in Slots, NEW e \in Emails, NEW sub \in Emails, GoogleSignIn(s, e, sub)
      PROVE  RequestsInOrder'
  <2> DEFINE e1 == GoogleRow(e, sub)
  <2>1. e1 \in Row /\ e1.provider = "google"
    BY GoogleRows
  <2>2. Arrive(s, Call("find", "google", Nothing, e1, Nothing))
    BY <1>2 DEF GoogleSignIn
  <2>3. UNCHANGED <<users, deleted>>
    BY <1>2 DEF GoogleSignIn, historyVars
  <2> HIDE DEF e1
  <2>4. /\ req'[s].at = "find" /\ req'[s].kind = "google" /\ req'[s].user = Nothing
        /\ req'[s].entity = e1 /\ req'[s].password = Nothing
        /\ \A r \in Slots \ {s} : req'[r] = req[r]
    BY <1>0, <2>1, <2>2, Arriving DEF AccountAwaits, Kinds
  <2>5. InHand(req[s])'
    BY <2>1, <2>4, RowExists DEF InHand, BeforeUser, SecurityAwaits
  <2>6. ASSUME NEW r \in Slots \ {s}, ~Idle(r)'
        PROVE  InHand(req[r])'
    BY <1>0, <2>3, <2>4, <2>6 DEF RequestsInOrder, InHand, Exists, Idle
  <2> QED
    BY <2>5, <2>6 DEF RequestsInOrder
<1>3. ASSUME NEW s \in Slots, NEW u \in Users, NEW p \in Passwords, SetupSecurity(s, u, p)
      PROVE  RequestsInOrder'
  BY <1>0, <1>3 DEF SetupSecurity, RequestsInOrder, NoRow, followUpVars, Exists,
     Arrive, Call, Contend, Idle, InHand, Working, Others, Credentials, NoRequest,
     BeforeUser, SecurityAwaits
<1>4. ASSUME NEW s \in Slots, NEW u \in Users, NEW p \in Passwords, ChangePassword(s, u, p)
      PROVE  RequestsInOrder'
  BY <1>0, <1>4 DEF ChangePassword, RequestsInOrder, NoRow, followUpVars, Exists,
     Arrive, Call, Contend, FirstStep, Idle, InHand, Working, Others, Credentials,
     NoRequest, BeforeUser, SecurityAwaits
<1>5. ASSUME NEW s \in Slots, NEW u \in Users, NEW p \in Passwords, CompleteReset(s, u, p)
      PROVE  RequestsInOrder'
  BY <1>0, <1>5 DEF CompleteReset, RequestsInOrder, NoRow, followUpVars, Exists,
     Arrive, Call, Contend, FirstStep, Idle, InHand, Working, Others, Credentials,
     NoRequest, BeforeUser, SecurityAwaits
<1>6. ASSUME NEW s \in Slots, NEW u \in Users, UpdateProfile(s, u)
      PROVE  RequestsInOrder'
  BY <1>0, <1>6 DEF UpdateProfile, RequestsInOrder, Read, Idle, InHand, followUpVars,
     historyVars, Exists, Arrive, Call, NoRequest, NoRow, BeforeUser, SecurityAwaits
<1>7. ASSUME NEW s \in Slots, NEW u \in Users, UpdateUserStatus(s, u)
      PROVE  RequestsInOrder'
  BY <1>0, <1>7 DEF UpdateUserStatus, RequestsInOrder, AccountsTypeOK, Read, Idle,
     InHand, Row, NoRow, Request, NoRequest, Check, followUpVars, historyVars, Exists,
     Arrive, Call, BeforeUser, SecurityAwaits, Kinds, AccountAwaits
<1>8. ASSUME NEW s \in Slots, NEW u \in Users, ResolveFlagged(s, u)
      PROVE  RequestsInOrder'
  BY <1>0, <1>8 DEF ResolveFlagged, RequestsInOrder, AccountsTypeOK, Read, Idle,
     InHand, Row, NoRow, Request, NoRequest, Check, followUpVars, historyVars, Exists,
     Arrive, Call, BeforeUser, SecurityAwaits, Kinds, AccountAwaits
<1>9. ASSUME NEW s \in Slots, NEW u \in Users, DeleteAccount(s, u)
      PROVE  RequestsInOrder'
  BY <1>0, <1>9 DEF DeleteAccount, RequestsInOrder, NoRow, followUpVars, Exists,
     Arrive, Call, Contend, Idle, InHand, Working, Others, Credentials, NoRequest,
     BeforeUser, SecurityAwaits
<1>10. ASSUME NEW s \in Slots, FindAccount(s)
      PROVE  RequestsInOrder'
  <2>1. ~Idle(s) /\ req[s].at = "find" /\ InHand(req[s])
    BY <1>0, <1>10, InHandOf DEF FindAccount, At
  <2>2. UNCHANGED <<users, deleted>>
    BY <1>0, <1>10, Finding DEF Untouched
  <2>3. CASE Await(s, "insert")
    BY <1>0, <2>1, <2>2, <2>3, Awaiting
       DEF Steps, AccountAwaits, RequestsInOrder, InHand, BeforeUser, SecurityAwaits,
           Exists, Idle
  <2>4. CASE Answer(s)
    BY <1>0, <2>2, <2>4, Answering DEF RequestsInOrder, InHand, Exists, Idle
  <2>5. ASSUME NEW u \in Users, NEW e \in Row, Exists(u),
               \/ req[s].kind = "register" /\ Becomes(s, "security.find", u, e)
               \/ req[s].kind = "google" /\ Becomes(s, "save", u, e)
        PROVE  RequestsInOrder'
    <3>1. e # NoRow
      BY RowExists
    <3>2. req[s].kind = "register" => req[s].password \in Passwords
      BY <1>0, <1>10, <2>1 DEF InHand, BeforeUser, RowsWhole, Whole
    <3> QED
      BY <1>0, <2>1, <2>2, <2>5, <3>1, <3>2
         DEF Becomes, RequestsInOrder, InHand, BeforeUser, SecurityAwaits, Exists, Idle
  <2> QED
    BY <1>0, <1>10, <2>3, <2>4, <2>5, Finding
<1>11. ASSUME NEW s \in Slots, InsertAccount(s)
      PROVE  RequestsInOrder'
  BY <1>0, <1>11 DEF InsertAccount, RequestsInOrder, AccountsTypeOK, followUpVars,
     historyVars, At, Answer, Refused, Unused, Idle, InHand, Row, NoRow, Request,
     NoRequest, Check, Exists, Working, BeforeUser, SecurityAwaits, Kinds, AccountAwaits
<1>12. ASSUME NEW s \in Slots, FindSecurity(s)
      PROVE  RequestsInOrder'
  BY <1>0, <1>12 DEF FindSecurity, RequestsInOrder, AccountsTypeOK, followUpVars,
     historyVars, At, Await, Answer, Idle, InHand, Row, NoRow, Request, NoRequest, Check,
     Exists, BeforeUser, SecurityAwaits, Kinds, AccountAwaits
<1>13. ASSUME NEW s \in Slots, SaveSecurity(s)
      PROVE  RequestsInOrder'
  BY <1>0, <1>13 DEF SaveSecurity, RequestsInOrder, AccountsTypeOK, followUpVars,
     historyVars, Exists, At, Await, Answer, Idle, InHand, Row, NoRow, Request,
     NoRequest, Check, BeforeUser, SecurityAwaits, Kinds, AccountAwaits
<1>14. ASSUME NEW s \in Slots, SaveSignup(s)
      PROVE  RequestsInOrder'
  BY <1>0, <1>14 DEF SaveSignup, RequestsInOrder, followUpVars, At, Answer, Overtake,
     Others, Refused, SaveUser, Idle, InHand, NoRequest, Holding, Exists, NoRow,
     BeforeUser, SecurityAwaits, Working
<1>15. ASSUME NEW s \in Slots, Hash(s)
      PROVE  RequestsInOrder'
  BY <1>0, <1>15 DEF Hash, RequestsInOrder, AccountsTypeOK, followUpVars, Exists, At,
     Await, Overtake, Others, Idle, InHand, Row, NoRow, Request, NoRequest, Check,
     Holding, BeforeUser, SecurityAwaits, Kinds, AccountAwaits, Working
<1>16. ASSUME NEW s \in Slots, Wrap(s)
      PROVE  RequestsInOrder'
  BY <1>0, <1>16 DEF Wrap, RequestsInOrder, AccountsTypeOK, followUpVars, historyVars,
     At, Await, Answer, Idle, InHand, Row, NoRow, Request, NoRequest, Check, Exists,
     BeforeUser, SecurityAwaits, Kinds, AccountAwaits
<1>17. ASSUME NEW s \in Slots, ConsumeReset(s)
      PROVE  RequestsInOrder'
  BY <1>0, <1>17 DEF ConsumeReset, RequestsInOrder, followUpVars, historyVars, At,
     Answer, Idle, InHand, NoRequest, NoRow, Exists, BeforeUser, SecurityAwaits
<1>18. ASSUME NEW s \in Slots, SaveEntity(s)
      PROVE  RequestsInOrder'
  BY <1>0, <1>18 DEF SaveEntity, RequestsInOrder, followUpVars, At, Answer, Overtake,
     Others, Refused, SaveUser, Idle, InHand, NoRequest, Holding, Exists, NoRow,
     BeforeUser, SecurityAwaits, Working
<1>19. ASSUME NEW s \in Slots, DeleteSecurity(s)
      PROVE  RequestsInOrder'
  BY <1>0, <1>19 DEF DeleteSecurity, RequestsInOrder, followUpVars, historyVars, At,
     Await, Idle, InHand, NoRequest, NoRow, Exists, BeforeUser, SecurityAwaits
<1>20. ASSUME NEW s \in Slots, DeleteUserRow(s)
      PROVE  RequestsInOrder'
  BY <1>0, <1>20 DEF DeleteUserRow, RequestsInOrder, NoRow, followUpVars, At, Answer,
     Overtake, Others, Idle, InHand, NoRequest, Holding, Exists, BeforeUser,
     SecurityAwaits, Working
<1>21. ASSUME NEW s \in Slots, AbortRequest(s)
      PROVE  RequestsInOrder'
  BY <1>0, <1>21 DEF AbortRequest, RequestsInOrder, followUpVars, Idle, Answer,
     Credentials, InHand, NoRequest, NoRow, Exists, BeforeUser, SecurityAwaits
<1>22. ASSUME NEW u \in Users, LookupDone(u)
      PROVE  RequestsInOrder'
  BY <1>0, <1>22 DEF LookupDone, RequestsInOrder, AccountsTypeOK, NoRow, Working,
     SaveUser, Idle, InHand, Row, Request, NoRequest, Check, Refused, Exists, BeforeUser,
     SecurityAwaits, Kinds, AccountAwaits
<1>23. ASSUME NEW c \in abuse, AbuseFlag(c)
      PROVE  RequestsInOrder'
  BY <1>0, <1>23 DEF AbuseFlag, RequestsInOrder, AccountsTypeOK, Exists, Overtake,
     Idle, InHand, Row, NoRow, Request, NoRequest, Check, Holding, BeforeUser,
     SecurityAwaits, Kinds, AccountAwaits, Working
<1>24. ASSUME NEW c \in abuse, AbuseBlock(c)
      PROVE  RequestsInOrder'
  BY <1>0, <1>24 DEF AbuseBlock, RequestsInOrder, AccountsTypeOK, Exists, Overtake,
     Idle, InHand, Row, NoRow, Request, NoRequest, Check, Holding, BeforeUser,
     SecurityAwaits, Kinds, AccountAwaits, Working
<1>25. ASSUME UNCHANGED <<users, req, deleted>>
      PROVE  RequestsInOrder'
  BY <1>0, <1>25 DEF RequestsInOrder, Idle, InHand, Exists
<1> HIDE DEF RequestsInOrder
<1> QED
  BY <1>1, <1>2, <1>3, <1>4, <1>5, <1>6, <1>7, <1>8, <1>9, <1>10, <1>11, <1>12, <1>13,
     <1>14, <1>15, <1>16, <1>17, <1>18, <1>19, <1>20, <1>21, <1>22, <1>23, <1>24, <1>25
     DEF AccountsNext, Arrival, RequestStep, FollowUp, LookupLost, AbuseMatch,
         AbuseFails, OpenReset, ExpireReset, Age, followUpVars, historyVars

\* Two changes of one user's credentials do not overlap unless it is torn.
LEMMA KeepsOneChange ==
  ASSUME AccountsInv, AccountsNext
  PROVE  OneChange'
<1> USE NothingAssumption
<1>0. /\ AccountsTypeOK /\ RowsWhole /\ RequestsInOrder /\ OneChange /\ HeldIsCurrent
      /\ DeletedIsGone /\ NoOrphans /\ RowsAgree
  BY DEF AccountsInv
<1>1. ASSUME NEW s \in Slots, NEW e \in Emails, NEW p \in Passwords,
             NEW d \in Devices \cup {Nothing}, NEW n \in Subnets, Register(s, e, p, d, n)
      PROVE  OneChange'
  BY <1>0, <1>1 DEF Register, OneChange, followUpVars, historyVars, LocalRow, Arrive,
     Call, ChangesIn, Idle, Working, Credentials, NoRequest
<1>2. ASSUME NEW s \in Slots, NEW e \in Emails, NEW sub \in Emails, GoogleSignIn(s, e, sub)
      PROVE  OneChange'
  BY <1>0, <1>2 DEF GoogleSignIn, OneChange, followUpVars, historyVars, GoogleRow,
     Arrive, Call, ChangesIn, LocalRow, Idle, Working, Credentials, NoRequest
<1>3. ASSUME NEW s \in Slots, NEW u \in Users, NEW p \in Passwords, SetupSecurity(s, u, p)
      PROVE  OneChange'
  BY <1>0, <1>3 DEF SetupSecurity, OneChange, NoRow, followUpVars, Exists, Arrive,
     Call, Contend, ChangesIn, Idle, Working, Others, Credentials, NoRequest
<1>4. ASSUME NEW s \in Slots, NEW u \in Users, NEW p \in Passwords, ChangePassword(s, u, p)
      PROVE  OneChange'
  BY <1>0, <1>4 DEF ChangePassword, OneChange, NoRow, followUpVars, Exists, Arrive,
     Call, Contend, FirstStep, ChangesIn, Idle, Working, Others, Credentials, NoRequest
<1>5. ASSUME NEW s \in Slots, NEW u \in Users, NEW p \in Passwords, CompleteReset(s, u, p)
      PROVE  OneChange'
  BY <1>0, <1>5 DEF CompleteReset, OneChange, NoRow, followUpVars, Exists, Arrive,
     Call, Contend, FirstStep, ChangesIn, Idle, Working, Others, Credentials, NoRequest
<1>6. ASSUME NEW s \in Slots, NEW u \in Users, UpdateProfile(s, u)
      PROVE  OneChange'
  BY <1>0, <1>6 DEF UpdateProfile, OneChange, Read, ChangesIn, followUpVars,
     historyVars, Exists, Arrive, Call, Working, Credentials, NoRow, Idle, NoRequest
<1>7. ASSUME NEW s \in Slots, NEW u \in Users, UpdateUserStatus(s, u)
      PROVE  OneChange'
  BY <1>0, <1>7 DEF UpdateUserStatus, OneChange, Read, ChangesIn, followUpVars,
     historyVars, Exists, Arrive, Call, Working, Credentials, NoRow, Idle, NoRequest
<1>8. ASSUME NEW s \in Slots, NEW u \in Users, ResolveFlagged(s, u)
      PROVE  OneChange'
  BY <1>0, <1>8 DEF ResolveFlagged, OneChange, Read, ChangesIn, followUpVars,
     historyVars, Exists, Arrive, Call, Working, Credentials, NoRow, Idle, NoRequest
<1>9. ASSUME NEW s \in Slots, NEW u \in Users, DeleteAccount(s, u)
      PROVE  OneChange'
  BY <1>0, <1>9 DEF DeleteAccount, OneChange, NoRow, followUpVars, Exists, Arrive,
     Call, Contend, ChangesIn, Idle, Working, Others, Credentials, NoRequest
<1>10. ASSUME NEW s \in Slots, FindAccount(s)
      PROVE  OneChange'
  <2>1. ~Idle(s) /\ req[s].at = "find"
    BY <1>10 DEF FindAccount, At
  <2>2. CASE Await(s, "insert") /\ torn' = torn
    BY <1>0, <2>1, <2>2, Awaiting
       DEF Steps, AccountAwaits, OneChange, ChangesIn, Credentials, Working, Idle
  <2>3. CASE Answer(s) /\ torn' = torn
    BY <1>0, <2>1, <2>3, Answering DEF OneChange, ChangesIn, Working, Idle
  <2>4. ASSUME NEW u \in Users, NEW e \in Row,
               Contend(s, u) /\ Becomes(s, "security.find", u, e)
        PROVE  OneChange'
    BY <1>0, <2>1, <2>4
       DEF Becomes, Contend, Others, OneChange, ChangesIn, Credentials, Working, Idle
  <2>5. ASSUME NEW u \in Users, NEW e \in Row, torn' = torn, Becomes(s, "save", u, e)
        PROVE  OneChange'
    BY <1>0, <2>1, <2>5 DEF Becomes, OneChange, ChangesIn, Credentials, Working, Idle
  <2> QED
    BY <1>0, <1>10, <2>2, <2>3, <2>4, <2>5, Finding
<1>11. ASSUME NEW s \in Slots, InsertAccount(s)
      PROVE  OneChange'
  BY <1>0, <1>11 DEF InsertAccount, OneChange, AccountsTypeOK, followUpVars,
     historyVars, At, Answer, Refused, Unused, ChangesIn, Row, NoRow, Request, NoRequest,
     Check, Idle, Exists, Working, Credentials, Kinds, AccountAwaits
<1>12. ASSUME NEW s \in Slots, FindSecurity(s)
      PROVE  OneChange'
  BY <1>0, <1>12 DEF FindSecurity, OneChange, AccountsTypeOK, followUpVars,
     historyVars, At, Await, Answer, ChangesIn, Row, NoRow, Request, NoRequest, Check,
     Idle, Working, Credentials, Kinds, AccountAwaits
<1>13. ASSUME NEW s \in Slots, SaveSecurity(s)
      PROVE  OneChange'
  BY <1>0, <1>13 DEF SaveSecurity, OneChange, AccountsTypeOK, followUpVars,
     historyVars, Exists, At, Await, Answer, ChangesIn, Row, NoRow, Request, NoRequest,
     Check, Idle, Working, Credentials, Kinds, AccountAwaits
<1>14. ASSUME NEW s \in Slots, SaveSignup(s)
      PROVE  OneChange'
  BY <1>0, <1>14 DEF SaveSignup, OneChange, followUpVars, At, Answer, Overtake,
     Others, Refused, SaveUser, ChangesIn, Idle, NoRequest, Holding, Exists, Working,
     Credentials, NoRow
<1>15. ASSUME NEW s \in Slots, Hash(s)
      PROVE  OneChange'
  BY <1>0, <1>15 DEF Hash, OneChange, followUpVars, Exists, At, Await, Overtake,
     Others, ChangesIn, NoRow, Idle, Holding, Working, Credentials, NoRequest
<1>16. ASSUME NEW s \in Slots, Wrap(s)
      PROVE  OneChange'
  BY <1>0, <1>16 DEF Wrap, OneChange, AccountsTypeOK, followUpVars, historyVars, At,
     Await, Answer, ChangesIn, Row, NoRow, Request, NoRequest, Check, Idle, Working,
     Credentials, Kinds, AccountAwaits
<1>17. ASSUME NEW s \in Slots, ConsumeReset(s)
      PROVE  OneChange'
  BY <1>0, <1>17 DEF ConsumeReset, OneChange, followUpVars, historyVars, At, Answer,
     ChangesIn, Idle, NoRequest, Working, Credentials
<1>18. ASSUME NEW s \in Slots, SaveEntity(s)
      PROVE  OneChange'
  BY <1>0, <1>18 DEF SaveEntity, OneChange, followUpVars, At, Answer, Overtake,
     Others, Refused, SaveUser, ChangesIn, Idle, NoRequest, Holding, Exists, Working,
     Credentials, NoRow
<1>19. ASSUME NEW s \in Slots, DeleteSecurity(s)
      PROVE  OneChange'
  BY <1>0, <1>19 DEF DeleteSecurity, OneChange, followUpVars, historyVars, At, Await,
     ChangesIn, Idle, Working, Credentials, NoRequest
<1>20. ASSUME NEW s \in Slots, DeleteUserRow(s)
      PROVE  OneChange'
  BY <1>0, <1>20 DEF DeleteUserRow, OneChange, NoRow, followUpVars, At, Answer,
     Overtake, Others, ChangesIn, Idle, NoRequest, Holding, Working, Credentials
<1>21. ASSUME NEW s \in Slots, AbortRequest(s)
      PROVE  OneChange'
  BY <1>0, <1>21 DEF AbortRequest, OneChange, followUpVars, Idle, Answer, Credentials,
     ChangesIn, NoRequest, Working
<1>22. ASSUME UNCHANGED <<req, torn>>
      PROVE  OneChange'
  BY <1>0, <1>22 DEF OneChange, ChangesIn, Working, Idle
<1> HIDE DEF OneChange
<1> QED
  BY <1>1, <1>2, <1>3, <1>4, <1>5, <1>6, <1>7, <1>8, <1>9, <1>10, <1>11, <1>12, <1>13,
     <1>14, <1>15, <1>16, <1>17, <1>18, <1>19, <1>20, <1>21, <1>22
     DEF AccountsNext, Arrival, RequestStep, FollowUp, LookupDone, LookupLost,
         AbuseMatch, AbuseFlag, AbuseBlock, AbuseFails, OpenReset, ExpireReset, Age,
         followUpVars, historyVars

\* An entity that is held while its row changes makes the user stale.
LEMMA KeepsHeldIsCurrent ==
  ASSUME AccountsInv, AccountsNext
  PROVE  HeldIsCurrent'
<1> USE NothingAssumption
<1>0. /\ AccountsTypeOK /\ RowsWhole /\ RequestsInOrder /\ OneChange /\ HeldIsCurrent
      /\ DeletedIsGone /\ NoOrphans /\ RowsAgree
  BY DEF AccountsInv
<1>1. ASSUME NEW s \in Slots, NEW e \in Emails, NEW p \in Passwords,
             NEW d \in Devices \cup {Nothing}, NEW n \in Subnets, Register(s, e, p, d, n)
      PROVE  HeldIsCurrent'
  BY <1>0, <1>1 DEF Register, HeldIsCurrent, followUpVars, historyVars, LocalRow,
     Arrive, Call, NoRow, Exists, Working, Same, Idle, NoRequest
<1>2. ASSUME NEW s \in Slots, NEW e \in Emails, NEW sub \in Emails, GoogleSignIn(s, e, sub)
      PROVE  HeldIsCurrent'
  BY <1>0, <1>2 DEF GoogleSignIn, HeldIsCurrent, followUpVars, historyVars, GoogleRow,
     Arrive, Call, NoRow, Exists, Working, Same, LocalRow, Idle, NoRequest
<1>3. ASSUME NEW s \in Slots, NEW u \in Users, NEW p \in Passwords, SetupSecurity(s, u, p)
      PROVE  HeldIsCurrent'
  BY <1>0, <1>3 DEF SetupSecurity, HeldIsCurrent, NoRow, followUpVars, Exists, Arrive,
     Call, Contend, Working, Same, Idle, Others, Credentials, NoRequest
<1>4. ASSUME NEW s \in Slots, NEW u \in Users, NEW p \in Passwords, ChangePassword(s, u, p)
      PROVE  HeldIsCurrent'
  BY <1>0, <1>4 DEF ChangePassword, HeldIsCurrent, NoRow, followUpVars, Exists,
     Arrive, Call, Contend, FirstStep, Working, Same, Idle, Others, Credentials,
     NoRequest
<1>5. ASSUME NEW s \in Slots, NEW u \in Users, NEW p \in Passwords, CompleteReset(s, u, p)
      PROVE  HeldIsCurrent'
  BY <1>0, <1>5 DEF CompleteReset, HeldIsCurrent, NoRow, followUpVars, Exists, Arrive,
     Call, Contend, FirstStep, Working, Same, Idle, Others, Credentials, NoRequest
<1>6. ASSUME NEW s \in Slots, NEW u \in Users, UpdateProfile(s, u)
      PROVE  HeldIsCurrent'
  BY <1>0, <1>6 DEF UpdateProfile, HeldIsCurrent, Read, NoRow, Exists, Working, Same,
     followUpVars, historyVars, Arrive, Call, Idle, NoRequest
<1>7. ASSUME NEW s \in Slots, NEW u \in Users, UpdateUserStatus(s, u)
      PROVE  HeldIsCurrent'
  BY <1>0, <1>7 DEF UpdateUserStatus, HeldIsCurrent, Read, NoRow, Exists, Working,
     Same, followUpVars, historyVars, Arrive, Call, Idle, NoRequest
<1>8. ASSUME NEW s \in Slots, NEW u \in Users, ResolveFlagged(s, u)
      PROVE  HeldIsCurrent'
  BY <1>0, <1>8 DEF ResolveFlagged, HeldIsCurrent, Read, NoRow, Exists, Working, Same,
     followUpVars, historyVars, Arrive, Call, Idle, NoRequest
<1>9. ASSUME NEW s \in Slots, NEW u \in Users, DeleteAccount(s, u)
      PROVE  HeldIsCurrent'
  BY <1>0, <1>9 DEF DeleteAccount, HeldIsCurrent, NoRow, followUpVars, Exists, Arrive,
     Call, Contend, Working, Same, Idle, Others, Credentials, NoRequest
<1>10. ASSUME NEW s \in Slots, FindAccount(s)
      PROVE  HeldIsCurrent'
  BY <1>0, <1>10, Finding DEF HeldIsCurrent, AccountsTypeOK, RequestsInOrder, Await,
     Answer, Contend, Others, Working, Idle, At, NoRow, Exists, Same, Row, Request,
     NoRequest, Check, InHand, Credentials, Kinds, AccountAwaits, BeforeUser,
     SecurityAwaits, Becomes, Untouched
<1>11. ASSUME NEW s \in Slots, InsertAccount(s)
      PROVE  HeldIsCurrent'
  BY <1>0, <1>11 DEF InsertAccount, HeldIsCurrent, AccountsTypeOK, followUpVars,
     historyVars, At, Answer, Refused, Unused, NoRow, Exists, Working, Same, Row,
     Request, NoRequest, Check, Idle, Kinds, AccountAwaits
<1>12. ASSUME NEW s \in Slots, FindSecurity(s)
      PROVE  HeldIsCurrent'
  BY <1>0, <1>12 DEF FindSecurity, HeldIsCurrent, AccountsTypeOK, followUpVars,
     historyVars, At, Await, Answer, NoRow, Exists, Working, Same, Row, Request,
     NoRequest, Check, Idle, Kinds, AccountAwaits
<1>13. ASSUME NEW s \in Slots, SaveSecurity(s)
      PROVE  HeldIsCurrent'
  BY <1>0, <1>13 DEF SaveSecurity, HeldIsCurrent, AccountsTypeOK, followUpVars,
     historyVars, Exists, At, Await, Answer, NoRow, Working, Same, Row, Request,
     NoRequest, Check, Idle, Kinds, AccountAwaits
<1>14. ASSUME NEW s \in Slots, SaveSignup(s)
      PROVE  HeldIsCurrent'
  BY <1>0, <1>14 DEF SaveSignup, HeldIsCurrent, AccountsTypeOK, RequestsInOrder,
     followUpVars, At, Answer, Overtake, Others, Refused, SaveUser, NoRow, Exists,
     Working, Same, Row, Request, NoRequest, Check, Idle, InHand, Holding, Kinds,
     AccountAwaits, BeforeUser, SecurityAwaits
<1>15. ASSUME NEW s \in Slots, Hash(s)
      PROVE  HeldIsCurrent'
  BY <1>0, <1>15 DEF Hash, HeldIsCurrent, AccountsTypeOK, RequestsInOrder,
     followUpVars, Exists, At, Await, Overtake, Others, NoRow, Working, Same, Row,
     Request, NoRequest, Check, Idle, InHand, Holding, Kinds, AccountAwaits, BeforeUser,
     SecurityAwaits
<1>16. ASSUME NEW s \in Slots, Wrap(s)
      PROVE  HeldIsCurrent'
  BY <1>0, <1>16 DEF Wrap, HeldIsCurrent, AccountsTypeOK, followUpVars, historyVars,
     At, Await, Answer, NoRow, Exists, Working, Same, Row, Request, NoRequest, Check,
     Idle, Kinds, AccountAwaits
<1>17. ASSUME NEW s \in Slots, ConsumeReset(s)
      PROVE  HeldIsCurrent'
  BY <1>0, <1>17 DEF ConsumeReset, HeldIsCurrent, followUpVars, historyVars, At,
     Answer, NoRow, Exists, Working, Same, Idle, NoRequest
<1>18. ASSUME NEW s \in Slots, SaveEntity(s)
      PROVE  HeldIsCurrent'
  BY <1>0, <1>18 DEF SaveEntity, HeldIsCurrent, followUpVars, At, Answer, Overtake,
     Others, Refused, SaveUser, NoRow, Exists, Working, Same, Idle, NoRequest, Holding
<1>19. ASSUME NEW s \in Slots, DeleteSecurity(s)
      PROVE  HeldIsCurrent'
  BY <1>0, <1>19 DEF DeleteSecurity, HeldIsCurrent, followUpVars, historyVars, At,
     Await, NoRow, Exists, Working, Same, Idle, NoRequest
<1>20. ASSUME NEW s \in Slots, DeleteUserRow(s)
      PROVE  HeldIsCurrent'
  BY <1>0, <1>20 DEF DeleteUserRow, HeldIsCurrent, AccountsTypeOK, NoRow,
     followUpVars, At, Answer, Overtake, Others, Exists, Working, Same, Row, Request,
     NoRequest, Check, Idle, Holding, Kinds, AccountAwaits
<1>21. ASSUME NEW s \in Slots, AbortRequest(s)
      PROVE  HeldIsCurrent'
  BY <1>0, <1>21 DEF AbortRequest, HeldIsCurrent, followUpVars, Idle, Answer,
     Credentials, NoRow, Exists, Working, Same, NoRequest
<1>22. ASSUME NEW u \in Users, LookupDone(u)
      PROVE  HeldIsCurrent'
  BY <1>0, <1>22 DEF LookupDone, HeldIsCurrent, AccountsTypeOK, NoRow, Working,
     SaveUser, Exists, Same, Row, Request, NoRequest, Check, Idle, Refused, Kinds,
     AccountAwaits
<1>23. ASSUME NEW u \in Users, LookupLost(u)
      PROVE  HeldIsCurrent'
  BY <1>0, <1>23 DEF LookupLost, HeldIsCurrent, historyVars, NoRow, Exists, Working,
     Same, Idle, NoRequest
<1>24. ASSUME NEW c \in abuse, AbuseFlag(c)
      PROVE  HeldIsCurrent'
  BY <1>0, <1>24 DEF AbuseFlag, HeldIsCurrent, Exists, Overtake, NoRow, Working, Same,
     Holding, Idle, NoRequest
<1>25. ASSUME NEW c \in abuse, AbuseBlock(c)
      PROVE  HeldIsCurrent'
  BY <1>0, <1>25 DEF AbuseBlock, HeldIsCurrent, Exists, Overtake, NoRow, Working,
     Same, Holding, Idle, NoRequest
<1>26. ASSUME UNCHANGED <<users, req, lookup, stale>>
      PROVE  HeldIsCurrent'
  BY <1>0, <1>26 DEF HeldIsCurrent, Exists, Working, Idle
<1> HIDE DEF HeldIsCurrent
<1> QED
  BY <1>1, <1>2, <1>3, <1>4, <1>5, <1>6, <1>7, <1>8, <1>9, <1>10, <1>11, <1>12, <1>13,
     <1>14, <1>15, <1>16, <1>17, <1>18, <1>19, <1>20, <1>21, <1>22, <1>23, <1>24, <1>25,
     <1>26
     DEF AccountsNext, Arrival, RequestStep, FollowUp, AbuseMatch, AbuseFails, OpenReset,
         ExpireReset, Age, followUpVars, historyVars

\* Only an overtaken save brings a deleted account back.
LEMMA KeepsDeletedIsGone ==
  ASSUME AccountsInv, AccountsNext
  PROVE  DeletedIsGone'
<1> USE NothingAssumption
<1>0. /\ AccountsTypeOK /\ RowsWhole /\ RequestsInOrder /\ OneChange /\ HeldIsCurrent
      /\ DeletedIsGone /\ NoOrphans /\ RowsAgree
  BY DEF AccountsInv
<1>1. ASSUME NEW s \in Slots, InsertAccount(s)
      PROVE  DeletedIsGone'
  BY <1>0, <1>1 DEF InsertAccount, DeletedIsGone, AccountsTypeOK, followUpVars,
     historyVars, At, Answer, Refused, Unused, Exists, Row, NoRow, Request, NoRequest,
     Check, Idle, Working, Kinds, AccountAwaits
<1>2. ASSUME NEW s \in Slots, SaveSignup(s)
      PROVE  DeletedIsGone'
  BY <1>0, <1>2 DEF SaveSignup, DeletedIsGone, AccountsTypeOK, RequestsInOrder,
     RowsWhole, NoOrphans, HeldIsCurrent, OneChange, followUpVars, At, Answer, Overtake,
     Others, Refused, SaveUser, Exists, Row, NoRow, Request, NoRequest, Check, Idle,
     InHand, Whole, Working, Same, ChangesIn, Holding, Kinds, AccountAwaits, BeforeUser,
     SecurityAwaits, Credentials
<1>3. ASSUME NEW s \in Slots, Hash(s)
      PROVE  DeletedIsGone'
  BY <1>0, <1>3 DEF Hash, DeletedIsGone, followUpVars, Exists, At, Await, Overtake,
     Others, NoRow, Idle, Holding, NoRequest, Working
<1>4. ASSUME NEW s \in Slots, SaveEntity(s)
      PROVE  DeletedIsGone'
  BY <1>0, <1>4 DEF SaveEntity, DeletedIsGone, AccountsTypeOK, RequestsInOrder,
     RowsWhole, NoOrphans, HeldIsCurrent, OneChange, followUpVars, At, Answer, Overtake,
     Others, Refused, SaveUser, Exists, Row, NoRow, Request, NoRequest, Check, Idle,
     InHand, Whole, Working, Same, ChangesIn, Holding, Kinds, AccountAwaits, BeforeUser,
     SecurityAwaits, Credentials
<1>5. ASSUME NEW s \in Slots, DeleteUserRow(s)
      PROVE  DeletedIsGone'
  BY <1>0, <1>5 DEF DeleteUserRow, DeletedIsGone, AccountsTypeOK, RequestsInOrder,
     NoRow, followUpVars, At, Answer, Overtake, Others, Exists, Row, Request, NoRequest,
     Check, Idle, InHand, Holding, Kinds, AccountAwaits, BeforeUser, SecurityAwaits,
     Working
<1>6. ASSUME NEW u \in Users, LookupDone(u)
      PROVE  DeletedIsGone'
  BY <1>0, <1>6 DEF LookupDone, DeletedIsGone, AccountsTypeOK, RequestsInOrder,
     RowsWhole, NoOrphans, HeldIsCurrent, OneChange, NoRow, Working, SaveUser, Exists,
     Row, Request, NoRequest, Check, Idle, InHand, Whole, Same, ChangesIn, Refused,
     Kinds, AccountAwaits, BeforeUser, SecurityAwaits, Credentials
<1>7. ASSUME NEW c \in abuse, AbuseFlag(c)
      PROVE  DeletedIsGone'
  BY <1>0, <1>7 DEF AbuseFlag, DeletedIsGone, AccountsTypeOK, Exists, Overtake, Row,
     NoRow, Request, NoRequest, Check, Holding, Kinds, AccountAwaits, Working, Idle
<1>8. ASSUME NEW c \in abuse, AbuseBlock(c)
      PROVE  DeletedIsGone'
  BY <1>0, <1>8 DEF AbuseBlock, DeletedIsGone, Exists, Overtake, NoRow, Holding,
     Working, Idle, NoRequest
<1>9. ASSUME UNCHANGED <<users, deleted, stale>>
      PROVE  DeletedIsGone'
  BY <1>0, <1>9 DEF DeletedIsGone, Exists
<1>10. ASSUME NEW s \in Slots, NEW e \in Emails, NEW p \in Passwords,
             NEW d \in Devices \cup {Nothing}, NEW n \in Subnets, Register(s, e, p, d, n)
      PROVE  UNCHANGED <<users, deleted, stale>>
  BY <1>10 DEF Register, followUpVars, historyVars
<1>11. ASSUME NEW s \in Slots, NEW e \in Emails, NEW sub \in Emails, GoogleSignIn(s, e, sub)
      PROVE  UNCHANGED <<users, deleted, stale>>
  BY <1>11 DEF GoogleSignIn, followUpVars, historyVars
<1>12. ASSUME NEW s \in Slots, NEW u \in Users, NEW p \in Passwords, SetupSecurity(s, u, p)
      PROVE  UNCHANGED <<users, deleted, stale>>
  BY <1>12 DEF SetupSecurity, followUpVars
<1>13. ASSUME NEW s \in Slots, NEW u \in Users, NEW p \in Passwords, ChangePassword(s, u, p)
      PROVE  UNCHANGED <<users, deleted, stale>>
  BY <1>13 DEF ChangePassword, followUpVars
<1>14. ASSUME NEW s \in Slots, NEW u \in Users, NEW p \in Passwords, CompleteReset(s, u, p)
      PROVE  UNCHANGED <<users, deleted, stale>>
  BY <1>14 DEF CompleteReset, followUpVars
<1>15. ASSUME NEW s \in Slots, NEW u \in Users, UpdateProfile(s, u)
      PROVE  UNCHANGED <<users, deleted, stale>>
  BY <1>15 DEF UpdateProfile, Read, followUpVars, historyVars
<1>16. ASSUME NEW s \in Slots, NEW u \in Users, UpdateUserStatus(s, u)
      PROVE  UNCHANGED <<users, deleted, stale>>
  BY <1>16 DEF UpdateUserStatus, Read, followUpVars, historyVars
<1>17. ASSUME NEW s \in Slots, NEW u \in Users, ResolveFlagged(s, u)
      PROVE  UNCHANGED <<users, deleted, stale>>
  BY <1>17 DEF ResolveFlagged, Read, followUpVars, historyVars
<1>18. ASSUME NEW s \in Slots, NEW u \in Users, DeleteAccount(s, u)
      PROVE  UNCHANGED <<users, deleted, stale>>
  BY <1>18 DEF DeleteAccount, followUpVars
<1>19. ASSUME NEW s \in Slots, FindAccount(s)
      PROVE  UNCHANGED <<users, deleted, stale>>
  BY <1>0, <1>19, Finding DEF Untouched
<1>20. ASSUME NEW s \in Slots, FindSecurity(s)
      PROVE  UNCHANGED <<users, deleted, stale>>
  BY <1>20 DEF FindSecurity, followUpVars, historyVars
<1>21. ASSUME NEW s \in Slots, SaveSecurity(s)
      PROVE  UNCHANGED <<users, deleted, stale>>
  BY <1>21 DEF SaveSecurity, followUpVars, historyVars
<1>22. ASSUME NEW s \in Slots, Wrap(s)
      PROVE  UNCHANGED <<users, deleted, stale>>
  BY <1>22 DEF Wrap, followUpVars, historyVars
<1>23. ASSUME NEW s \in Slots, ConsumeReset(s)
      PROVE  UNCHANGED <<users, deleted, stale>>
  BY <1>23 DEF ConsumeReset, followUpVars, historyVars
<1>24. ASSUME NEW s \in Slots, DeleteSecurity(s)
      PROVE  UNCHANGED <<users, deleted, stale>>
  BY <1>24 DEF DeleteSecurity, followUpVars, historyVars
<1>25. ASSUME NEW s \in Slots, AbortRequest(s)
      PROVE  UNCHANGED <<users, deleted, stale>>
  BY <1>25 DEF AbortRequest, followUpVars
<1>26. ASSUME NEW u \in Users, LookupLost(u)
      PROVE  UNCHANGED <<users, deleted, stale>>
  BY <1>26 DEF LookupLost, historyVars
<1>27. ASSUME NEW c \in abuse, AbuseMatch(c)
      PROVE  UNCHANGED <<users, deleted, stale>>
  BY <1>27 DEF AbuseMatch
<1>28. ASSUME NEW c \in abuse, AbuseFails(c)
      PROVE  UNCHANGED <<users, deleted, stale>>
  BY <1>28 DEF AbuseFails, historyVars
<1>29. ASSUME NEW u \in Users, OpenReset(u)
      PROVE  UNCHANGED <<users, deleted, stale>>
  BY <1>29 DEF OpenReset, followUpVars, historyVars
<1>30. ASSUME NEW u \in Users, ExpireReset(u)
      PROVE  UNCHANGED <<users, deleted, stale>>
  BY <1>30 DEF ExpireReset, followUpVars, historyVars
<1>31. ASSUME NEW u \in Users, Age(u)
      PROVE  UNCHANGED <<users, deleted, stale>>
  BY <1>31 DEF Age, followUpVars, historyVars
<1> HIDE DEF DeletedIsGone
<1> QED
  BY <1>1, <1>2, <1>3, <1>4, <1>5, <1>6, <1>7, <1>8, <1>9, <1>10, <1>11, <1>12, <1>13,
     <1>14, <1>15, <1>16, <1>17, <1>18, <1>19, <1>20, <1>21, <1>22, <1>23, <1>24, <1>25,
     <1>26, <1>27, <1>28, <1>29, <1>30, <1>31
     DEF AccountsNext, Arrival, RequestStep, FollowUp

\* A security row has its user row.
LEMMA KeepsNoOrphans ==
  ASSUME AccountsInv, AccountsNext
  PROVE  NoOrphans'
<1> USE NothingAssumption
<1>0. /\ AccountsTypeOK /\ RowsWhole /\ RequestsInOrder /\ OneChange /\ HeldIsCurrent
      /\ DeletedIsGone /\ NoOrphans /\ RowsAgree
  BY DEF AccountsInv
<1>1. ASSUME NEW s \in Slots, InsertAccount(s)
      PROVE  NoOrphans'
  BY <1>0, <1>1 DEF InsertAccount, NoOrphans, AccountsTypeOK, followUpVars,
     historyVars, At, Answer, Refused, Unused, Exists, Row, NoRow, Request, NoRequest,
     Check, Idle, Working, Kinds, AccountAwaits
<1>2. ASSUME NEW s \in Slots, SaveSecurity(s)
      PROVE  NoOrphans'
  BY <1>0, <1>2 DEF SaveSecurity, NoOrphans, AccountsTypeOK, followUpVars,
     historyVars, Exists, At, Await, Answer, Row, NoRow, Request, NoRequest, Check, Idle,
     Kinds, AccountAwaits
<1>3. ASSUME NEW s \in Slots, SaveSignup(s)
      PROVE  NoOrphans'
  BY <1>0, <1>3 DEF SaveSignup, NoOrphans, AccountsTypeOK, RequestsInOrder,
     followUpVars, At, Answer, Overtake, Others, Refused, SaveUser, Exists, Row, NoRow,
     Request, NoRequest, Check, Idle, InHand, Holding, Kinds, AccountAwaits, BeforeUser,
     SecurityAwaits, Working
<1>4. ASSUME NEW s \in Slots, Hash(s)
      PROVE  NoOrphans'
  BY <1>0, <1>4 DEF Hash, NoOrphans, AccountsTypeOK, followUpVars, Exists, At, Await,
     Overtake, Others, Row, NoRow, Request, NoRequest, Check, Idle, Holding, Kinds,
     AccountAwaits, Working
<1>5. ASSUME NEW s \in Slots, Wrap(s)
      PROVE  NoOrphans'
  BY <1>0, <1>5 DEF Wrap, NoOrphans, AccountsTypeOK, followUpVars, historyVars, At,
     Await, Answer, Exists, Row, NoRow, Request, NoRequest, Check, Idle, Kinds,
     AccountAwaits
<1>6. ASSUME NEW s \in Slots, SaveEntity(s)
      PROVE  NoOrphans'
  BY <1>0, <1>6 DEF SaveEntity, NoOrphans, AccountsTypeOK, RequestsInOrder,
     followUpVars, At, Answer, Overtake, Others, Refused, SaveUser, Exists, Row, NoRow,
     Request, NoRequest, Check, Idle, InHand, Holding, Kinds, AccountAwaits, BeforeUser,
     SecurityAwaits, Working
<1>7. ASSUME NEW s \in Slots, DeleteSecurity(s)
      PROVE  NoOrphans'
  BY <1>0, <1>7 DEF DeleteSecurity, NoOrphans, followUpVars, historyVars, At, Await,
     Exists, Idle, NoRow, NoRequest
<1>8. ASSUME NEW s \in Slots, DeleteUserRow(s)
      PROVE  NoOrphans'
  BY <1>0, <1>8 DEF DeleteUserRow, NoOrphans, AccountsTypeOK, NoRow, followUpVars, At,
     Answer, Overtake, Others, Exists, Row, Request, NoRequest, Check, Idle, Holding,
     Kinds, AccountAwaits, Working
<1>9. ASSUME NEW u \in Users, LookupDone(u)
      PROVE  NoOrphans'
  BY <1>0, <1>9 DEF LookupDone, NoOrphans, AccountsTypeOK, NoRow, Working, SaveUser,
     Exists, Row, Request, NoRequest, Check, Idle, Refused, Kinds, AccountAwaits
<1>10. ASSUME NEW c \in abuse, AbuseFlag(c)
      PROVE  NoOrphans'
  BY <1>0, <1>10 DEF AbuseFlag, NoOrphans, AccountsTypeOK, Exists, Overtake, Row,
     NoRow, Request, NoRequest, Check, Holding, Kinds, AccountAwaits, Working, Idle
<1>11. ASSUME NEW c \in abuse, AbuseBlock(c)
      PROVE  NoOrphans'
  BY <1>0, <1>11 DEF AbuseBlock, NoOrphans, AccountsTypeOK, Exists, Overtake, Row,
     NoRow, Request, NoRequest, Check, Holding, Kinds, AccountAwaits, Working, Idle
<1>12. ASSUME UNCHANGED <<users, security>>
      PROVE  NoOrphans'
  BY <1>0, <1>12 DEF NoOrphans, Exists
<1>13. ASSUME NEW s \in Slots, NEW e \in Emails, NEW p \in Passwords,
             NEW d \in Devices \cup {Nothing}, NEW n \in Subnets, Register(s, e, p, d, n)
      PROVE  UNCHANGED <<users, security>>
  BY <1>13 DEF Register, followUpVars, historyVars
<1>14. ASSUME NEW s \in Slots, NEW e \in Emails, NEW sub \in Emails, GoogleSignIn(s, e, sub)
      PROVE  UNCHANGED <<users, security>>
  BY <1>14 DEF GoogleSignIn, followUpVars, historyVars
<1>15. ASSUME NEW s \in Slots, NEW u \in Users, NEW p \in Passwords, SetupSecurity(s, u, p)
      PROVE  UNCHANGED <<users, security>>
  BY <1>15 DEF SetupSecurity, followUpVars
<1>16. ASSUME NEW s \in Slots, NEW u \in Users, NEW p \in Passwords, ChangePassword(s, u, p)
      PROVE  UNCHANGED <<users, security>>
  BY <1>16 DEF ChangePassword, followUpVars
<1>17. ASSUME NEW s \in Slots, NEW u \in Users, NEW p \in Passwords, CompleteReset(s, u, p)
      PROVE  UNCHANGED <<users, security>>
  BY <1>17 DEF CompleteReset, followUpVars
<1>18. ASSUME NEW s \in Slots, NEW u \in Users, UpdateProfile(s, u)
      PROVE  UNCHANGED <<users, security>>
  BY <1>18 DEF UpdateProfile, Read, followUpVars, historyVars
<1>19. ASSUME NEW s \in Slots, NEW u \in Users, UpdateUserStatus(s, u)
      PROVE  UNCHANGED <<users, security>>
  BY <1>19 DEF UpdateUserStatus, Read, followUpVars, historyVars
<1>20. ASSUME NEW s \in Slots, NEW u \in Users, ResolveFlagged(s, u)
      PROVE  UNCHANGED <<users, security>>
  BY <1>20 DEF ResolveFlagged, Read, followUpVars, historyVars
<1>21. ASSUME NEW s \in Slots, NEW u \in Users, DeleteAccount(s, u)
      PROVE  UNCHANGED <<users, security>>
  BY <1>21 DEF DeleteAccount, followUpVars
<1>22. ASSUME NEW s \in Slots, FindAccount(s)
      PROVE  UNCHANGED <<users, security>>
  BY <1>0, <1>22, Finding DEF Untouched
<1>23. ASSUME NEW s \in Slots, FindSecurity(s)
      PROVE  UNCHANGED <<users, security>>
  BY <1>23 DEF FindSecurity, followUpVars, historyVars
<1>24. ASSUME NEW s \in Slots, ConsumeReset(s)
      PROVE  UNCHANGED <<users, security>>
  BY <1>24 DEF ConsumeReset, followUpVars, historyVars
<1>25. ASSUME NEW s \in Slots, AbortRequest(s)
      PROVE  UNCHANGED <<users, security>>
  BY <1>25 DEF AbortRequest, followUpVars
<1>26. ASSUME NEW u \in Users, LookupLost(u)
      PROVE  UNCHANGED <<users, security>>
  BY <1>26 DEF LookupLost, historyVars
<1>27. ASSUME NEW c \in abuse, AbuseMatch(c)
      PROVE  UNCHANGED <<users, security>>
  BY <1>27 DEF AbuseMatch
<1>28. ASSUME NEW c \in abuse, AbuseFails(c)
      PROVE  UNCHANGED <<users, security>>
  BY <1>28 DEF AbuseFails, historyVars
<1>29. ASSUME NEW u \in Users, OpenReset(u)
      PROVE  UNCHANGED <<users, security>>
  BY <1>29 DEF OpenReset, followUpVars, historyVars
<1>30. ASSUME NEW u \in Users, ExpireReset(u)
      PROVE  UNCHANGED <<users, security>>
  BY <1>30 DEF ExpireReset, followUpVars, historyVars
<1>31. ASSUME NEW u \in Users, Age(u)
      PROVE  UNCHANGED <<users, security>>
  BY <1>31 DEF Age, followUpVars, historyVars
<1> HIDE DEF NoOrphans
<1> QED
  BY <1>1, <1>2, <1>3, <1>4, <1>5, <1>6, <1>7, <1>8, <1>9, <1>10, <1>11, <1>12, <1>13,
     <1>14, <1>15, <1>16, <1>17, <1>18, <1>19, <1>20, <1>21, <1>22, <1>23, <1>24, <1>25,
     <1>26, <1>27, <1>28, <1>29, <1>30, <1>31
     DEF AccountsNext, Arrival, RequestStep, FollowUp

\* The two rows keep agreeing, and with the request that changes them.
LEMMA KeepsRowsAgree ==
  ASSUME AccountsInv, AccountsNext
  PROVE  RowsAgree'
<1> USE NothingAssumption
<1>0. /\ AccountsTypeOK /\ RowsWhole /\ RequestsInOrder /\ OneChange /\ HeldIsCurrent
      /\ DeletedIsGone /\ NoOrphans /\ RowsAgree
  BY DEF AccountsInv
<1>1. ASSUME NEW s \in Slots, NEW e \in Emails, NEW p \in Passwords,
             NEW d \in Devices \cup {Nothing}, NEW n \in Subnets, Register(s, e, p, d, n)
      PROVE  RowsAgree'
  BY <1>0, <1>1 DEF Register, RowsAgree, followUpVars, historyVars, LocalRow, Arrive,
     Call, Exists, Agrees, Idle, NoRow, Working, SecurityAwaits, StandsAt, NoRequest
<1>2. ASSUME NEW s \in Slots, NEW e \in Emails, NEW sub \in Emails, GoogleSignIn(s, e, sub)
      PROVE  RowsAgree'
  BY <1>0, <1>2 DEF GoogleSignIn, RowsAgree, followUpVars, historyVars, GoogleRow,
     Arrive, Call, Exists, Agrees, LocalRow, Idle, NoRow, Working, SecurityAwaits,
     StandsAt, NoRequest
<1>3. ASSUME NEW s \in Slots, NEW u \in Users, NEW p \in Passwords, SetupSecurity(s, u, p)
      PROVE  RowsAgree'
  BY <1>0, <1>3 DEF SetupSecurity, RowsAgree, NoRow, followUpVars, Exists, Arrive,
     Call, Contend, Agrees, Idle, Working, Others, Credentials, SecurityAwaits, StandsAt,
     NoRequest
<1>4. ASSUME NEW s \in Slots, NEW u \in Users, NEW p \in Passwords, ChangePassword(s, u, p)
      PROVE  RowsAgree'
  BY <1>0, <1>4 DEF ChangePassword, RowsAgree, NoRow, followUpVars, Exists, Arrive,
     Call, Contend, FirstStep, Agrees, Idle, Working, Others, Credentials,
     SecurityAwaits, StandsAt, NoRequest
<1>5. ASSUME NEW s \in Slots, NEW u \in Users, NEW p \in Passwords, CompleteReset(s, u, p)
      PROVE  RowsAgree'
  BY <1>0, <1>5 DEF CompleteReset, RowsAgree, NoRow, followUpVars, Exists, Arrive,
     Call, Contend, FirstStep, Agrees, Idle, Working, Others, Credentials,
     SecurityAwaits, StandsAt, NoRequest
<1>6. ASSUME NEW s \in Slots, NEW u \in Users, UpdateProfile(s, u)
      PROVE  RowsAgree'
  BY <1>0, <1>6 DEF UpdateProfile, RowsAgree, Read, Exists, Agrees, followUpVars,
     historyVars, Arrive, Call, NoRow, Working, SecurityAwaits, StandsAt, Idle, NoRequest
<1>7. ASSUME NEW s \in Slots, NEW u \in Users, UpdateUserStatus(s, u)
      PROVE  RowsAgree'
  BY <1>7, RowsAgreeUpdateUserStatus
<1>8. ASSUME NEW s \in Slots, NEW u \in Users, ResolveFlagged(s, u)
      PROVE  RowsAgree'
  BY <1>8, RowsAgreeResolveFlagged
<1>9. ASSUME NEW s \in Slots, NEW u \in Users, DeleteAccount(s, u)
      PROVE  RowsAgree'
  BY <1>0, <1>9 DEF DeleteAccount, RowsAgree, NoRow, followUpVars, Exists, Arrive,
     Call, Contend, Agrees, Idle, Working, Others, Credentials, SecurityAwaits, StandsAt,
     NoRequest
<1>10. ASSUME NEW s \in Slots, FindAccount(s)
      PROVE  RowsAgree'
  BY <1>10, RowsAgreeFindAccount
<1>11. ASSUME NEW s \in Slots, InsertAccount(s)
      PROVE  RowsAgree'
  BY <1>11, RowsAgreeInsertAccount
<1>12. ASSUME NEW s \in Slots, FindSecurity(s)
      PROVE  RowsAgree'
  BY <1>12, RowsAgreeFindSecurity
<1>13. ASSUME NEW s \in Slots, SaveSecurity(s)
      PROVE  RowsAgree'
  BY <1>0, <1>13 DEF SaveSecurity, RowsAgree, AccountsTypeOK, RequestsInOrder,
     followUpVars, historyVars, Exists, At, Await, Answer, Agrees, Row, NoRow, Request,
     NoRequest, Check, Idle, InHand, Working, SecurityAwaits, StandsAt, Kinds,
     AccountAwaits, BeforeUser
<1>14. ASSUME NEW s \in Slots, SaveSignup(s)
      PROVE  RowsAgree'
  <2> SUFFICES ASSUME NEW u \in Users, u \notin torn', u \notin stale', Exists(u)',
                      users'[u].provider = "local"
               PROVE  Agrees(u)'
    BY DEF RowsAgree
  <2> DEFINE v == req[s].user
             e == req[s].entity
  <2>1. ~Idle(s) /\ req[s].at = "meta" /\ v \in Users /\ e # NoRow
    BY <1>0, <1>14, InHandOf DEF SaveSignup, At, InHand, BeforeUser
  <2>2. UNCHANGED <<security, torn>> /\ stale \subseteq stale'
    BY <1>14 DEF SaveSignup, Overtake
  <2>3. v \notin stale => Exists(v) /\ Same(e, users[v])
    BY <1>0, <2>1 DEF HeldIsCurrent, Working
  <2>4. users' = users \/ users' = [users EXCEPT ![v] = e]
    BY <1>14 DEF SaveSignup, SaveUser
  <2>5. Exists(u) /\ Same(users'[u], users[u])
    BY <1>0, <2>2, <2>3, <2>4 DEF Exists, Same, AccountsTypeOK
  <2>6. Agrees(u)
    BY <1>0, <2>2, <2>5 DEF RowsAgree, Same
  <2>7. /\ req'[s] = NoRequest
        /\ \A r \in Slots \ {s} : req'[r] = req[r]
    BY <1>0, <1>14, Answering DEF SaveSignup
  <2> QED
    BY <2>1, <2>2, <2>5, <2>6, <2>7
       DEF Agrees, Same, StandsAt, Working, Idle, SecurityAwaits
<1>15. ASSUME NEW s \in Slots, Hash(s)
      PROVE  RowsAgree'
  BY <1>15, RowsAgreeHash
<1>16. ASSUME NEW s \in Slots, Wrap(s)
      PROVE  RowsAgree'
  BY <1>16, RowsAgreeWrap
<1>17. ASSUME NEW s \in Slots, ConsumeReset(s)
      PROVE  RowsAgree'
  BY <1>0, <1>17 DEF ConsumeReset, RowsAgree, followUpVars, historyVars, At, Answer,
     Exists, Agrees, Idle, NoRequest, NoRow, Working, SecurityAwaits, StandsAt
<1>18. ASSUME NEW s \in Slots, SaveEntity(s)
      PROVE  RowsAgree'
  <2> SUFFICES ASSUME NEW u \in Users, u \notin torn', u \notin stale', Exists(u)',
                      users'[u].provider = "local"
               PROVE  Agrees(u)'
    BY DEF RowsAgree
  <2> DEFINE v == req[s].user
             e == req[s].entity
  <2>1. ~Idle(s) /\ req[s].at = "save" /\ v \in Users /\ e # NoRow
    BY <1>0, <1>18, InHandOf DEF SaveEntity, At, InHand, BeforeUser
  <2>2. UNCHANGED <<security, torn>> /\ stale \subseteq stale'
    BY <1>18 DEF SaveEntity, Overtake
  <2>3. v \notin stale => Exists(v) /\ Same(e, users[v])
    BY <1>0, <2>1 DEF HeldIsCurrent, Working
  <2>4. users' = users \/ users' = [users EXCEPT ![v] = e]
    BY <1>18 DEF SaveEntity, SaveUser
  <2>5. Exists(u) /\ Same(users'[u], users[u])
    BY <1>0, <2>2, <2>3, <2>4 DEF Exists, Same, AccountsTypeOK
  <2>6. Agrees(u)
    BY <1>0, <2>2, <2>5 DEF RowsAgree, Same
  <2>7. /\ req'[s] = NoRequest
        /\ \A r \in Slots \ {s} : req'[r] = req[r]
    BY <1>0, <1>18, Answering DEF SaveEntity
  <2> QED
    BY <2>1, <2>2, <2>5, <2>6, <2>7
       DEF Agrees, Same, StandsAt, Working, Idle, SecurityAwaits
<1>19. ASSUME NEW s \in Slots, DeleteSecurity(s)
      PROVE  RowsAgree'
  BY <1>19, RowsAgreeDeleteSecurity
<1>20. ASSUME NEW s \in Slots, DeleteUserRow(s)
      PROVE  RowsAgree'
  BY <1>0, <1>20 DEF DeleteUserRow, RowsAgree, AccountsTypeOK, NoRow, followUpVars,
     At, Answer, Overtake, Others, Exists, Agrees, Row, Request, NoRequest, Check, Idle,
     Holding, Working, SecurityAwaits, StandsAt, Kinds, AccountAwaits
<1>21. ASSUME NEW s \in Slots, AbortRequest(s)
      PROVE  RowsAgree'
  BY <1>0, <1>21 DEF AbortRequest, RowsAgree, followUpVars, Idle, Answer, Credentials,
     Exists, Agrees, NoRequest, NoRow, Working, SecurityAwaits, StandsAt
<1>22. ASSUME NEW u \in Users, LookupDone(u)
      PROVE  RowsAgree'
  BY <1>0, <1>22 DEF LookupDone, RowsAgree, AccountsTypeOK, RequestsInOrder,
     RowsWhole, NoOrphans, HeldIsCurrent, OneChange, DeletedIsGone, NoRow, Working,
     SaveUser, Exists, Agrees, Row, Request, NoRequest, Check, Idle, InHand, Whole, Same,
     ChangesIn, Refused, SecurityAwaits, StandsAt, Kinds, AccountAwaits, BeforeUser,
     Credentials
<1>23. ASSUME NEW c \in abuse, AbuseFlag(c)
      PROVE  RowsAgree'
  BY <1>0, <1>23 DEF AbuseFlag, RowsAgree, Exists, Overtake, Agrees, NoRow, Holding,
     Working, SecurityAwaits, StandsAt, Idle, NoRequest
<1>24. ASSUME NEW c \in abuse, AbuseBlock(c)
      PROVE  RowsAgree'
  BY <1>0, <1>24 DEF AbuseBlock, RowsAgree, Exists, Overtake, Agrees, NoRow, Holding,
     Working, SecurityAwaits, StandsAt, Idle, NoRequest
<1>25. ASSUME UNCHANGED <<users, security, req, torn, stale>>
      PROVE  RowsAgree'
  BY <1>0, <1>25 DEF RowsAgree, Exists, Agrees, Working, StandsAt, Idle
<1> HIDE DEF RowsAgree
<1> QED
  BY <1>1, <1>2, <1>3, <1>4, <1>5, <1>6, <1>7, <1>8, <1>9, <1>10, <1>11, <1>12, <1>13,
     <1>14, <1>15, <1>16, <1>17, <1>18, <1>19, <1>20, <1>21, <1>22, <1>23, <1>24, <1>25
     DEF AccountsNext, Arrival, RequestStep, FollowUp, LookupLost, AbuseMatch,
         AbuseFails, OpenReset, ExpireReset, Age, followUpVars, historyVars

\* The database holds one account at most and nothing is in progress.
LEMMA AccountsInitInv == AccountsInit => AccountsInv
<1> SUFFICES ASSUME AccountsInit PROVE AccountsInv
  OBVIOUS
<1> USE NothingAssumption, MaxRequestsAssumption
<1>1. PICK first \in {NoRow} \cup {LocalRow(e, p) : e \in Emails, p \in Passwords}
                  \cup {GoogleRow(e, e) : e \in Emails}, u \in Users, p \in Passwords :
        /\ users = [v \in Users |-> IF v = u THEN first ELSE NoRow]
        /\ first # NoRow => first.passwordHash \in {p, Nothing}
        /\ security = [v \in Users |-> IF v = u /\ first # NoRow THEN p ELSE Nothing]
  BY DEF AccountsInit
<1>2. /\ first \in Row \cup {NoRow}
      /\ first # NoRow => Whole(first)
  <2>1. \A e \in Emails, q \in Passwords : LocalRow(e, q) \in Row /\ Whole(LocalRow(e, q))
    BY DEF Row, LocalRow, Whole
  <2>2. \A e \in Emails : GoogleRow(e, e) \in Row /\ Whole(GoogleRow(e, e))
    BY GoogleRows DEF Whole
  <2> QED
    BY <1>1, <2>1, <2>2
<1>3. /\ age = [v \in Users |-> "hour"] /\ reset = {} /\ abuse = {} /\ arrived = 0
      /\ req = [s \in Slots |-> NoRequest] /\ lookup = [v \in Users |-> {}]
      /\ deleted = {} /\ resolved = {} /\ checked = {} /\ stale = {} /\ torn = {}
  BY DEF AccountsInit
<1>4. AccountsTypeOK
  BY <1>1, <1>2, <1>3 DEF AccountsTypeOK
<1>5. \A s \in Slots : Idle(s)
  BY <1>3 DEF Idle
<1>6. RowsWhole /\ RequestsInOrder /\ OneChange /\ HeldIsCurrent /\ DeletedIsGone
  BY <1>1, <1>2, <1>3, <1>5
     DEF RowsWhole, RequestsInOrder, OneChange, ChangesIn, Working, HeldIsCurrent,
         DeletedIsGone, Exists
<1>7. NoOrphans
  BY <1>1 DEF NoOrphans, Exists
<1>8. RowsAgree
  BY <1>1, <1>2, <1>5 DEF RowsAgree, Agrees, Exists, Whole, StandsAt, Working
<1> QED
  BY <1>4, <1>6, <1>7, <1>8 DEF AccountsInv

\* Every step preserves the invariant.
LEMMA AccountsStepInv == AccountsInv /\ [AccountsNext]_accountVars => AccountsInv'
<1> SUFFICES ASSUME AccountsInv, [AccountsNext]_accountVars PROVE AccountsInv'
  OBVIOUS
<1>1. CASE AccountsNext
  BY <1>1, KeepsTypes, KeepsRowsWhole, KeepsRequestsInOrder, KeepsOneChange,
     KeepsHeldIsCurrent, KeepsDeletedIsGone, KeepsNoOrphans, KeepsRowsAgree
     DEF AccountsInv
<1>2. CASE UNCHANGED accountVars
  <2> USE <1>2 DEF accountVars, followUpVars, historyVars, AccountsInv
  <2>1. AccountsTypeOK'
    BY DEF AccountsTypeOK
  <2>2. RowsWhole' /\ RequestsInOrder'
    BY DEF RowsWhole, RequestsInOrder, InHand, Exists, Idle
  <2>3. OneChange' /\ HeldIsCurrent'
    BY DEF OneChange, ChangesIn, HeldIsCurrent, Working, Idle, Exists
  <2>4. DeletedIsGone' /\ NoOrphans'
    BY DEF DeletedIsGone, NoOrphans, Exists
  <2>5. RowsAgree'
    BY DEF RowsAgree, Agrees, Exists, StandsAt, Working, Idle
  <2> QED
    BY <2>1, <2>2, <2>3, <2>4, <2>5
<1> QED
  BY <1>1, <1>2

-----------------------------------------------------------------------------
\* The rows, the requests and the follow-ups stay in the relation AccountsInv
\* describes, whatever handlers overlap.
THEOREM AccountsInvariant == AccountsSpec => []AccountsInv
  BY AccountsInitInv, AccountsStepInv, PTL DEF AccountsSpec

\* Type correctness of the rows, the requests in flight and the follow-ups.
THEOREM AccountsTypeCorrect == AccountsSpec => []AccountsTypeOK
<1>1. AccountsInv => AccountsTypeOK
  BY DEF AccountsInv
<1> QED
  BY <1>1, AccountsInvariant, PTL

\* One password opens a local account and unwraps its master key: register,
\* setupUserSecurity, changeVaultPassword, vaultResetComplete and the deletions
\* leave the user row and the security row agreeing for any number of requests in
\* flight, except where two of them overlap, one breaks off between the rows, or an
\* entity read before a change is saved after it.
THEOREM PasswordsAgree == AccountsSpec => []CredentialsAgree
<1>1. AccountsInv => CredentialsAgree
  BY DEF AccountsInv, RowsAgree, Agrees, CredentialsAgree, Changing, StandsAt,
         Credentials
<1> QED
  BY <1>1, AccountsInvariant, PTL

-----------------------------------------------------------------------------
(* The signups and their abuse checks                                       *)

SignupParts == SignsUpOnce /\ HeldSignup /\ ChecksKnow /\ SharedFound

\* What a step leaves of the signup of u: the fingerprint and the coverage; and
\* it brings nobody who will save another signup.
Calm(u) ==
  /\ Exists(u) => /\ Exists(u)' /\ Fingerprint(u)' = Fingerprint(u)
                  /\ Covered(u) => Covered(u)'
  /\ ~Exists(u) /\ Exists(u)' => Fingerprint(u)' = Nothing
  /\ age'[u] # "older" => age[u] # "older"
  /\ lookup'[u] \subseteq lookup[u]
NobodyComes(u) ==
  /\ Secured(u) => Secured(u)'
  /\ \A s \in Slots, a \in {"security.save", "meta"} :
       StandsAt(s, u, a)' => StandsAt(s, u, a)

\* Whoever holds an entity of u after the step held it before, and the step left
\* the row alone, or it is as the row is now.
KeptIn(s, u) ==
  /\ Holds(s, u) /\ req'[s].entity = req[s].entity /\ req'[s].kind = req[s].kind
  /\ req'[s].at = "save" => req[s].at = "save"
HeldCalm(u) ==
  \/ lookup'[u] = {} /\ \A s \in Slots : Holds(s, u)' => Current(s, u)'
  \/ /\ users'[u].signupFlagged = users[u].signupFlagged
     /\ Fingerprint(u)' = Fingerprint(u)
     /\ lookup'[u] \subseteq lookup[u]
     /\ \A s \in Slots : Holds(s, u)' => KeptIn(s, u) \/ Current(s, u)'

\* Such steps keep who signs up once.
LEMMA SignsFrame ==
  ASSUME SignsUpOnce, Undisputed' \subseteq Undisputed,
         \A u \in Undisputed' : Calm(u) /\ NobodyComes(u) /\ (Fresh(u) => Fresh(u)')
  PROVE  SignsUpOnce'
<1> SUFFICES ASSUME NEW u \in Undisputed'
             PROVE  /\ \A s \in Slots : StandsAt(s, u, "security.save")' =>
                         Fresh(u)' /\ \A r \in Slots : ~StandsAt(r, u, "meta")'
                    /\ \A s \in Slots : StandsAt(s, u, "meta")' =>
                         /\ Fresh(u)' /\ Secured(u)'
                         /\ \A r \in Slots : StandsAt(r, u, "meta")' => r = s
                    /\ ~Fresh(u)' => Exists(u)' /\ Secured(u)'
  BY Zenon DEF SignsUpOnce
<1>1. u \in Undisputed
  OBVIOUS
<1>2. /\ \A s \in Slots, a \in {"security.save", "meta"} :
           StandsAt(s, u, a)' => StandsAt(s, u, a)
      /\ Fresh(u) => Fresh(u)'
      /\ Secured(u) => Secured(u)'
      /\ Exists(u) => Exists(u)'
  BY DEF Calm, NobodyComes
<1>3. /\ \A s \in Slots : StandsAt(s, u, "security.save") =>
           Fresh(u) /\ \A r \in Slots : ~StandsAt(r, u, "meta")
      /\ \A s \in Slots : StandsAt(s, u, "meta") =>
           /\ Fresh(u) /\ Secured(u)
           /\ \A r \in Slots : StandsAt(r, u, "meta") => r = s
      /\ ~Fresh(u) => Exists(u) /\ Secured(u)
  BY <1>1 DEF SignsUpOnce
<1> QED
  BY <1>2, <1>3, Zenon

\* The same for the entities that are held.
LEMMA HeldFrame ==
  ASSUME HeldSignup, Undisputed' \subseteq Undisputed,
         \A u \in Undisputed' : HeldCalm(u)
  PROVE  HeldSignup'
<1> SUFFICES ASSUME NEW u \in Undisputed'
             PROVE  /\ \A s \in Slots : Holds(s, u)' => Current(s, u)'
                    /\ \A e \in lookup'[u] :
                         /\ e.signupFlagged = users'[u].signupFlagged
                         /\ e.signupFingerprint = Fingerprint(u)'
                         /\ lookup'[u] = {e}
  BY DEF HeldSignup
<1>1. CASE lookup'[u] = {} /\ \A s \in Slots : Holds(s, u)' => Current(s, u)'
  BY <1>1
<1>2. CASE ~(lookup'[u] = {} /\ \A s \in Slots : Holds(s, u)' => Current(s, u)')
  <2>1. /\ users'[u].signupFlagged = users[u].signupFlagged
        /\ Fingerprint(u)' = Fingerprint(u)
        /\ lookup'[u] \subseteq lookup[u]
        /\ \A s \in Slots : Holds(s, u)' => KeptIn(s, u) \/ Current(s, u)'
    BY <1>2 DEF HeldCalm
  <2>2. \A s \in Slots : KeptIn(s, u) => Current(s, u)'
    BY <2>1 DEF HeldSignup, KeptIn, Current
  <2>3. \A e \in lookup'[u] : /\ e.signupFlagged = users[u].signupFlagged
                              /\ e.signupFingerprint = Fingerprint(u)
                              /\ lookup'[u] = {e}
    BY <2>1 DEF HeldSignup
  <2> QED
    BY <2>1, <2>2, <2>3
<1> QED
  BY <1>1, <1>2

\* The same for the checks in progress, of which none is new.
LEMMA ChecksFrame ==
  ASSUME AccountsTypeOK, SignsUpOnce, ChecksKnow, Undisputed' \subseteq Undisputed,
         \A u \in Undisputed' : Calm(u),
         \A c \in abuse' : \E d \in abuse : d.user = c.user /\ d.device = c.device
  PROVE  ChecksKnow'
<1> SUFFICES ASSUME NEW c \in abuse', c.user \in Undisputed'
             PROVE  Fingerprint(c.user)' = c.device
  BY DEF ChecksKnow
<1>1. PICK d \in abuse : d.user = c.user /\ d.device = c.device
  OBVIOUS
<1>2. Exists(c.user)
  BY <1>1 DEF SignsUpOnce, Fresh
<1> QED
  BY <1>1, <1>2 DEF Calm, ChecksKnow

\* The same for pairs of accounts, if the checks still to look stay so.
LEMMA SharedFrame ==
  ASSUME SharedFound, Undisputed' \subseteq Undisputed,
         \A u \in Undisputed' : Calm(u),
         \A u, v \in Undisputed' :
           Shares(u, v) /\ WillFind(u, v) => WillFind(u, v)' \/ (Covered(u)' /\ Covered(v)')
  PROVE  SharedFound'
<1> SUFFICES ASSUME NEW u \in Undisputed', NEW v \in Undisputed', Shares(u, v)'
             PROVE  (Covered(u)' /\ Covered(v)') \/ WillFind(u, v)' \/ WillFind(v, u)'
  BY DEF SharedFound
<1>1. /\ Shares(u, v) /\ Shares(v, u)
      /\ Covered(u) => Covered(u)'
      /\ Covered(v) => Covered(v)'
  BY DEF Calm, Shares
<1>2. (Covered(u) /\ Covered(v)) \/ WillFind(u, v) \/ WillFind(v, u)
  BY <1>1 DEF SharedFound
<1> QED
  BY <1>1, <1>2

\* No step without a new check makes a signup of one who has none.
LEMMA FreshFrame ==
  ASSUME NEW u \in Users, Calm(u), Fresh(u),
         \A c \in abuse' : \E d \in abuse : d.user = c.user,
         \A v \in checked' \ checked : \E c \in abuse : c.user = v
  PROVE  Fresh(u)'
<1>1. Exists(u)' => Fingerprint(u)' = Nothing
  BY DEF Fresh, Calm
<1>2. lookup'[u] = {} /\ u \notin checked' /\ \A c \in abuse' : c.user # u
  BY DEF Fresh, Calm
<1> QED
  BY <1>1, <1>2 DEF Fresh

\* Together: all but the pairs.
LEMMA MildSteps ==
  ASSUME SignupInv, Undisputed' \subseteq Undisputed,
         \A u \in Undisputed' : Calm(u) /\ NobodyComes(u) /\ HeldCalm(u),
         \A c \in abuse' : \E d \in abuse : d.user = c.user /\ d.device = c.device,
         \A v \in checked' \ checked : \E c \in abuse : c.user = v
  PROVE  SignsUpOnce' /\ HeldSignup' /\ ChecksKnow'
<1>0. AccountsTypeOK /\ SignsUpOnce /\ HeldSignup /\ ChecksKnow
  BY DEF SignupInv, AccountsInv
<1>1. \A u \in Undisputed' : u \in Users
  BY DEF Undisputed
<1>2. \A u \in Undisputed' : Fresh(u) => Fresh(u)'
  BY <1>1, FreshFrame
<1>3. SignsUpOnce'
  BY <1>0, <1>2, SignsFrame
<1>4. HeldSignup'
  BY <1>0, HeldFrame
<1>5. ChecksKnow'
  BY <1>0, ChecksFrame
<1> QED
  BY <1>3, <1>4, <1>5

\* Together, for the steps that end no check that has still to look.
LEMMA CalmSteps ==
  ASSUME SignupInv, Undisputed' \subseteq Undisputed, abuse' \subseteq abuse,
         \A u \in Undisputed' : Calm(u) /\ NobodyComes(u) /\ HeldCalm(u),
         \A v \in checked' \ checked : \E c \in abuse : c.user = v /\ c.at = "block"
  PROVE  SignupParts'
<1>1. SignsUpOnce' /\ HeldSignup' /\ ChecksKnow'
  BY MildSteps
<1>2. ASSUME NEW u \in Undisputed', NEW v \in Undisputed', WillFind(u, v)
      PROVE  WillFind(u, v)'
  BY <1>2 DEF WillFind
<1>3. SharedFound'
  BY <1>2, SharedFrame DEF SignupInv
<1> QED
  BY <1>1, <1>3 DEF SignupParts

\* A step of the request in s that changes nothing else of the signup of u.
LEMMA Moving ==
  ASSUME NEW s \in Slots, NEW u \in Users,
         \A r \in Slots \ {s} : req'[r] = req[r],
         \/ users'[u] = users[u]
         \/ /\ Exists(u) /\ Exists(u)' /\ Fingerprint(u)' = Fingerprint(u)
            /\ users'[u].signupFlagged = users[u].signupFlagged,
         age'[u] = age[u], lookup'[u] = lookup[u],
         u \in resolved => u \in resolved',
         Secured(u) => security'[u] # Nothing \/ StandsAt(s, u, "user.delete")'
                       \/ \E r \in Slots \ {s} : StandsAt(r, u, "user.delete"),
         \A a \in {"security.save", "meta"} : StandsAt(s, u, a)' => StandsAt(s, u, a),
         Holds(s, u)' => KeptIn(s, u) \/ Current(s, u)'
  PROVE  Calm(u) /\ NobodyComes(u) /\ HeldCalm(u)
<1>1. \A r \in Slots \ {s} : /\ \A a \in AccountAwaits : StandsAt(r, u, a)' <=> StandsAt(r, u, a)
                             /\ Holds(r, u)' <=> Holds(r, u)
                             /\ Holds(r, u) => KeptIn(r, u)
  BY DEF StandsAt, Working, Idle, Holds, KeptIn
<1>2. Exists(u)' <=> Exists(u)
  BY DEF Exists
<1>3. Secured(u) => Secured(u)'
  BY <1>1 DEF Secured, AccountAwaits
<1>4. Calm(u)
  BY <1>2 DEF Calm, Covered, Fingerprint
<1>5. NobodyComes(u)
  BY <1>1, <1>3 DEF NobodyComes, AccountAwaits
<1>6. HeldCalm(u)
  BY <1>1 DEF HeldCalm, Fingerprint
<1> QED
  BY <1>4, <1>5, <1>6

\* Arrivals: nothing but the request itself.
LEMMA ArrivalKeeps ==
  ASSUME SignupInv, Rest, torn \subseteq torn', NEW s \in Slots,
         NEW a \in AccountAwaits \ {"security.save", "meta"}, NEW k \in Kinds,
         NEW u \in Users \cup {Nothing}, NEW e \in Row \cup {NoRow},
         NEW p \in Passwords \cup {Nothing}, Arrive(s, Call(a, k, u, e, p)),
         \/ e = NoRow
         \/ u = Nothing
         \/ /\ k # "resolve" => e.signupFlagged = users[u].signupFlagged
            /\ a = "save" => e.signupFingerprint = Fingerprint(u)
  PROVE  SignupParts'
<1> USE NothingAssumption
<1>0. AccountsTypeOK
  BY DEF SignupInv, AccountsInv
<1>1. /\ Idle(s) /\ \A r \in Slots \ {s} : req'[r] = req[r]
      /\ req'[s].at = a /\ req'[s].kind = k /\ req'[s].user = u
      /\ req'[s].entity = e
  BY <1>0, Arriving
<1>2. UNCHANGED <<users, security, age, lookup, abuse, deleted, resolved, checked, stale>>
  BY DEF Rest
<1>3. ASSUME NEW v \in Users
      PROVE  Calm(v) /\ NobodyComes(v) /\ HeldCalm(v)
  <2>1. \A b \in {"security.save", "meta", "user.delete"} : ~StandsAt(s, v, b)
    BY <1>1 DEF StandsAt, Working
  <2>2. \A b \in {"security.save", "meta"} : ~StandsAt(s, v, b)'
    BY <1>1 DEF StandsAt
  <2>3. Holds(s, v)' => Current(s, v)'
    BY <1>1, <1>2 DEF Holds, Working, Current, Fingerprint
  <2>4. Secured(v) => security'[v] # Nothing
                      \/ \E r \in Slots \ {s} : StandsAt(r, v, "user.delete")
    BY <1>2, <2>1 DEF Secured
  <2> QED
    BY <1>1, <1>2, <2>1, <2>2, <2>3, <2>4, Moving
<1>4. Undisputed' \subseteq Undisputed
  BY <1>2 DEF Undisputed
<1>5. \A v \in Undisputed' : v \in Users
  BY DEF Undisputed
<1> QED
  BY <1>2, <1>3, <1>4, <1>5, CalmSteps

\* register, with an account of its own or none yet.
LEMMA SignupArrivals ==
  ASSUME SignupInv, NEW s \in Slots, Arrival(s)
  PROVE  SignupParts'
<1> USE NothingAssumption
<1>0. AccountsTypeOK
  BY DEF SignupInv, AccountsInv
<1>1. ASSUME NEW e \in Emails, NEW p \in Passwords, NEW d \in Devices \cup {Nothing},
             NEW n \in Subnets, Register(s, e, p, d, n)
      PROVE  SignupParts'
  <2> DEFINE row == [LocalRow(e, p) EXCEPT !.signupFingerprint = d, !.signupIp = n]
  <2>1. row \in Row
    BY RowsBuilt
  <2>2. Arrive(s, Call("find", "register", Nothing, row, p)) /\ Rest /\ torn' = torn
    BY <1>1 DEF Register, Rest, followUpVars, historyVars
  <2> HIDE DEF row
  <2> QED
    BY <2>1, <2>2, ArrivalKeeps DEF AccountAwaits, Kinds
<1>2. ASSUME NEW e \in Emails, NEW sub \in Emails, GoogleSignIn(s, e, sub)
      PROVE  SignupParts'
  <2>1. Arrive(s, Call("find", "google", Nothing, GoogleRow(e, sub), Nothing)) /\ Rest
        /\ torn' = torn
    BY <1>2 DEF GoogleSignIn, Rest, followUpVars, historyVars
  <2> QED
    BY <2>1, GoogleRows, ArrivalKeeps DEF AccountAwaits, Kinds
<1>3. ASSUME NEW u \in Users, NEW p \in Passwords, SetupSecurity(s, u, p)
      PROVE  SignupParts'
  <2>1. /\ Arrive(s, Call("security.find", "setup", u, NoRow, p)) /\ Rest
        /\ torn \subseteq torn'
    BY <1>3 DEF SetupSecurity, Contend, Rest, followUpVars
  <2> QED
    BY <2>1, ArrivalKeeps DEF AccountAwaits, Kinds
<1>4. ASSUME NEW u \in Users, NEW p \in Passwords,
             ChangePassword(s, u, p) \/ CompleteReset(s, u, p)
      PROVE  SignupParts'
  <2>1. /\ \E a \in {"hash", "wrap"}, k \in {"change", "reset"} :
              Arrive(s, Call(a, k, u, NoRow, p))
        /\ Rest /\ torn \subseteq torn'
    BY <1>4 DEF ChangePassword, CompleteReset, FirstStep, Contend, Rest, followUpVars
  <2> QED
    BY <2>1, ArrivalKeeps DEF AccountAwaits, Kinds
<1>5. ASSUME NEW u \in Users,
             UpdateProfile(s, u) \/ UpdateUserStatus(s, u) \/ ResolveFlagged(s, u)
      PROVE  SignupParts'
  <2>1. users[u] \in Row
    BY <1>0, <1>5 DEF UpdateProfile, UpdateUserStatus, ResolveFlagged, Read, Exists,
       AccountsTypeOK
  <2>2. PICK k \in {"profile", "status", "resolve"}, e \in Row :
          /\ Arrive(s, Call("save", k, u, e, Nothing)) /\ Rest /\ torn' = torn
          /\ k # "resolve" => e.signupFlagged = users[u].signupFlagged
          /\ e.signupFingerprint = Fingerprint(u)
    <3>1. CASE UpdateProfile(s, u)
      BY <2>1, <3>1 DEF UpdateProfile, Read, Rest, followUpVars, historyVars, Fingerprint
    <3>2. CASE UpdateUserStatus(s, u)
      <4>1. PICK b \in BOOLEAN : Read(s, "status", u, [users[u] EXCEPT !.isActive = b])
        BY <3>2 DEF UpdateUserStatus
      <4> DEFINE e == [users[u] EXCEPT !.isActive = b]
      <4>2. /\ e \in Row /\ e.signupFlagged = users[u].signupFlagged
            /\ e.signupFingerprint = Fingerprint(u)
        BY <2>1 DEF Row, Fingerprint
      <4> HIDE DEF e
      <4>3. Read(s, "status", u, e)
        BY <4>1 DEF e
      <4> QED
        BY <4>2, <4>3 DEF Read, Rest, followUpVars, historyVars
    <3>3. CASE ResolveFlagged(s, u)
      <4> DEFINE e == [users[u] EXCEPT !.signupFlagged = FALSE]
      <4>1. e \in Row /\ e.signupFingerprint = Fingerprint(u)
        BY <2>1 DEF Row, Fingerprint
      <4> HIDE DEF e
      <4>2. Read(s, "resolve", u, e)
        BY <3>3 DEF e, ResolveFlagged
      <4> QED
        BY <4>1, <4>2 DEF Read, Rest, followUpVars, historyVars
    <3> QED
      BY <1>5, <3>1, <3>2, <3>3
  <2> QED
    BY <2>2, ArrivalKeeps DEF AccountAwaits, Kinds
<1>6. ASSUME NEW u \in Users, DeleteAccount(s, u)
      PROVE  SignupParts'
  <2>1. /\ \E a \in {"security.delete", "user.delete"} :
              Arrive(s, Call(a, "delete", u, NoRow, Nothing))
        /\ Rest /\ torn \subseteq torn'
    BY <1>6 DEF DeleteAccount, Contend, Rest, followUpVars
  <2> QED
    BY <2>1, ArrivalKeeps DEF AccountAwaits, Kinds
<1> QED
  BY <1>1, <1>2, <1>3, <1>4, <1>5, <1>6 DEF Arrival

\* Steps of the request in s that change no user row and no follow-up.
LEMMA QuietRequest ==
  ASSUME SignupInv, NEW s \in Slots,
         UNCHANGED <<users, age, lookup, abuse, deleted, resolved, checked, stale>>,
         torn \subseteq torn', \A r \in Slots \ {s} : req'[r] = req[r],
         \A u \in Undisputed' :
           /\ security[u] # Nothing =>
                security'[u] # Nothing \/ StandsAt(s, u, "user.delete")'
           /\ StandsAt(s, u, "user.delete") => StandsAt(s, u, "user.delete")'
           /\ \A a \in {"security.save", "meta"} : StandsAt(s, u, a)' => StandsAt(s, u, a)
           /\ Holds(s, u)' => KeptIn(s, u) \/ Current(s, u)'
  PROVE  SignupParts'
<1>1. ASSUME NEW u \in Undisputed'
      PROVE  Calm(u) /\ NobodyComes(u) /\ HeldCalm(u)
  <2>1. u \in Users
    BY DEF Undisputed
  <2>2. Secured(u) => security'[u] # Nothing \/ StandsAt(s, u, "user.delete")'
                      \/ \E r \in Slots \ {s} : StandsAt(r, u, "user.delete")
    BY DEF Secured
  <2>3. /\ \A a \in {"security.save", "meta"} : StandsAt(s, u, a)' => StandsAt(s, u, a)
        /\ Holds(s, u)' => KeptIn(s, u) \/ Current(s, u)'
    OBVIOUS
  <2>4. users'[u] = users[u] /\ age'[u] = age[u] /\ lookup'[u] = lookup[u]
    OBVIOUS
  <2> QED
    BY <2>1, <2>2, <2>3, <2>4, Moving
<1>2. Undisputed' \subseteq Undisputed
  BY DEF Undisputed
<1> QED
  BY <1>1, <1>2, CalmSteps

\* findOrCreate reads an account.
LEMMA SignupFindAccount ==
  ASSUME SignupInv, NEW s \in Slots, FindAccount(s)
  PROVE  SignupParts'
<1> USE NothingAssumption
<1>0. AccountsTypeOK /\ RequestsInOrder
  BY DEF SignupInv, AccountsInv
<1>1. /\ ~Idle(s) /\ req[s].at = "find" /\ req[s].user = Nothing
      /\ req[s].entity \in Row /\ req[s] \in Request
  BY <1>0, InHandOf DEF FindAccount, At, InHand, BeforeUser, Request
<1>2. UNCHANGED <<users, security, age, lookup, abuse, deleted, resolved, checked, stale>>
  BY DEF FindAccount, followUpVars
<1> DEFINE new == req[s].entity
<1>3. CASE Await(s, "insert") /\ torn' = torn
  <2>1. Steps(s, "insert")
    BY <1>0, <1>1, <1>3, Awaiting DEF AccountAwaits
  <2>2. \A u \in Users : ~Working(s, u) /\ ~Working(s, u)'
    BY <1>1, <2>1 DEF Working, Steps
  <2>3. \A u \in Undisputed' : u \in Users
    BY DEF Undisputed
  <2> QED
    BY <1>2, <1>3, <2>1, <2>2, <2>3, QuietRequest DEF Steps, StandsAt, Holds
<1>4. CASE Answer(s) /\ torn' = torn
  <2>1. /\ req'[s] = NoRequest
        /\ \A r \in Slots \ {s} : req'[r] = req[r]
    BY <1>0, <1>4, Answering
  <2>2. \A u \in Users : ~Working(s, u) /\ ~Working(s, u)'
    BY <1>1, <2>1 DEF Working, Idle
  <2>3. \A u \in Undisputed' : u \in Users
    BY DEF Undisputed
  <2> QED
    BY <1>2, <1>4, <2>1, <2>2, <2>3, QuietRequest DEF StandsAt, Holds
<1>5. CASE ~(Await(s, "insert") /\ torn' = torn) /\ ~(Answer(s) /\ torn' = torn)
  <2>1. PICK u \in Users :
          /\ Exists(u) /\ users[u] \in Row /\ torn \subseteq torn'
          /\ \/ /\ req[s].kind = "register"
                /\ req' = [req EXCEPT ![s].at = "security.find", ![s].user = u,
                     ![s].entity = [users[u] EXCEPT !.signupIp = new.signupIp,
                       !.signupFingerprint = new.signupFingerprint]]
             \/ /\ req[s].kind # "register"
                /\ req' = [req EXCEPT ![s].at = "save", ![s].user = u,
                              ![s].entity = [users[u] EXCEPT !.email = new.email]]
    <3>1. ASSUME NEW u \in Users, u \in Known(new)
          PROVE  users[u] \in Row /\ Exists(u)
      BY <1>0, <1>1, <3>1, NothingAssumption DEF Known, Exists, NoRow, Row, AccountsTypeOK
    <3>2. PICK u \in Known(new) :
           IF req[s].kind = "register"
           THEN /\ req' = [req EXCEPT ![s].at = "security.find", ![s].user = u,
                     ![s].entity = [users[u] EXCEPT !.signupIp = new.signupIp,
                       !.signupFingerprint = new.signupFingerprint]]
                /\ Contend(s, u)
           ELSE /\ IF users[u].email = new.email THEN Answer(s)
                   ELSE req' = [req EXCEPT ![s].at = "save", ![s].user = u,
                                  ![s].entity = [users[u] EXCEPT !.email = new.email]]
                /\ UNCHANGED torn
      BY <1>5 DEF FindAccount
    <3>3. u \in Users
      BY <3>2 DEF Known
    <3> QED
      BY <1>5, <3>1, <3>2, <3>3 DEF Contend
  <2>2. PICK a \in {"security.find", "save"}, e \in Row :
          /\ Becomes(s, a, u, e)
          /\ e.signupFlagged = users[u].signupFlagged
          /\ a = "save" => e.signupFingerprint = users[u].signupFingerprint
    <3>1. CASE req[s].kind = "register"
      <4> DEFINE e == [users[u] EXCEPT !.signupIp = new.signupIp,
                                       !.signupFingerprint = new.signupFingerprint]
      <4>1. e \in Row /\ e.signupFlagged = users[u].signupFlagged
        BY <1>1, <2>1 DEF Row
      <4> HIDE DEF e
      <4>2. req' = [req EXCEPT ![s] = [[[req[s] EXCEPT !.at = "security.find"]
                                          EXCEPT !.user = u] EXCEPT !.entity = e]]
        BY <1>0, <2>1, <3>1 DEF AccountsTypeOK, e
      <4>3. Becomes(s, "security.find", u, e)
        BY <1>0, <1>1, <4>1, <4>2
           DEF Becomes, Request, AccountAwaits, AccountsTypeOK
      <4> QED
        BY <4>1, <4>3
    <3>2. CASE req[s].kind # "register"
      <4> DEFINE e == [users[u] EXCEPT !.email = new.email]
      <4>1. /\ e \in Row /\ e.signupFlagged = users[u].signupFlagged
            /\ e.signupFingerprint = users[u].signupFingerprint
        BY <1>1, <2>1 DEF Row
      <4> HIDE DEF e
      <4>2. req' = [req EXCEPT ![s] = [[[req[s] EXCEPT !.at = "save"]
                                          EXCEPT !.user = u] EXCEPT !.entity = e]]
        BY <1>0, <2>1, <3>2 DEF AccountsTypeOK, e
      <4>3. Becomes(s, "save", u, e)
        BY <1>0, <1>1, <4>1, <4>2
           DEF Becomes, Request, AccountAwaits, AccountsTypeOK
      <4> QED
        BY <4>1, <4>3
    <3> QED
      BY <3>1, <3>2
  <2>3. ASSUME NEW v \in Undisputed'
        PROVE  /\ ~Working(s, v)
               /\ \A b \in {"security.save", "meta"} : ~StandsAt(s, v, b)'
               /\ Holds(s, v)' => Current(s, v)'
    <3>1. v \in Users
      BY DEF Undisputed
    <3> QED
      BY <1>1, <1>2, <2>2, <3>1
         DEF Working, StandsAt, Becomes, Holds, Current, Fingerprint
  <2> QED
    BY <1>2, <2>1, <2>2, <2>3, QuietRequest DEF Becomes, StandsAt
<1> QED
  BY <1>3, <1>4, <1>5

\* Steps after which the request has gone or stands at an await where it saves no
\* entity: the wrapping of the key, the end of a reset, a failure, the deletion of
\* the security row.
LEMMA SignupQuietSteps ==
  ASSUME SignupInv, NEW s \in Slots,
         Wrap(s) \/ ConsumeReset(s) \/ AbortRequest(s) \/ DeleteSecurity(s)
  PROVE  SignupParts'
<1> USE NothingAssumption
<1>0. AccountsTypeOK /\ RequestsInOrder
  BY DEF SignupInv, AccountsInv
<1>1. ~Idle(s) /\ req[s] \in Request /\ InHand(req[s])
  BY <1>0, InHandOf DEF Wrap, ConsumeReset, AbortRequest, DeleteSecurity, At
<1>2. /\ UNCHANGED <<users, age, lookup, abuse, deleted, resolved, checked, stale>>
      /\ torn \subseteq torn'
  BY DEF Wrap, ConsumeReset, AbortRequest, DeleteSecurity, followUpVars, historyVars
<1>3. ASSUME NEW u \in Users, ~(StandsAt(s, u, "user.delete") /\ AbortRequest(s)),
             req'[s] = NoRequest, \A r \in Slots \ {s} : req'[r] = req[r]
      PROVE  /\ \A a \in AccountAwaits : ~StandsAt(s, u, a)'
             /\ ~Holds(s, u)'
             /\ ~StandsAt(s, u, "user.delete")
  BY <1>3 DEF Wrap, ConsumeReset, DeleteSecurity, At, StandsAt, Holds, Working, Idle
<1>4. ASSUME NEW u \in Undisputed'
      PROVE  u \in Users /\ ~(StandsAt(s, u, "user.delete") /\ AbortRequest(s))
  BY DEF Undisputed, AbortRequest, StandsAt, Working, Credentials
<1>5. CASE Wrap(s)
  <2>1. /\ req[s].at = "wrap" /\ req[s].password \in Passwords /\ req[s].user \in Users
        /\ req[s].entity = NoRow
    BY <1>1, <1>5 DEF Wrap, At, InHand, BeforeUser
  <2>2. \A u \in Users : security[u] # Nothing => security'[u] # Nothing
    BY <1>0, <1>5, <2>1 DEF Wrap, AccountsTypeOK
  <2>3. CASE Answer(s)
    BY <1>0, <1>2, <1>3, <1>4, <2>2, <2>3, Answering, QuietRequest DEF AccountAwaits
  <2>4. CASE Await(s, "consume")
    <3>1. Steps(s, "consume")
      BY <1>0, <1>1, <2>4, Awaiting DEF AccountAwaits
    <3> QED
      BY <1>2, <1>4, <2>1, <2>2, <3>1, QuietRequest DEF Steps, StandsAt, Holds
  <2> QED
    BY <1>5, <2>3, <2>4 DEF Wrap
<1>6. CASE ConsumeReset(s) \/ AbortRequest(s)
  <2>1. Answer(s) /\ security' = security
    BY <1>6 DEF ConsumeReset, AbortRequest
  <2> QED
    BY <1>0, <1>2, <1>3, <1>4, <2>1, Answering, QuietRequest DEF AccountAwaits
<1>7. CASE DeleteSecurity(s)
  <2>1. /\ req[s].at = "security.delete" /\ req[s].user \in Users /\ req[s].entity = NoRow
        /\ Await(s, "user.delete")
    BY <1>1, <1>7 DEF DeleteSecurity, At, InHand, BeforeUser
  <2>2. Steps(s, "user.delete") /\ ~Idle(s)'
    BY <1>0, <1>1, <2>1, Awaiting DEF AccountAwaits, Steps, Idle, Request, NoRequest
  <2>3. \A u \in Users : security'[u] = security[u] \/ StandsAt(s, u, "user.delete")'
    BY <1>0, <1>7, <2>1, <2>2 DEF DeleteSecurity, AccountsTypeOK, StandsAt, Working, Steps
  <2> QED
    BY <1>2, <1>4, <2>1, <2>2, <2>3, QuietRequest DEF Steps, StandsAt, Holds, Working
<1> QED
  BY <1>5, <1>6, <1>7

\* findOrCreate makes an account, which has not signed up yet.
LEMMA SignupInsert ==
  ASSUME SignupInv, NEW s \in Slots, InsertAccount(s)
  PROVE  SignupParts'
<1> USE NothingAssumption
<1>0. AccountsTypeOK /\ RequestsInOrder /\ SignsUpOnce
  BY DEF SignupInv, AccountsInv
<1>1. /\ ~Idle(s) /\ req[s].user = Nothing /\ req[s] \in Request /\ req[s].entity \in Row
  BY <1>0, InHandOf DEF InsertAccount, At, InHand, BeforeUser, Request
<1>2. UNCHANGED <<security, age, lookup, abuse, deleted, resolved, checked, stale, torn>>
  BY DEF InsertAccount, followUpVars, historyVars
<1>3. PICK u \in Users :
        /\ Unused(u)
        /\ IF Refused(u, req[s].entity) THEN Answer(s) /\ UNCHANGED users
           ELSE /\ users' = [users EXCEPT ![u] =
                     [req[s].entity EXCEPT !.signupIp = Nothing,
                                           !.signupFingerprint = Nothing]]
                /\ IF req[s].kind = "google" THEN Answer(s)
                   ELSE req' = [req EXCEPT ![s].at = "security.find", ![s].user = u]
  BY DEF InsertAccount
<1> DEFINE e == [req[s].entity EXCEPT !.signupIp = Nothing, !.signupFingerprint = Nothing]
           q == [[req[s] EXCEPT !.at = "security.find"] EXCEPT !.user = u]
<1>4. /\ e \in Row /\ e.signupFingerprint = Nothing
      /\ e.signupFlagged = req[s].entity.signupFlagged
  BY <1>1 DEF Row
<1>5. /\ q \in Request /\ q.at = "security.find" /\ q.user = u
      /\ q.entity = req[s].entity
  BY <1>1 DEF Request, AccountAwaits
<1>6. req' = [req EXCEPT ![s].at = "security.find", ![s].user = u]
        => req' = [req EXCEPT ![s] = q]
  BY <1>0 DEF AccountsTypeOK
<1>7. users' = users \/ users' = [users EXCEPT ![u] = e]
  BY <1>3
<1> HIDE DEF e, q
<1>8. /\ \A r \in Slots \ {s} : req'[r] = req[r]
      /\ \/ req'[s] = NoRequest
         \/ req'[s] = q /\ users' = [users EXCEPT ![u] = e]
  BY <1>0, <1>3, <1>6, Answering DEF AccountsTypeOK, e
<1>9. ASSUME NEW v \in Undisputed'
      PROVE  Calm(v) /\ NobodyComes(v) /\ HeldCalm(v)
  <2>0. v \in Users /\ v \in Undisputed
    BY <1>2 DEF Undisputed
  <2>1. /\ \A a \in AccountAwaits : ~StandsAt(s, v, a)
        /\ ~StandsAt(s, v, "security.save")' /\ ~StandsAt(s, v, "meta")'
    BY <1>1, <1>5, <1>8, <2>0 DEF StandsAt, Working, Idle
  <2>2. Secured(v) => \/ security'[v] # Nothing
                      \/ \E r \in Slots \ {s} : StandsAt(r, v, "user.delete")
    BY <1>2, <2>1 DEF Secured, AccountAwaits
  <2>3. CASE users'[v] = users[v] /\ ~Holds(s, v)'
    BY <1>2, <1>8, <2>0, <2>1, <2>2, <2>3, Moving
  <2>4. CASE ~(users'[v] = users[v] /\ ~Holds(s, v)')
    <3>1. v = u
      <4>1. CASE users'[v] # users[v]
        BY <1>0, <1>7, <2>0, <4>1 DEF AccountsTypeOK
      <4>2. CASE Holds(s, v)'
        BY <1>5, <1>8, <4>2 DEF Holds, Working, Idle
      <4> QED
        BY <2>4, <4>1, <4>2
    <3>2. users'[u] = e
      <4>1. CASE users'[v] # users[v]
        BY <1>0, <1>7, <3>1, <4>1 DEF AccountsTypeOK
      <4>2. CASE Holds(s, v)'
        BY <1>0, <1>8, <4>2 DEF Holds, Working, Idle, AccountsTypeOK
      <4> QED
        BY <2>4, <4>1, <4>2
    <3>3. ~Exists(u) /\ Fingerprint(u)' = Nothing
      BY <1>3, <1>4, <3>2 DEF Unused, Fingerprint
    <3>4. \A r \in Slots \ {s} : ~Working(r, u)'
      BY <1>3, <1>8 DEF Unused, Working, Idle
    <3>5. Holds(s, u)' => Current(s, u)'
      BY <1>4, <1>5, <1>8, <3>2 DEF Holds, Working, Idle, Current
    <3>6. lookup'[u] = {}
      BY <1>0, <1>2, <2>0, <3>1, <3>3 DEF SignsUpOnce, Fresh
    <3>7. HeldCalm(u)
      BY <3>4, <3>5, <3>6 DEF HeldCalm, Holds
    <3>8. Calm(u)
      BY <1>2, <3>3 DEF Calm
    <3>9. NobodyComes(u)
      <4>1. Secured(u) => Secured(u)'
        BY <1>1, <1>2, <1>3 DEF Secured, StandsAt, Unused
      <4> QED
        BY <2>1, <3>1, <3>4, <4>1 DEF NobodyComes, StandsAt
    <3> QED
      BY <3>1, <3>7, <3>8, <3>9
  <2> QED
    BY <2>3, <2>4
<1>10. Undisputed' \subseteq Undisputed
  BY <1>2 DEF Undisputed
<1> QED
  BY <1>2, <1>9, <1>10, CalmSteps

\* The hash is replaced and nothing else of the row.
LEMMA SignupHash ==
  ASSUME SignupInv, NEW s \in Slots, Hash(s)
  PROVE  SignupParts'
<1>0. AccountsTypeOK /\ RequestsInOrder
  BY DEF SignupInv, AccountsInv
<1>1. ~Idle(s) /\ req[s].at = "hash" /\ req[s].user \in Users /\ req[s].entity = NoRow
  BY <1>0, InHandOf DEF Hash, At, InHand, BeforeUser
<1>2. /\ UNCHANGED <<security, age, lookup, abuse, deleted, resolved, checked, torn>>
      /\ stale \subseteq stale'
  BY DEF Hash, Overtake, followUpVars
<1>3. Steps(s, "wrap")
  BY <1>0, <1>1, Awaiting DEF Hash, AccountAwaits
<1>4. ASSUME NEW u \in Users
      PROVE  \/ users'[u] = users[u]
             \/ /\ Exists(u) /\ Exists(u)' /\ Fingerprint(u)' = Fingerprint(u)
                /\ users'[u].signupFlagged = users[u].signupFlagged
  <2>1. CASE u # req[s].user \/ ~Exists(u)
    BY <1>0, <2>1 DEF Hash, AccountsTypeOK
  <2>2. CASE u = req[s].user /\ Exists(u)
    <3> DEFINE e == [users[u] EXCEPT !.passwordHash = req[s].password]
    <3>1. users[u] \in Row
      BY <1>0, <2>2 DEF AccountsTypeOK, Exists
    <3>2. users'[u] = e
      BY <1>0, <2>2 DEF Hash, AccountsTypeOK
    <3>3. /\ e # NoRow /\ e.signupFingerprint = users[u].signupFingerprint
          /\ e.signupFlagged = users[u].signupFlagged
      <4>1. DOMAIN e = DOMAIN users[u] /\ "provider" \in DOMAIN users[u]
        BY <3>1 DEF Row
      <4>2. "provider" \notin DOMAIN NoRow
        BY DEF NoRow
      <4>3. e # NoRow
        BY <4>1, <4>2
      <4> QED
        BY <3>1, <4>3 DEF Row
    <3> HIDE DEF e
    <3> QED
      BY <2>2, <3>2, <3>3 DEF Exists, Fingerprint
  <2> QED
    BY <2>1, <2>2
<1>5. ASSUME NEW u \in Users
      PROVE  Calm(u) /\ NobodyComes(u) /\ HeldCalm(u)
  <2>1. \A a \in {"security.save", "meta", "user.delete"} : ~StandsAt(s, u, a)
    BY <1>1 DEF StandsAt
  <2>2. \A a \in {"security.save", "meta"} : ~StandsAt(s, u, a)'
    BY <1>3 DEF StandsAt, Steps
  <2>3. ~Holds(s, u)'
    BY <1>1, <1>3 DEF Holds, Steps
  <2>4. Secured(u) => \/ security'[u] # Nothing
                      \/ \E r \in Slots \ {s} : StandsAt(r, u, "user.delete")
    BY <1>2, <2>1 DEF Secured
  <2>5. \A r \in Slots \ {s} : req'[r] = req[r]
    BY <1>3 DEF Steps
  <2> QED
    BY <1>2, <1>4, <2>2, <2>3, <2>4, <2>5, Moving
<1>6. Undisputed' \subseteq Undisputed /\ \A u \in Undisputed' : u \in Users
  BY <1>2 DEF Undisputed
<1> QED
  BY <1>2, <1>5, <1>6, CalmSteps

\* A save of an entity that nobody has overtaken, by the only one who holds it.
LEMMA SignupSaveEntity ==
  ASSUME SignupInv, NEW s \in Slots, SaveEntity(s)
  PROVE  SignupParts'
<1> USE NothingAssumption
<1>0. AccountsTypeOK /\ RequestsInOrder /\ HeldIsCurrent /\ HeldSignup
  BY DEF SignupInv, AccountsInv
<1>1. PICK u \in Users, e \in Row :
        /\ ~Idle(s) /\ req[s].at = "save"
        /\ u = req[s].user /\ e = req[s].entity /\ e # NoRow
  BY <1>0, InHandOf DEF SaveEntity, At, InHand, BeforeUser, Request
<1>2. /\ UNCHANGED <<security, age, lookup, abuse, deleted, checked, torn>>
      /\ stale' = stale \cup {v \in {u} : Holding(Others(s), v)}
      /\ resolved' = IF req[s].kind = "resolve" /\ ~Refused(u, e)
                     THEN resolved \cup {u} ELSE resolved
      /\ users' = IF Refused(u, e) THEN users ELSE [users EXCEPT ![u] = e]
  BY <1>1 DEF SaveEntity, Overtake, SaveUser, followUpVars
<1>3. req'[s] = NoRequest /\ \A r \in Slots \ {s} : req'[r] = req[r]
  BY <1>0, Answering DEF SaveEntity
<1>4. Undisputed' \subseteq Undisputed /\ \A v \in Undisputed' : v \in Users
  BY <1>2 DEF Undisputed
<1>5. ASSUME NEW v \in Undisputed'
      PROVE  Calm(v) /\ NobodyComes(v) /\ HeldCalm(v)
  <2>1. /\ ~Holds(s, v)' /\ v \in Users
        /\ \A a \in AccountAwaits : ~StandsAt(s, v, a)'
        /\ ~StandsAt(s, v, "user.delete")
    BY <1>1, <1>3, <1>4 DEF Holds, Working, Idle, StandsAt
  <2>2. Secured(v) => \/ security'[v] # Nothing
                      \/ \E r \in Slots \ {s} : StandsAt(r, v, "user.delete")
    BY <1>2, <2>1 DEF Secured
  <2>3. CASE v # u
    <3>1. users'[v] = users[v]
      BY <1>0, <1>2, <2>1, <2>3 DEF AccountsTypeOK
    <3>2. v \in resolved => v \in resolved'
      BY <1>2
    <3> QED
      BY <1>2, <1>3, <2>1, <2>2, <3>1, <3>2, Moving DEF AccountAwaits
  <2>4. CASE v = u
    <3>1. u \in Undisputed /\ ~Holding(Others(s), u) /\ u \notin stale
      BY <1>2, <1>4, <2>4 DEF Undisputed
    <3>2. Working(s, u) /\ Holds(s, u)
      BY <1>1 DEF Working, Holds
    <3>3. Exists(u)
      BY <1>0, <1>1, <3>1, <3>2 DEF HeldIsCurrent
    <3>4. /\ e.signupFingerprint = Fingerprint(u)
          /\ req[s].kind # "resolve" => e.signupFlagged = users[u].signupFlagged
      BY <1>0, <1>1, <3>1, <3>2 DEF HeldSignup, Current
    <3>5. users'[u] = users[u] \/ users'[u] = e
      BY <1>0, <1>1, <1>2 DEF AccountsTypeOK
    <3>6. Exists(u)' /\ Fingerprint(u)' = Fingerprint(u)
      BY <1>1, <3>3, <3>4, <3>5 DEF Exists, Fingerprint
    <3>7. Covered(u) => Covered(u)'
      <4>1. u \in resolved => u \in resolved'
        BY <1>2
      <4>2. CASE Refused(u, e)
        BY <1>2, <4>1, <4>2 DEF Covered
      <4>3. CASE req[s].kind # "resolve"
        BY <3>4, <3>5, <4>1, <4>3 DEF Covered
      <4>4. CASE ~Refused(u, e) /\ req[s].kind = "resolve"
        BY <1>2, <4>4 DEF Covered
      <4> QED
        BY <4>2, <4>3, <4>4
    <3>8. lookup[u] = {} /\ \A r \in Slots \ {s} : ~Holds(r, u)
      BY <3>1 DEF Holding, Others, Holds
    <3>9. \A r \in Slots : ~Holds(r, u)'
      BY <1>3, <2>1, <2>4, <3>8 DEF Holds, Working, Idle
    <3>10. Calm(u)
      BY <1>2, <3>3, <3>6, <3>7 DEF Calm
    <3>11. HeldCalm(u)
      BY <1>2, <3>8, <3>9 DEF HeldCalm
    <3>12. NobodyComes(u)
      <4>1. \A r \in Slots \ {s}, a \in AccountAwaits : StandsAt(r, u, a)' <=> StandsAt(r, u, a)
        BY <1>3 DEF StandsAt, Working, Idle
      <4>2. Secured(u) => Secured(u)'
        BY <2>2, <2>4, <4>1 DEF Secured, AccountAwaits
      <4> QED
        BY <2>1, <2>4, <4>1, <4>2 DEF NobodyComes, AccountAwaits
    <3> QED
      BY <2>4, <3>10, <3>11, <3>12
  <2> QED
    BY <2>3, <2>4
<1> QED
  BY <1>2, <1>4, <1>5, CalmSteps

\* The deletion disputes the user and touches no other.
LEMMA SignupDelete ==
  ASSUME SignupInv, NEW s \in Slots, DeleteUserRow(s)
  PROVE  SignupParts'
<1> USE NothingAssumption
<1>0. AccountsTypeOK /\ RequestsInOrder
  BY DEF SignupInv, AccountsInv
<1>1. PICK u \in Users : ~Idle(s) /\ req[s].at = "user.delete" /\ u = req[s].user
  BY <1>0, InHandOf DEF DeleteUserRow, At, InHand, BeforeUser
<1>2. /\ UNCHANGED <<age, lookup, abuse, resolved, checked, torn>>
      /\ users' = [users EXCEPT ![u] = NoRow]
      /\ security' = [security EXCEPT ![u] = Nothing]
      /\ deleted' = deleted \cup {u} /\ stale \subseteq stale'
  BY <1>1 DEF DeleteUserRow, Overtake, followUpVars
<1>3. req'[s] = NoRequest /\ \A r \in Slots \ {s} : req'[r] = req[r]
  BY <1>0, Answering DEF DeleteUserRow
<1>4. Undisputed' \subseteq Undisputed /\ \A v \in Undisputed' : v \in Users /\ v # u
  BY <1>2 DEF Undisputed
<1>5. ASSUME NEW v \in Undisputed'
      PROVE  Calm(v) /\ NobodyComes(v) /\ HeldCalm(v)
  <2>1. /\ ~Holds(s, v)' /\ v \in Users /\ ~StandsAt(s, v, "user.delete")
        /\ \A a \in AccountAwaits : ~StandsAt(s, v, a)'
    BY <1>1, <1>3, <1>4 DEF Holds, Working, Idle, StandsAt
  <2>2. users'[v] = users[v] /\ security'[v] = security[v]
    BY <1>0, <1>2, <1>4 DEF AccountsTypeOK
  <2>3. Secured(v) => \/ security'[v] # Nothing
                      \/ \E r \in Slots \ {s} : StandsAt(r, v, "user.delete")
    BY <2>1, <2>2 DEF Secured
  <2> QED
    BY <1>2, <1>3, <2>1, <2>2, <2>3, Moving DEF AccountAwaits
<1> QED
  BY <1>2, <1>4, <1>5, CalmSteps

\* Steps of no request.
LEMMA Unmoved ==
  ASSUME UNCHANGED <<req, security>>, NEW u \in Users
  PROVE  /\ NobodyComes(u)
         /\ \A s \in Slots : Holds(s, u)' => KeptIn(s, u)
BY DEF NobodyComes, Secured, StandsAt, Working, Idle, Holds, KeptIn

\* The IP lookup answers for an entity nobody has overtaken, the only one held.
LEMMA SignupLookupDone ==
  ASSUME SignupInv, NEW u \in Users, LookupDone(u)
  PROVE  SignupParts'
<1> USE NothingAssumption
<1>0. AccountsTypeOK /\ HeldIsCurrent /\ HeldSignup
  BY DEF SignupInv, AccountsInv
<1>1. PICK e \in lookup[u], anonymous \in BOOLEAN :
        /\ SaveUser(u, [e EXCEPT !.signupFlagged = @ \/ anonymous])
        /\ lookup' = [lookup EXCEPT ![u] = @ \ {e}]
  BY DEF LookupDone
<1>2. /\ UNCHANGED <<security, age, req, abuse, deleted, resolved, checked, torn>>
      /\ stale \subseteq stale'
      /\ u \notin stale' => \A r \in Slots : ~Holds(r, u)
  BY DEF LookupDone, Holds
<1>3. PICK f \in Row :
        /\ f = [e EXCEPT !.signupFlagged = @ \/ anonymous]
        /\ f.signupFingerprint = e.signupFingerprint
        /\ e.signupFlagged => f.signupFlagged
  <2>1. e \in Row
    BY <1>0 DEF AccountsTypeOK
  <2> DEFINE f == [e EXCEPT !.signupFlagged = @ \/ anonymous]
  <2>2. f \in Row /\ f.signupFingerprint = e.signupFingerprint
    BY <2>1 DEF Row
  <2>3. e.signupFlagged => f.signupFlagged
    BY <2>1 DEF Row
  <2> QED
    BY <2>2, <2>3
<1>4. users' = users \/ users' = [users EXCEPT ![u] = f]
  BY <1>1, <1>3 DEF SaveUser
<1>5. Undisputed' \subseteq Undisputed /\ \A v \in Undisputed' : v \in Users
  BY <1>2 DEF Undisputed
<1>6. ASSUME NEW v \in Undisputed'
      PROVE  Calm(v) /\ NobodyComes(v) /\ HeldCalm(v)
  <2>1. NobodyComes(v) /\ \A s \in Slots : Holds(s, v)' => KeptIn(s, v)
    BY <1>2, <1>5, Unmoved
  <2>2. CASE v # u
    <3>1. users'[v] = users[v] /\ lookup'[v] = lookup[v]
      BY <1>0, <1>1, <1>4, <1>5, <2>2 DEF AccountsTypeOK
    <3>2. Calm(v)
      BY <1>2, <3>1 DEF Calm, Exists, Covered, Fingerprint
    <3> QED
      BY <2>1, <3>1, <3>2 DEF HeldCalm, Fingerprint
  <2>3. CASE v = u
    <3>1. u \in Undisputed /\ u \notin stale /\ \A r \in Slots : ~Holds(r, u)
      BY <1>2, <1>5, <2>3 DEF Undisputed
    <3>2. Exists(u)
      BY <1>0, <3>1 DEF HeldIsCurrent
    <3>3. /\ e.signupFingerprint = Fingerprint(u) /\ e.signupFlagged = users[u].signupFlagged
          /\ lookup[u] = {e}
      BY <1>0, <3>1 DEF HeldSignup
    <3>4. users'[u] = users[u] \/ users'[u] = f
      BY <1>0, <1>4 DEF AccountsTypeOK
    <3>5. lookup'[u] = {}
      BY <1>0, <1>1, <3>3 DEF AccountsTypeOK
    <3>6. /\ Exists(u)' /\ Fingerprint(u)' = Fingerprint(u)
          /\ users[u].signupFlagged => users'[u].signupFlagged
      BY <1>3, <3>2, <3>3, <3>4, RowExists DEF Exists, Fingerprint
    <3>7. Calm(u)
      BY <1>2, <3>2, <3>5, <3>6 DEF Calm, Covered
    <3>8. HeldCalm(u)
      BY <2>1, <2>3, <3>1, <3>5 DEF HeldCalm, KeptIn
    <3> QED
      BY <2>1, <2>3, <3>7, <3>8
  <2> QED
    BY <2>2, <2>3
<1> QED
  BY <1>2, <1>5, <1>6, CalmSteps

\* Follow-ups that fail, the block of the account, and steps of nobody.
LEMMA SignupOtherSteps ==
  ASSUME SignupInv,
         \/ \E u \in Users : LookupLost(u) \/ OpenReset(u) \/ ExpireReset(u) \/ Age(u)
         \/ \E c \in abuse : AbuseBlock(c) \/ AbuseFails(c)
  PROVE  SignupParts'
<1> USE NothingAssumption
<1>0. AccountsTypeOK
  BY DEF SignupInv, AccountsInv
<1>1. /\ UNCHANGED <<security, req, deleted, resolved, torn>>
      /\ stale \subseteq stale' /\ abuse' \subseteq abuse
      /\ \A v \in checked' \ checked : \E c \in abuse : c.user = v /\ c.at = "block"
  BY DEF LookupLost, OpenReset, ExpireReset, Age, AbuseBlock, AbuseFails, Overtake,
     followUpVars, historyVars
<1>2. ASSUME NEW v \in Users
      PROVE  /\ lookup'[v] \subseteq lookup[v]
             /\ age'[v] # "older" => age[v] # "older"
  <2>1. CASE \E u \in Users : LookupLost(u)
    BY <1>0, <2>1 DEF LookupLost, AccountsTypeOK
  <2>2. CASE \E u \in Users : Age(u)
    BY <1>0, <2>2 DEF Age, AccountsTypeOK, followUpVars
  <2>3. CASE UNCHANGED <<lookup, age>>
    BY <2>3
  <2> QED
    BY <2>1, <2>2, <2>3 DEF OpenReset, ExpireReset, AbuseBlock, AbuseFails, followUpVars
<1>3. ASSUME NEW v \in Users
      PROVE  \/ users'[v] = users[v]
             \/ /\ Exists(v) /\ Exists(v)' /\ Fingerprint(v)' = Fingerprint(v)
                /\ users'[v].signupFlagged = users[v].signupFlagged
  <2>1. CASE users' = users
    BY <2>1
  <2>2. CASE users' # users
    <3>1. PICK c \in abuse : AbuseBlock(c)
      BY <2>2 DEF LookupLost, OpenReset, ExpireReset, Age, AbuseFails
    <3>2. CASE v # c.user \/ ~Exists(v)
      BY <1>0, <3>1, <3>2 DEF AbuseBlock, AccountsTypeOK
    <3>3. CASE v = c.user /\ Exists(v)
      <4> DEFINE e == [users[v] EXCEPT !.isActive = FALSE]
      <4>1. users[v] \in Row
        BY <1>0, <3>3 DEF AccountsTypeOK, Exists
      <4>2. users'[v] = e
        BY <1>0, <3>1, <3>3 DEF AbuseBlock, AccountsTypeOK
      <4>3. /\ e \in Row /\ e.signupFingerprint = users[v].signupFingerprint
            /\ e.signupFlagged = users[v].signupFlagged
        BY <4>1 DEF Row
      <4> HIDE DEF e
      <4> QED
        BY <3>3, <4>2, <4>3, RowExists DEF Exists, Fingerprint
    <3> QED
      BY <3>2, <3>3
  <2> QED
    BY <2>1, <2>2
<1>4. Undisputed' \subseteq Undisputed /\ \A v \in Undisputed' : v \in Users
  BY <1>1 DEF Undisputed
<1>5. ASSUME NEW v \in Users
      PROVE  Calm(v) /\ NobodyComes(v) /\ HeldCalm(v)
  <2>1. NobodyComes(v) /\ \A s \in Slots : Holds(s, v)' => KeptIn(s, v)
    BY <1>1, Unmoved
  <2>2. Calm(v)
    BY <1>1, <1>2, <1>3 DEF Calm, Covered, Exists, Fingerprint
  <2>3. HeldCalm(v)
    BY <1>2, <1>3, <2>1 DEF HeldCalm, Fingerprint
  <2> QED
    BY <2>1, <2>2, <2>3
<1> QED
  BY <1>1, <1>4, <1>5, CalmSteps

\* A request that finds no security row is the only one to sign u up.
LEMMA SignupFindSecurity ==
  ASSUME SignupInv, NEW s \in Slots, FindSecurity(s)
  PROVE  SignupParts'
<1> USE NothingAssumption
<1>0. /\ AccountsTypeOK /\ RequestsInOrder /\ OneChange /\ SignsUpOnce /\ HeldSignup
      /\ ChecksKnow /\ SharedFound
  BY DEF SignupInv, AccountsInv
<1>1. PICK u \in Users : ~Idle(s) /\ req[s].at = "security.find" /\ u = req[s].user
  BY <1>0, InHandOf DEF FindSecurity, At, InHand, BeforeUser
<1>2. UNCHANGED <<users, security, age, lookup, abuse, deleted, resolved, checked, stale, torn>>
  BY DEF FindSecurity, followUpVars, historyVars
<1>3. Undisputed' = Undisputed /\ Undisputed \subseteq Users \ torn
  BY <1>2 DEF Undisputed
<1>4. CASE security[u] # Nothing
  <2>1. req'[s] = NoRequest /\ \A r \in Slots \ {s} : req'[r] = req[r]
    BY <1>0, <1>1, <1>4, Answering DEF FindSecurity
  <2>2. ASSUME NEW v \in Undisputed'
        PROVE  /\ ~Holds(s, v)' /\ ~StandsAt(s, v, "user.delete")
               /\ \A a \in {"security.save", "meta"} : ~StandsAt(s, v, a)'
    BY <1>1, <2>1 DEF Holds, StandsAt, Working, Idle
  <2> QED
    BY <1>2, <2>1, <2>2, QuietRequest
<1>5. CASE security[u] = Nothing
  <2>1. Steps(s, "security.save") /\ ~Idle(s)'
    BY <1>0, <1>1, <1>5, Awaiting
       DEF FindSecurity, AccountAwaits, Steps, Idle, Request, NoRequest
  <2>2. ASSUME NEW v \in Users, NEW a \in AccountAwaits \ {"security.find", "security.save"},
               NEW r \in Slots
        PROVE  StandsAt(r, v, a)' <=> StandsAt(r, v, a)
    BY <1>1, <2>1 DEF StandsAt, Working, Idle, Steps
  <2>3. ASSUME NEW v \in Undisputed
        PROVE  Calm(v) /\ HeldCalm(v) /\ (Fresh(v) <=> Fresh(v)') /\ (Secured(v) <=> Secured(v)')
    <3>1. Calm(v) /\ (Fresh(v) <=> Fresh(v)')
      BY <1>2 DEF Calm, Fresh, Exists, Covered, Fingerprint
    <3>2. \A r \in Slots : Holds(r, v)' => KeptIn(r, v)
      BY <1>1, <2>1 DEF Holds, KeptIn, Steps, Working, Idle
    <3>3. HeldCalm(v)
      BY <1>2, <3>2 DEF HeldCalm, Fingerprint
    <3>4. Secured(v) <=> Secured(v)'
      BY <1>2, <1>3, <2>2 DEF Secured, AccountAwaits
    <3> QED
      BY <3>1, <3>3, <3>4
  <2>4. ASSUME u \in Undisputed
        PROVE  Fresh(u) /\ \A r \in Slots : ~StandsAt(r, u, "meta")
    <3>1. ChangesIn(s, u)
      BY <1>1 DEF ChangesIn, Working, Credentials
    <3>2. \A r \in Slots : StandsAt(r, u, "user.delete") => ChangesIn(r, u)
      BY DEF StandsAt, ChangesIn, Credentials
    <3>3. \A r \in Slots : ~StandsAt(r, u, "user.delete")
      BY <1>0, <1>1, <1>3, <2>4, <3>1, <3>2, ChangesAlone DEF StandsAt
    <3>4. ~Secured(u)
      BY <1>5, <3>3 DEF Secured
    <3> QED
      BY <1>0, <2>4, <3>4 DEF SignsUpOnce
  <2>5. ASSUME NEW v \in Undisputed
        PROVE  /\ \A r \in Slots : StandsAt(r, v, "security.save")' =>
                    Fresh(v)' /\ \A t \in Slots : ~StandsAt(t, v, "meta")'
               /\ \A r \in Slots : StandsAt(r, v, "meta")' =>
                    /\ Fresh(v)' /\ Secured(v)'
                    /\ \A t \in Slots : StandsAt(t, v, "meta")' => t = r
               /\ ~Fresh(v)' => Exists(v)' /\ Secured(v)'
    <3>0. v \in Users
      BY <1>3
    <3>1. \A t \in Slots : StandsAt(t, v, "meta")' <=> StandsAt(t, v, "meta")
      BY <2>2, <3>0 DEF AccountAwaits
    <3>2. \A r \in Slots : StandsAt(r, v, "security.save")' =>
            StandsAt(r, v, "security.save") \/ v = u
      BY <1>1, <2>1 DEF StandsAt, Working, Idle, Steps
    <3>3. Exists(v)' <=> Exists(v)
      BY <1>2 DEF Exists
    <3>4. /\ \A r \in Slots : StandsAt(r, v, "security.save") =>
                Fresh(v) /\ \A t \in Slots : ~StandsAt(t, v, "meta")
          /\ \A r \in Slots : StandsAt(r, v, "meta") =>
                /\ Fresh(v) /\ Secured(v)
                /\ \A t \in Slots : StandsAt(t, v, "meta") => t = r
          /\ ~Fresh(v) => Exists(v) /\ Secured(v)
      BY <1>0, <2>5 DEF SignsUpOnce
    <3>5. \A r \in Slots : StandsAt(r, v, "security.save")' =>
            Fresh(v) /\ \A t \in Slots : ~StandsAt(t, v, "meta")
      BY <2>4, <2>5, <3>2, <3>4
    <3> HIDE DEF StandsAt, Fresh, Secured, Exists
    <3> QED
      BY <2>3, <2>5, <3>1, <3>3, <3>4, <3>5
  <2>6. SignsUpOnce'
    BY <1>3, <2>5, Zenon DEF SignsUpOnce
  <2>7. HeldSignup'
    BY <1>0, <1>3, <2>3, HeldFrame
  <2>8. ChecksKnow'
    BY <1>0, <1>2, <1>3, <2>3, ChecksFrame
  <2>9. SharedFound'
    <3>1. \A x, y \in Undisputed : WillFind(x, y) => WillFind(x, y)'
      BY <1>2 DEF WillFind
    <3> QED
      BY <1>0, <1>3, <2>3, <3>1, SharedFrame
  <2> QED
    BY <2>6, <2>7, <2>8, <2>9 DEF SignupParts
<1> QED
  BY <1>4, <1>5

\* The security row exists before its only request goes on to the signup.
LEMMA SignupSaveSecurity ==
  ASSUME SignupInv, NEW s \in Slots, SaveSecurity(s)
  PROVE  SignupParts'
<1> USE NothingAssumption
<1>0. /\ AccountsTypeOK /\ RequestsInOrder /\ OneChange /\ SignsUpOnce /\ HeldSignup
      /\ ChecksKnow /\ SharedFound
  BY DEF SignupInv, AccountsInv
<1>1. PICK u \in Users : /\ ~Idle(s) /\ req[s].at = "security.save" /\ u = req[s].user
                         /\ req[s].password \in Passwords
  BY <1>0, InHandOf DEF SaveSecurity, At, InHand, BeforeUser, SecurityAwaits
<1>2. UNCHANGED <<users, age, lookup, abuse, deleted, resolved, checked, stale, torn>>
  BY DEF SaveSecurity, followUpVars, historyVars
<1>3. Undisputed' = Undisputed /\ Undisputed \subseteq Users \ torn
  BY <1>2 DEF Undisputed
<1>4. \A v \in Users : security[v] # Nothing => security'[v] # Nothing
  BY <1>0, <1>1 DEF SaveSecurity, AccountsTypeOK
<1>5. CASE Answer(s)
  <2>1. req'[s] = NoRequest /\ \A r \in Slots \ {s} : req'[r] = req[r]
    BY <1>0, <1>1, <1>5, Answering DEF SaveSecurity
  <2>2. ASSUME NEW v \in Undisputed'
        PROVE  /\ ~Holds(s, v)' /\ ~StandsAt(s, v, "user.delete") /\ v \in Users
               /\ \A a \in {"security.save", "meta"} : ~StandsAt(s, v, a)'
    BY <1>1, <1>3, <2>1 DEF Holds, StandsAt, Working, Idle
  <2> QED
    BY <1>2, <1>4, <2>1, <2>2, QuietRequest
<1>6. CASE ~Answer(s)
  <2>0. security' = [security EXCEPT ![u] = req[s].password] /\ Await(s, "meta")
    BY <1>1, <1>6 DEF SaveSecurity
  <2>1. Steps(s, "meta") /\ ~Idle(s)' /\ security'[u] # Nothing
    BY <1>0, <1>1, <2>0, Awaiting
       DEF AccountAwaits, Steps, Idle, Request, NoRequest, AccountsTypeOK
  <2>2. ASSUME NEW v \in Users, NEW a \in AccountAwaits \ {"meta", "security.save"},
               NEW r \in Slots
        PROVE  StandsAt(r, v, a)' <=> StandsAt(r, v, a)
    BY <1>1, <2>1 DEF StandsAt, Working, Idle, Steps
  <2>3. ASSUME NEW v \in Undisputed
        PROVE  /\ Calm(v) /\ HeldCalm(v) /\ (Fresh(v) <=> Fresh(v)')
               /\ Secured(v) => Secured(v)'
    <3>1. Calm(v) /\ (Fresh(v) <=> Fresh(v)')
      BY <1>2 DEF Calm, Fresh, Exists, Covered, Fingerprint
    <3>2. \A r \in Slots : Holds(r, v)' => KeptIn(r, v)
      BY <1>1, <2>1 DEF Holds, KeptIn, Steps, Working, Idle
    <3>3. HeldCalm(v)
      BY <1>2, <3>2 DEF HeldCalm, Fingerprint
    <3>4. Secured(v) => Secured(v)'
      BY <1>3, <1>4, <2>2 DEF Secured, AccountAwaits
    <3> QED
      BY <3>1, <3>3, <3>4
  <2>4. ASSUME u \in Undisputed
        PROVE  /\ Fresh(u) /\ Secured(u)'
               /\ \A r \in Slots : StandsAt(r, u, "meta")' => r = s
               /\ \A r \in Slots : ~StandsAt(r, u, "security.save")'
    <3>1. StandsAt(s, u, "security.save") /\ ChangesIn(s, u)
      BY <1>1 DEF ChangesIn, StandsAt, Working, Credentials
    <3>2. Fresh(u) /\ \A r \in Slots : ~StandsAt(r, u, "meta")
      BY <1>0, <2>4, <3>1 DEF SignsUpOnce
    <3>3. \A r \in Slots : StandsAt(r, u, "security.save") => r = s
      BY <1>0, <1>3, <2>4, <3>1, ChangesAlone DEF StandsAt, ChangesIn, Credentials
    <3> QED
      BY <2>1, <3>2, <3>3 DEF Secured, StandsAt, Steps, Working, Idle
  <2>5. ASSUME NEW v \in Undisputed
        PROVE  /\ \A r \in Slots : StandsAt(r, v, "security.save")' =>
                    Fresh(v)' /\ \A t \in Slots : ~StandsAt(t, v, "meta")'
               /\ \A r \in Slots : StandsAt(r, v, "meta")' =>
                    /\ Fresh(v)' /\ Secured(v)'
                    /\ \A t \in Slots : StandsAt(t, v, "meta")' => t = r
               /\ ~Fresh(v)' => Exists(v)' /\ Secured(v)'
    <3>1. CASE v = u
      BY <2>3, <2>4, <2>5, <3>1
    <3>2. CASE v # u
      <4>1. \A t \in Slots, a \in {"meta", "security.save"} : StandsAt(t, v, a)' <=> StandsAt(t, v, a)
        BY <1>1, <2>1, <3>2 DEF StandsAt, Working, Idle, Steps
      <4>2. Exists(v)' <=> Exists(v)
        BY <1>2 DEF Exists
      <4>3. /\ \A r \in Slots : StandsAt(r, v, "security.save") =>
                  Fresh(v) /\ \A t \in Slots : ~StandsAt(t, v, "meta")
            /\ \A r \in Slots : StandsAt(r, v, "meta") =>
                  /\ Fresh(v) /\ Secured(v)
                  /\ \A t \in Slots : StandsAt(t, v, "meta") => t = r
            /\ ~Fresh(v) => Exists(v) /\ Secured(v)
        BY <1>0, <2>5 DEF SignsUpOnce
      <4> QED
        BY <2>3, <4>1, <4>2, <4>3
    <3> QED
      BY <3>1, <3>2
  <2>6. SignsUpOnce'
    BY <1>3, <2>5, Zenon DEF SignsUpOnce
  <2>7. HeldSignup'
    BY <1>0, <1>3, <2>3, HeldFrame
  <2>8. ChecksKnow'
    BY <1>0, <1>2, <1>3, <2>3, ChecksFrame
  <2>9. SharedFound'
    <3>1. \A x, y \in Undisputed : WillFind(x, y) => WillFind(x, y)'
      BY <1>2 DEF WillFind
    <3> QED
      BY <1>0, <1>3, <2>3, <3>1, SharedFrame
  <2> QED
    BY <2>6, <2>7, <2>8, <2>9 DEF SignupParts
<1> QED
  BY <1>5, <1>6

\* The check finds every account that shares the fingerprint.
LEMMA SignupMatch ==
  ASSUME SignupInv, NEW c \in abuse, AbuseMatch(c)
  PROVE  SignupParts'
<1> USE NothingAssumption
<1>0. AccountsTypeOK /\ ChecksKnow /\ SharedFound
  BY DEF SignupInv, AccountsInv
<1>1. UNCHANGED <<users, security, age, reset, req, lookup, deleted, resolved, stale, torn>>
  BY DEF AbuseMatch
<1> DEFINE found == {v \in Users \ {c.user} :
                       /\ Exists(v) /\ age[v] # "older"
                       /\ users[v].signupFingerprint = c.device}
           near == \E v \in found : users[v].signupIp = c.subnet /\ age[v] = "hour"
           d == [c EXCEPT !.at = "flag", !.others = found, !.near = near]
<1>2. /\ found = {} => abuse' = abuse \ {c} /\ checked' = checked \cup {c.user}
      /\ found # {} => abuse' = (abuse \ {c}) \cup {d} /\ checked' = checked
      /\ c.at = "match"
  BY DEF AbuseMatch
<1>3. c \in Check
  BY <1>0 DEF AccountsTypeOK
<1>4. d.user = c.user /\ d.device = c.device /\ d.at = "flag" /\ d.others = found
  BY <1>3 DEF Check
<1>5. \A v \in Users : /\ Exists(v) /\ v # c.user /\ age[v] # "older"
                        /\ Fingerprint(v) = c.device
                        => v \in found
  BY DEF Fingerprint
<1> HIDE DEF found, near, d
<1>6. Undisputed' = Undisputed /\ \A v \in Undisputed : v \in Users
  BY <1>1 DEF Undisputed
<1>7. ASSUME NEW v \in Users
      PROVE  Calm(v) /\ NobodyComes(v) /\ HeldCalm(v)
  <2>1. NobodyComes(v) /\ \A s \in Slots : Holds(s, v)' => KeptIn(s, v)
    BY <1>1, Unmoved
  <2>2. Calm(v)
    BY <1>1 DEF Calm, Covered, Exists, Fingerprint
  <2> QED
    BY <1>1, <2>1, <2>2 DEF HeldCalm, Fingerprint
<1>8. /\ \A x \in abuse' : \E y \in abuse : y.user = x.user /\ y.device = x.device
      /\ \A v \in checked' \ checked : \E y \in abuse : y.user = v
  BY <1>2, <1>4
<1>9. SignsUpOnce' /\ HeldSignup' /\ ChecksKnow'
  BY <1>6, <1>7, <1>8, MildSteps
<1>10. ASSUME NEW u \in Undisputed, NEW v \in Undisputed, Shares(u, v), WillFind(u, v)
       PROVE  WillFind(u, v)'
  <2>1. CASE u # c.user
    <3>1. u \notin checked' /\ \A x \in abuse' : x.user = u => x \in abuse
      BY <1>2, <1>4, <1>10, <2>1 DEF WillFind
    <3> QED
      BY <1>10, <3>1 DEF WillFind
  <2>2. CASE u = c.user
    <3>1. v \in found
      BY <1>0, <1>5, <1>6, <1>10, <2>2 DEF Shares, ChecksKnow
    <3>2. abuse' = (abuse \ {c}) \cup {d} /\ checked' = checked
      BY <1>2, <3>1
    <3> QED
      BY <1>4, <1>10, <3>1, <3>2 DEF WillFind
  <2> QED
    BY <2>1, <2>2
<1>11. SharedFound'
  BY <1>0, <1>6, <1>7, <1>10, SharedFrame
<1> QED
  BY <1>9, <1>11 DEF SignupParts

\* All accounts that were found, and the one that was checked, are flagged.
LEMMA SignupFlag ==
  ASSUME SignupInv, NEW c \in abuse, AbuseFlag(c)
  PROVE  SignupParts'
<1> USE NothingAssumption
<1>0. AccountsTypeOK /\ ChecksKnow /\ SharedFound
  BY DEF SignupInv, AccountsInv
<1> DEFINE flagged == {c.user} \cup c.others
           d == [c EXCEPT !.at = "block"]
<1>1. /\ UNCHANGED <<security, age, req, lookup, deleted, torn>>
      /\ users' = [u \in Users |-> IF u \in flagged /\ Exists(u)
                      THEN [users[u] EXCEPT !.signupFlagged = TRUE] ELSE users[u]]
      /\ resolved' = resolved \ flagged
      /\ stale' = stale \cup {u \in flagged : Holding(Slots, u)}
      /\ c.at = "flag"
      /\ \/ abuse' = (abuse \ {c}) \cup {d} /\ checked' = checked
         \/ abuse' = abuse \ {c} /\ checked' = checked \cup {c.user}
  BY DEF AbuseFlag, Overtake
<1>2. c \in Check
  BY <1>0 DEF AccountsTypeOK
<1>3. d.user = c.user /\ d.device = c.device
  BY <1>2 DEF Check
<1> HIDE DEF flagged, d
<1>4. /\ Undisputed' \subseteq Undisputed /\ \A v \in Undisputed' : v \in Users
      /\ \A v \in Undisputed' : v \in flagged => ~Holding(Slots, v)
  BY <1>1 DEF Undisputed
<1>5. ASSUME NEW v \in Users
      PROVE  /\ Exists(v) => Exists(v)' /\ Fingerprint(v)' = Fingerprint(v)
             /\ ~(v \in flagged /\ Exists(v)) => users'[v] = users[v]
             /\ v \in flagged /\ Exists(v) => users'[v].signupFlagged
  <2>1. CASE v \in flagged /\ Exists(v)
    <3> DEFINE e == [users[v] EXCEPT !.signupFlagged = TRUE]
    <3>1. users[v] \in Row
      BY <1>0, <2>1 DEF AccountsTypeOK, Exists
    <3>2. users'[v] = e
      BY <1>1, <2>1
    <3>3. /\ e \in Row /\ e.signupFingerprint = users[v].signupFingerprint
          /\ e.signupFlagged
      BY <3>1 DEF Row
    <3> HIDE DEF e
    <3> QED
      BY <2>1, <3>2, <3>3, RowExists DEF Exists, Fingerprint
  <2>2. CASE ~(v \in flagged /\ Exists(v))
    BY <1>1, <2>2 DEF Exists, Fingerprint
  <2> QED
    BY <2>1, <2>2
<1>6. ASSUME NEW v \in Undisputed'
      PROVE  Calm(v) /\ NobodyComes(v) /\ HeldCalm(v)
  <2>0. v \in Users
    BY <1>4
  <2>1. NobodyComes(v) /\ \A s \in Slots : Holds(s, v)' => KeptIn(s, v)
    BY <1>1, <2>0, Unmoved
  <2>2. Calm(v)
    <3>1. ~Exists(v) => ~Exists(v)'
      BY <1>5, <2>0 DEF Exists
    <3>2. Exists(v) /\ Covered(v) => Covered(v)'
      <4>1. CASE v \in flagged
        BY <1>5, <2>0, <4>1 DEF Covered
      <4>2. CASE v \notin flagged
        BY <1>1, <1>5, <2>0, <4>2 DEF Covered
      <4> QED
        BY <4>1, <4>2
    <3> QED
      BY <1>1, <1>5, <2>0, <3>1, <3>2 DEF Calm
  <2>3. HeldCalm(v)
    <3>1. CASE v \in flagged
      <4>1. lookup[v] = {} /\ \A s \in Slots : ~Holds(s, v)
        BY <1>4, <3>1 DEF Holding, Holds
      <4> QED
        BY <1>1, <2>1, <4>1 DEF HeldCalm, KeptIn
    <3>2. CASE v \notin flagged
      BY <1>1, <1>5, <2>0, <2>1, <3>2 DEF HeldCalm, Fingerprint
    <3> QED
      BY <3>1, <3>2
  <2> QED
    BY <2>1, <2>2, <2>3
<1>7. /\ \A x \in abuse' : \E y \in abuse : y.user = x.user /\ y.device = x.device
      /\ \A v \in checked' \ checked : \E y \in abuse : y.user = v
  BY <1>1, <1>3
<1>8. SignsUpOnce' /\ HeldSignup' /\ ChecksKnow'
  BY <1>4, <1>6, <1>7, MildSteps
<1>9. ASSUME NEW u \in Undisputed', NEW v \in Undisputed', Shares(u, v), WillFind(u, v)
      PROVE  WillFind(u, v)' \/ (Covered(u)' /\ Covered(v)')
  <2>1. CASE u # c.user
    <3>1. u \notin checked' /\ \A x \in abuse' : x.user = u => x \in abuse
      BY <1>1, <1>3, <1>9, <2>1 DEF WillFind
    <3> QED
      BY <1>9, <3>1 DEF WillFind
  <2>2. CASE u = c.user
    <3>1. u \in flagged /\ v \in flagged
      BY <1>1, <1>9, <2>2 DEF WillFind, flagged
    <3> QED
      BY <1>4, <1>5, <1>9, <3>1 DEF Shares, Covered
  <2> QED
    BY <2>1, <2>2
<1>10. SharedFound'
  BY <1>0, <1>4, <1>6, <1>9, SharedFrame
<1> QED
  BY <1>8, <1>10 DEF SignupParts

\* The only request that signs u up saves the metadata and starts the check.
LEMMA SignupSaveSignup ==
  ASSUME SignupInv, NEW s \in Slots, SaveSignup(s)
  PROVE  SignupParts'
<1> USE NothingAssumption
<1>0. /\ AccountsTypeOK /\ RequestsInOrder /\ SignsUpOnce /\ HeldSignup
      /\ ChecksKnow /\ SharedFound
  BY DEF SignupInv, AccountsInv
<1>1. PICK u \in Users, e \in Row :
        /\ ~Idle(s) /\ req[s].at = "meta" /\ u = req[s].user /\ e = req[s].entity
        /\ Exists(u) \/ u \in deleted
  BY <1>0, InHandOf DEF SaveSignup, At, InHand, BeforeUser, Request
<1>2. UNCHANGED <<security, age, deleted, resolved, checked, torn>>
  BY DEF SaveSignup
<1>3. req'[s] = NoRequest /\ \A r \in Slots \ {s} : req'[r] = req[r]
  BY <1>0, Answering DEF SaveSignup
<1>4. ASSUME NEW v \in Users
      PROVE  /\ ~Holds(s, v)' /\ ~StandsAt(s, v, "user.delete")
             /\ \A a \in AccountAwaits : ~StandsAt(s, v, a)'
  BY <1>1, <1>3 DEF Holds, Working, Idle, StandsAt
<1>5. CASE Refused(u, e)
  <2>1. UNCHANGED <<users, lookup, abuse, stale>>
    BY <1>1, <1>5 DEF SaveSignup, SaveUser, followUpVars
  <2>2. \A v \in Undisputed' : v \in Users
    BY DEF Undisputed
  <2> QED
    BY <1>2, <1>3, <1>4, <2>1, <2>2, QuietRequest DEF AccountAwaits
<1>6. CASE ~Refused(u, e)
  <2>1. /\ users' = [users EXCEPT ![u] = e]
        /\ stale' = stale \cup {v \in {u} : Holding(Others(s), v)}
        /\ lookup' = [lookup EXCEPT ![u] = @ \cup {e}]
        /\ \A c \in abuse' : \/ c \in abuse
                             \/ /\ c.user = u /\ c.at = "match"
                                /\ c.device = e.signupFingerprint
    BY <1>1, <1>6 DEF SaveSignup, SaveUser, Overtake
  <2>2. /\ Undisputed' \subseteq Undisputed
        /\ \A v \in Undisputed' : v \in Users /\ v \notin deleted
    BY <1>2, <2>1 DEF Undisputed
  <2>3. users'[u] = e /\ Exists(u)' /\ lookup'[u] = lookup[u] \cup {e}
    BY <1>0, <2>1, RowExists DEF AccountsTypeOK, Exists
  <2>4. ASSUME NEW v \in Users, v # u
        PROVE  users'[v] = users[v] /\ lookup'[v] = lookup[v]
    BY <1>0, <2>1, <2>4 DEF AccountsTypeOK
  <2>5. ASSUME NEW v \in Users, NEW r \in Slots \ {s}
        PROVE  /\ \A a \in AccountAwaits : StandsAt(r, v, a)' <=> StandsAt(r, v, a)
               /\ Holds(r, v)' <=> Holds(r, v)
    BY <1>3 DEF StandsAt, Working, Idle, Holds
  <2>6. ASSUME NEW v \in Undisputed'
        PROVE  v \in Users /\ (Secured(v) => Secured(v)')
    BY <1>2, <1>4, <2>2, <2>5 DEF Secured, AccountAwaits
  <2>7. ASSUME u \in Undisputed'
        PROVE  /\ Fresh(u) /\ Secured(u)
               /\ \A r \in Slots : /\ ~StandsAt(r, u, "security.save")'
                                   /\ ~StandsAt(r, u, "meta")' /\ ~Holds(r, u)'
    <3>1. StandsAt(s, u, "meta") /\ u \in Undisputed
      BY <1>1, <2>2, <2>7 DEF StandsAt, Working
    <3>2. /\ Fresh(u) /\ Secured(u)
          /\ \A r \in Slots : StandsAt(r, u, "meta") => r = s
          /\ \A r \in Slots : ~StandsAt(r, u, "security.save")
      BY <1>0, <3>1 DEF SignsUpOnce
    <3>3. ~Holding(Others(s), u)
      BY <2>1, <2>7 DEF Undisputed
    <3>4. \A r \in Slots \ {s} : ~Holds(r, u)
      BY <3>3 DEF Holding, Others, Holds
    <3> QED
      BY <1>4, <2>5, <3>2, <3>4 DEF AccountAwaits
  <2>8. SignsUpOnce'
    <3>1. ASSUME NEW v \in Undisputed'
          PROVE  /\ \A r \in Slots : StandsAt(r, v, "security.save")' =>
                      Fresh(v)' /\ \A t \in Slots : ~StandsAt(t, v, "meta")'
                 /\ \A r \in Slots : StandsAt(r, v, "meta")' =>
                      /\ Fresh(v)' /\ Secured(v)'
                      /\ \A t \in Slots : StandsAt(t, v, "meta")' => t = r
                 /\ ~Fresh(v)' => Exists(v)' /\ Secured(v)'
      <4>1. CASE v = u
        BY <2>3, <2>6, <2>7, <3>1, <4>1
      <4>2. CASE v # u
        <5>0. v \in Users /\ v \in Undisputed
          BY <2>2, <3>1
        <5>1. \A t \in Slots, a \in {"meta", "security.save"} :
                StandsAt(t, v, a)' => StandsAt(t, v, a)
          BY <1>4, <2>5, <5>0 DEF AccountAwaits
        <5>2. (Exists(v)' <=> Exists(v)) /\ (Fresh(v)' <=> Fresh(v))
          <6>1. users'[v] = users[v] /\ lookup'[v] = lookup[v]
            BY <2>4, <4>2, <5>0
          <6>2. (\A c \in abuse' : c.user # v) <=> (\A c \in abuse : c.user # v)
            <7>1. abuse \subseteq abuse'
              BY <1>1, <1>6 DEF SaveSignup
            <7> QED
              BY <2>1, <4>2, <7>1
          <6> QED
            BY <1>2, <6>1, <6>2 DEF Exists, Fresh, Fingerprint
        <5>3. /\ \A r \in Slots : StandsAt(r, v, "security.save") =>
                    Fresh(v) /\ \A t \in Slots : ~StandsAt(t, v, "meta")
              /\ \A r \in Slots : StandsAt(r, v, "meta") =>
                    /\ Fresh(v) /\ Secured(v)
                    /\ \A t \in Slots : StandsAt(t, v, "meta") => t = r
              /\ ~Fresh(v) => Exists(v) /\ Secured(v)
          BY <1>0, <5>0 DEF SignsUpOnce
        <5> QED
          BY <2>6, <3>1, <5>1, <5>2, <5>3
      <4> QED
        BY <4>1, <4>2
    <3> QED
      BY <3>1, Zenon DEF SignsUpOnce
  <2>9. HeldSignup'
    <3>1. ASSUME NEW v \in Undisputed'
          PROVE  /\ \A r \in Slots : Holds(r, v)' => Current(r, v)'
                 /\ \A f \in lookup'[v] :
                      /\ f.signupFlagged = users'[v].signupFlagged
                      /\ f.signupFingerprint = Fingerprint(v)'
                      /\ lookup'[v] = {f}
      <4>1. CASE v = u
        <5>1. lookup'[u] = {e}
          BY <2>3, <2>7, <3>1, <4>1 DEF Fresh
        <5> QED
          BY <2>3, <2>7, <3>1, <4>1, <5>1 DEF Fingerprint
      <4>2. CASE v # u
        <5>0. v \in Users /\ v \in Undisputed
          BY <2>2, <3>1
        <5>1. users'[v] = users[v] /\ lookup'[v] = lookup[v]
          BY <2>4, <4>2, <5>0
        <5>2. ASSUME NEW r \in Slots, Holds(r, v)'
              PROVE  Current(r, v)'
          <6>1. req'[r] = req[r] /\ Holds(r, v)
            BY <1>3, <1>4, <2>5, <5>0, <5>2
          <6> QED
            BY <1>0, <5>0, <5>1, <6>1 DEF HeldSignup, Current, Fingerprint
        <5> QED
          BY <1>0, <5>0, <5>1, <5>2 DEF HeldSignup, Fingerprint
      <4> QED
        BY <4>1, <4>2
    <3> QED
      BY <3>1 DEF HeldSignup
  <2>10. ChecksKnow'
    <3>1. ASSUME NEW c \in abuse', c.user \in Undisputed'
          PROVE  Fingerprint(c.user)' = c.device
      <4>1. CASE c.user = u
        BY <2>1, <2>3, <2>7, <3>1, <4>1 DEF Fresh, Fingerprint
      <4>2. CASE c.user # u
        BY <1>0, <2>1, <2>2, <2>4, <3>1, <4>2 DEF ChecksKnow, Fingerprint
      <4> QED
        BY <4>1, <4>2
    <3> QED
      BY <3>1 DEF ChecksKnow
  <2>11. SharedFound'
    <3>1. ASSUME u \in Undisputed', NEW v \in Users
          PROVE  WillFind(u, v)'
      BY <1>2, <2>1, <2>7, <3>1 DEF Fresh, WillFind
    <3>2. ASSUME NEW x \in Undisputed', NEW y \in Undisputed', Shares(x, y)',
                 x # u, y # u
          PROVE  (Covered(x)' /\ Covered(y)') \/ WillFind(x, y)' \/ WillFind(y, x)'
      <4>0. x \in Users /\ y \in Users /\ x \in Undisputed /\ y \in Undisputed
        BY <2>2, <3>2
      <4>1. users'[x] = users[x] /\ users'[y] = users[y]
        BY <2>4, <3>2, <4>0
      <4>2. Shares(x, y) /\ (Covered(x)' <=> Covered(x)) /\ (Covered(y)' <=> Covered(y))
        BY <1>2, <3>2, <4>1 DEF Shares, Covered, Exists, Fingerprint
      <4>3. /\ WillFind(x, y) => WillFind(x, y)'
            /\ WillFind(y, x) => WillFind(y, x)'
        BY <1>2, <2>1, <3>2 DEF WillFind
      <4> QED
        BY <1>0, <4>0, <4>2, <4>3 DEF SharedFound
    <3>3. ASSUME NEW x \in Undisputed', NEW y \in Undisputed', Shares(x, y)'
          PROVE  (Covered(x)' /\ Covered(y)') \/ WillFind(x, y)' \/ WillFind(y, x)'
      BY <2>2, <3>1, <3>2, <3>3
    <3> QED
      BY <3>3 DEF SharedFound
  <2> QED
    BY <2>8, <2>9, <2>10, <2>11 DEF SignupParts
<1> QED
  BY <1>5, <1>6

\* Nobody has signed up in an initial state.
LEMMA SignupInitInv == AccountsInit => SignupInv
<1> SUFFICES ASSUME AccountsInit PROVE SignupInv
  OBVIOUS
<1> USE NothingAssumption
<1>1. AccountsInv
  BY AccountsInitInv
<1>2. /\ \A s \in Slots : Idle(s)
      /\ \A u \in Users : Exists(u) => Fingerprint(u) = Nothing
      /\ \A u \in Users : lookup[u] = {}
      /\ abuse = {} /\ checked = {}
  <2>1. PICK first \in {NoRow} \cup {LocalRow(e, p) : e \in Emails, p \in Passwords}
                       \cup {GoogleRow(e, e) : e \in Emails}, w \in Users :
          users = [v \in Users |-> IF v = w THEN first ELSE NoRow]
    BY DEF AccountsInit
  <2>2. first = NoRow \/ first.signupFingerprint = Nothing
    <3>1. \A e \in Emails, p \in Passwords \cup {Nothing} :
            LocalRow(e, p) \in Row /\ LocalRow(e, p).signupFingerprint = Nothing
      BY DEF LocalRow, Row
    <3>2. ASSUME NEW e \in Emails
          PROVE  GoogleRow(e, e).signupFingerprint = Nothing
      BY GoogleRows
    <3> QED
      BY <2>1, <3>1, <3>2
  <2>3. \A u \in Users : Exists(u) => Fingerprint(u) = Nothing
    BY <2>1, <2>2 DEF Fingerprint, Exists
  <2>4. /\ \A s \in Slots : Idle(s)
        /\ \A u \in Users : lookup[u] = {}
        /\ abuse = {} /\ checked = {}
    BY DEF AccountsInit, Idle
  <2> QED
    BY <2>3, <2>4
<1>3. \A u \in Users : Fresh(u) /\ \A s \in Slots : ~Working(s, u)
  BY <1>2 DEF Fresh, Working
<1>4. SignsUpOnce
  BY <1>3 DEF SignsUpOnce, StandsAt, Undisputed
<1>5. HeldSignup /\ ChecksKnow
  BY <1>2, <1>3 DEF HeldSignup, Holds, ChecksKnow, Undisputed
<1>6. SharedFound
  BY <1>2 DEF SharedFound, Shares, Undisputed
<1> QED
  BY <1>1, <1>4, <1>5, <1>6 DEF SignupInv

\* Every step preserves the invariant.
LEMMA SignupStepInv == SignupInv /\ [AccountsNext]_accountVars => SignupInv'
<1> SUFFICES ASSUME SignupInv, [AccountsNext]_accountVars PROVE SignupInv'
  OBVIOUS
<1>1. AccountsInv'
  BY AccountsStepInv DEF SignupInv
<1>2. ASSUME AccountsNext PROVE SignupParts'
  <2>1. ASSUME NEW s \in Slots, Arrival(s) PROVE SignupParts'
    BY <2>1, SignupArrivals
  <2>2. ASSUME NEW s \in Slots, RequestStep(s) PROVE SignupParts'
    BY <2>2, SignupFindAccount, SignupInsert, SignupFindSecurity, SignupSaveSecurity,
       SignupSaveSignup, SignupHash, SignupQuietSteps, SignupSaveEntity, SignupDelete
       DEF RequestStep
  <2>3. CASE FollowUp
    <3>1. ASSUME NEW u \in Users, LookupDone(u) PROVE SignupParts'
      BY <3>1, SignupLookupDone
    <3>2. ASSUME NEW c \in abuse, AbuseMatch(c) PROVE SignupParts'
      BY <3>2, SignupMatch
    <3>3. ASSUME NEW c \in abuse, AbuseFlag(c) PROVE SignupParts'
      BY <3>3, SignupFlag
    <3>4. ASSUME \/ \E u \in Users : LookupLost(u)
                 \/ \E c \in abuse : AbuseBlock(c) \/ AbuseFails(c)
          PROVE  SignupParts'
      <4>1. \/ \E u \in Users : LookupLost(u) \/ OpenReset(u) \/ ExpireReset(u) \/ Age(u)
            \/ \E c \in abuse : AbuseBlock(c) \/ AbuseFails(c)
        BY <3>4
      <4> QED
        BY <4>1, SignupOtherSteps
    <3> QED
      BY <2>3, <3>1, <3>2, <3>3, <3>4 DEF FollowUp
  <2>4. CASE \E u \in Users : OpenReset(u) \/ ExpireReset(u) \/ Age(u)
    <3>1. \E u \in Users : LookupLost(u) \/ OpenReset(u) \/ ExpireReset(u) \/ Age(u)
      BY <2>4
    <3> QED
      BY <3>1, SignupOtherSteps
  <2>5. CASE \E s \in Slots : Arrival(s) \/ RequestStep(s)
    BY <2>1, <2>2, <2>5
  <2> QED
    BY <1>2, <2>3, <2>4, <2>5 DEF AccountsNext
<1>3. CASE UNCHANGED accountVars
  <2> USE <1>3 DEF accountVars, followUpVars, historyVars, SignupInv
  <2>1. Undisputed' = Undisputed
    BY DEF Undisputed
  <2>2. ASSUME NEW u \in Users
        PROVE  Calm(u) /\ NobodyComes(u) /\ HeldCalm(u)
    BY DEF Calm, NobodyComes, HeldCalm, KeptIn, Exists, Covered, Fingerprint, Secured,
       StandsAt, Working, Idle, Holds
  <2>3. Undisputed \subseteq Users
    BY DEF Undisputed
  <2>4. SignupParts'
    BY <2>1, <2>2, <2>3, CalmSteps
  <2> QED
    BY <1>1, <2>4 DEF SignupParts
<1> QED
  BY <1>1, <1>2, <1>3 DEF SignupInv, SignupParts

\* Whoever's check has ended has signed up, and the accounts that share the
\* fingerprint are flagged or will be by the check of one of them: the relation
\* holds however registrations, checks, saves and deletions interleave.
THEOREM SignupInvariant == AccountsSpec => []SignupInv
  BY SignupInitInv, SignupStepInv, PTL DEF AccountsSpec

\* checkSignupAnomaly misses nobody: of two accounts of one device whose checks
\* have both ended, each is flagged or was resolved since, for any number of users,
\* requests and checks that overlap, unless a handler held an entity of one of them
\* when it changed, or a deletion of it took place, overlapped or broke off.
THEOREM SharedDevicesFlagged == AccountsSpec => []SharedDeviceFlagged
<1>1. SignupInv => SharedDeviceFlagged
  <2> SUFFICES ASSUME SignupInv, NEW u \in checked \ (deleted \cup stale \cup torn),
                      NEW v \in checked \ (deleted \cup stale \cup torn),
                      u # v,
                      users[u].signupFingerprint = users[v].signupFingerprint,
                      users[u].signupFingerprint # Nothing,
                      age[u] # "older", age[v] # "older"
               PROVE  users[u].signupFlagged \/ u \in resolved
    BY DEF SharedDeviceFlagged
  <2>1. AccountsTypeOK /\ SignsUpOnce /\ SharedFound
    BY DEF SignupInv, AccountsInv
  <2>2. u \in Undisputed /\ v \in Undisputed
    BY <2>1 DEF Undisputed, AccountsTypeOK
  <2>3. Exists(u) /\ Exists(v)
    BY <2>1, <2>2 DEF SignsUpOnce, Fresh
  <2>4. Shares(u, v)
    BY <2>3 DEF Shares, Fingerprint
  <2>5. ~WillFind(u, v) /\ ~WillFind(v, u)
    BY DEF WillFind
  <2> QED
    BY <2>1, <2>2, <2>4, <2>5 DEF SharedFound, Covered
<1> QED
  BY <1>1, SignupInvariant, PTL

=============================================================================
