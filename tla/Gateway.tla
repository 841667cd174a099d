-------------------------------- MODULE Gateway --------------------------------
(***************************************************************************)
(* What a request passes before a service sees it: the routes that the      *)
(* controllers declare, the guards in the order NestJS runs them, the pipes *)
(* for path parameters, the handler, and the exception filter that turns    *)
(* what was thrown into an answer.  The services behind the handlers are    *)
(* the other modules' matter: here a handler is the name of its operation.  *)
(***************************************************************************)
EXTENDS Naturals, Sequences, FiniteSets

\* A segment of a path is a word or a parameter: Id goes through ParseUUIDPipe,
\* Word does not.
Id == ":uuid"
Word == ":word"

\* A route: what @Get, @Post ... and @Controller declare, whether it is
\* @Public, the guards of its class and method, the operation it calls and
\* whose data that operation is given: "self" when the handler passes the user
\* of the access token on, "all" when the operation works on the data of any
\* user, "none" when it needs neither.
Route(method, path, subject, op) ==
  [method |-> method, path |-> path, public |-> FALSE, guards |-> <<>>,
   subject |-> subject, op |-> op]
Public(r) == [r EXCEPT !.public = TRUE]
Guarded(gs, r) == [r EXCEPT !.guards = gs]
Every(F(_), rows) == [i \in DOMAIN rows |-> F(rows[i])]

AdminUserRoutes == <<
  Route("GET", <<"admin", "dashboard">>, "all", "getDashboardStats"),
  Route("GET", <<"admin", "users">>, "all", "getUsers"),
  Route("PATCH", <<"admin", "users", Id, "storage-limit">>, "all", "setUserStorageLimit"),
  Route("DELETE", <<"admin", "users", Id>>, "all", "deleteUser"),
  Route("PATCH", <<"admin", "users", Id, "status">>, "all", "updateUserStatus") >>
AdminSystemRoutes == <<
  Route("GET", <<"admin", "storage">>, "all", "getStorageStats"),
  Route("GET", <<"admin", "health">>, "all", "getSystemHealth"),
  Route("GET", <<"admin", "alerts">>, "all", "getAlerts"),
  Route("GET", <<"admin", "plans">>, "all", "getAllPlans"),
  Route("PATCH", <<"admin", "plans", Id>>, "all", "updatePlan"),
  Route("GET", <<"admin", "flagged-signups">>, "all", "getFlaggedSignups"),
  Route("PATCH", <<"admin", "flagged-signups", Id, "resolve">>, "all",
        "resolveFlaggedUser") >>
AdminInstapayRoutes == <<
  Route("GET", <<"admin", "instapay", "pending">>, "all", "getPendingPayments"),
  Route("GET", <<"admin", "instapay", "history">>, "all", "getReviewedHistory"),
  Route("GET", <<"admin", "instapay", "pending", "count">>, "all", "getPendingCount"),
  Route("GET", <<"admin", "instapay", Id>>, "all", "getDetailedView"),
  Route("POST", <<"admin", "instapay", Id, "review">>, "all", "reviewPayment") >>

\* @UseGuards(AdminGuard) of the class.
AdminRoutes ==
  LET Guard(r) == Guarded(<<"admin">>, r)
  IN Every(Guard, AdminUserRoutes \o AdminSystemRoutes \o AdminInstapayRoutes)

SignupRoutes == <<
  Guarded(<<"authThrottle", "turnstile">>,
          Route("POST", <<"auth", "register", "send-otp">>, "none", "sendSignupOtp")),
  Guarded(<<"authThrottle", "signupIpLimit">>,
          Route("POST", <<"auth", "register">>, "none", "register")) >>
SignInRoutes ==
  LET Guard(r) == Guarded(<<"authThrottle">>, r) IN Every(Guard, <<
    Route("POST", <<"auth", "login">>, "none", "login"),
    Route("POST", <<"auth", "refresh">>, "none", "refresh"),
    Route("POST", <<"auth", "google">>, "none", "googleLogin"),
    Route("POST", <<"auth", "vault-reset", "request">>, "none", "vaultResetRequest"),
    Route("POST", <<"auth", "vault-reset", "verify">>, "none", "vaultResetVerify"),
    Route("POST", <<"auth", "vault-reset", "params">>, "none", "vaultResetGetParams"),
    Route("POST", <<"auth", "vault-reset", "complete">>, "none", "vaultResetComplete") >>)
AuthRoutes == Every(Public, SignupRoutes \o SignInRoutes)

ProfileRoutes == <<
  Route("GET", <<"users", "me">>, "self", "findUser"),
  Route("PATCH", <<"users", "me">>, "self", "updateProfile"),
  Route("POST", <<"users", "me", "avatar">>, "self", "uploadAvatar") >>
AccountRoutes == <<
  Route("DELETE", <<"users", "me">>, "self", "deleteAccount"),
  Route("GET", <<"users", "me", "security">>, "self", "getVaultSecurity"),
  Route("POST", <<"users", "me", "security">>, "self", "setupUserSecurity"),
  Route("PATCH", <<"users", "me", "vault-password">>, "self", "updateSecurityParams"),
  Route("GET", <<"users", "me", "storage">>, "self", "getStorageUsage") >>

FileListRoutes == <<
  Route("GET", <<"files">>, "self", "listFiles"),
  Route("GET", <<"files", "check-duplicate">>, "self", "checkDuplicate") >>
FileUploadRoutes == <<
  Route("POST", <<"files", "upload">>, "self", "uploadFileWithThumbnails") >>
\* A faulty variant: trash is declared behind :id.
FileReadRoutesShadowed == <<
  Route("POST", <<"files", "batch">>, "self", "getFilesBatch"),
  Route("GET", <<"files", Id, "content", Word>>, "self", "downloadContent"),
  Route("GET", <<"files", Id>>, "self", "getFile"),
  Route("GET", <<"files", "trash">>, "self", "listTrash"),
  Route("PATCH", <<"files", Id>>, "self", "updateFile") >>

FileReadRoutes == <<
  Route("POST", <<"files", "batch">>, "self", "getFilesBatch"),
  Route("GET", <<"files", "trash">>, "self", "listTrash"),
  Route("GET", <<"files", Id, "content", Word>>, "self", "downloadContent"),
  Route("GET", <<"files", Id>>, "self", "getFile"),
  Route("PATCH", <<"files", Id>>, "self", "updateFile") >>
FileTrashRoutes == <<
  Route("POST", <<"files", "trash">>, "self", "moveToTrashBulk"),
  Route("POST", <<"files", "restore">>, "self", "restoreFilesBulk"),
  Route("POST", <<"files", "purge">>, "self", "deleteFilesPermanentlyBulk"),
  Route("POST", <<"files", "trash", "empty">>, "self", "emptyTrashBatch"),
  Route("DELETE", <<"files", Id>>, "self", "moveToTrash") >>

FolderReadRoutes == <<
  Route("POST", <<"folders">>, "self", "createFolder"),
  Route("GET", <<"folders", "library">>, "self", "getLibrary"),
  Route("GET", <<"folders">>, "self", "listFolders"),
  Route("GET", <<"folders", Id, "all-files">>, "self", "getAllFilesInFolder"),
  Route("GET", <<"folders", Id>>, "self", "getFolder") >>
FolderChangeRoutes == <<
  Route("PATCH", <<"folders", Id>>, "self", "updateFolder"),
  Route("DELETE", <<"folders", Id>>, "self", "deleteFolder"),
  Route("POST", <<"folders", Id, "restore">>, "self", "restoreFolder"),
  Route("DELETE", <<"folders", Id, "permanent">>, "self", "deleteFolderPermanently"),
  Route("POST", <<"folders", "move-files">>, "self", "moveFilesToFolder"),
  Route("POST", <<"folders", Id, "move">>, "self", "moveFolderToFolder") >>

ShareRoutes == <<
  Route("POST", <<"shares">>, "self", "createShare"),
  Route("GET", <<"shares">>, "self", "listShares"),
  Route("DELETE", <<"shares", Id>>, "self", "revokeShare"),
  Route("POST", <<"shares", Word, "save-to-account">>, "self", "saveToAccount"),
  Public(Route("GET", <<"shares", Word>>, "none", "resolveShare")),
  Public(Route("GET", <<"shares", Word, "browse", Id>>, "none", "browseShareFolder")) >>

UploadRoutes == <<
  Route("POST", <<"uploads", "start">>, "self", "startUpload"),
  Route("POST", <<"uploads", Id, "part-urls">>, "self", "getPartUrls"),
  Route("POST", <<"uploads", Id, "part-complete">>, "self", "recordPart"),
  Route("POST", <<"uploads", Id, "complete">>, "self", "completeUpload"),
  Route("POST", <<"uploads", Id, "cancel">>, "self", "cancelUpload"),
  Route("GET", <<"uploads", Id, "status">>, "self", "getSessionStatus"),
  Route("GET", <<"uploads", "pending">>, "self", "listPendingSessions") >>

SubscriptionRoutes == <<
  Public(Route("GET", <<"payments", "plans">>, "none", "getActivePlans")),
  Route("GET", <<"payments", "subscription">>, "self", "getUserSubscription"),
  Route("GET", <<"payments", "subscription", "history">>, "self",
        "getUserSubscriptionHistory"),
  Route("POST", <<"payments", "checkout">>, "self", "initiateCheckout"),
  Route("POST", <<"payments", "renew">>, "self", "initiateRenewal"),
  Route("GET", <<"payments", "history">>, "self", "getUserPayments") >>
TransferRoutes == <<
  Public(Route("GET", <<"payments", "instapay", "info">>, "none", "getInfo")),
  Route("GET", <<"payments", "instapay", "status">>, "self", "getUserLatestSubmission"),
  Route("POST", <<"payments", "instapay", "submit">>, "self", "submitPayment"),
  Public(Route("POST", <<"payments", "webhook">>, "none", "processWebhook")),
  Public(Route("GET", <<"payments", "callback">>, "none", "handleCallback")) >>

\* @UseGuards(JwtAuthGuard) of the class, a second time after the global one.
ContactRoutes ==
  LET Guard(r) == Guarded(<<"jwt">>, r) IN Every(Guard, <<
    Route("POST", <<"contacts", "sync">>, "self", "syncEncryptedContacts"),
    Route("GET", <<"contacts", "search">>, "self", "searchContacts"),
    Route("GET", <<"contacts">>, "self", "getUserContacts"),
    Route("DELETE", <<"contacts">>, "self", "deleteAllContacts") >>)

\* A faulty variant: the statistics without AdminGuard.
FeedbackRoutesOpen == <<
  Route("POST", <<"feedback">>, "self", "createFeedback"),
  Guarded(<<"admin">>, Route("GET", <<"feedback">>, "all", "findAll")),
  Route("GET", <<"feedback", "stats">>, "all", "getStats") >>

FeedbackRoutes == <<
  Route("POST", <<"feedback">>, "self", "createFeedback"),
  Guarded(<<"admin">>, Route("GET", <<"feedback">>, "all", "findAll")),
  Guarded(<<"admin">>, Route("GET", <<"feedback", "stats">>, "all", "getStats")) >>

\* In the order the modules are imported; each controller has a prefix of its
\* own, so only the order within a controller matters.
UserRoutes == ProfileRoutes \o AccountRoutes
FileRoutes == FileListRoutes \o FileUploadRoutes \o FileReadRoutes \o FileTrashRoutes
FolderRoutes == FolderReadRoutes \o FolderChangeRoutes
PaymentRoutes == SubscriptionRoutes \o TransferRoutes
Routes ==
  AuthRoutes \o UserRoutes \o FileRoutes \o FolderRoutes \o AdminRoutes
  \o ShareRoutes \o ContactRoutes \o UploadRoutes \o PaymentRoutes \o FeedbackRoutes

-----------------------------------------------------------------------------
\* A request: a client fills in the parameters of the route it wants, with a
\* uuid or with some other text, and may send an access token and a CAPTCHA
\* token.
Texts == {"a-uuid", "a-word"}
Fill(path, text) ==
  [i \in DOMAIN path |-> IF path[i] \in {Id, Word} THEN text ELSE path[i]]

\* Express tries the routes in the order of their declaration; a parameter
\* matches any segment.
Matches(r, method, path) ==
  /\ r.method = method
  /\ Len(r.path) = Len(path)
  /\ \A i \in DOMAIN path : r.path[i] \in {Id, Word, path[i]}
FirstMatch(method, path) ==
  CHOOSE i \in DOMAIN Routes :
    /\ Matches(Routes[i], method, path)
    /\ \A j \in 1 .. i - 1 : ~Matches(Routes[j], method, path)

VARIABLES
  asked,    \* the index of the route the client wants, 0 when there is no request
  request,  \* what it sends
  matched,  \* the index of the route that was matched, 0 before
  todo,     \* the guards that are still to run
  user,     \* request.user: "none", or the role in the access token
  phase,    \* "idle", "guards", "pipes", "handler" or "answered"
  status    \* of the answer, 0 before

gatewayVars == <<asked, request, matched, todo, user, phase, status>>

Guards == {"throttle", "jwt", "admin", "authThrottle", "turnstile", "signupIpLimit"}
NoCall == [path |-> <<>>, token |-> "none", captcha |-> FALSE]
Statuses == {200, 400, 401, 403, 404, 409, 429, 500}

GatewayTypeOK ==
  /\ asked \in 0 .. Len(Routes) /\ matched \in 0 .. Len(Routes)
  /\ request.token \in {"none", "expired", "user", "admin"}
  /\ request.captcha \in BOOLEAN
  /\ todo \in Seq(Guards)
  /\ user \in {"none", "user", "admin"}
  /\ phase \in {"idle", "guards", "pipes", "handler", "answered"}
  /\ status \in Statuses \cup {0}

GatewayInit ==
  /\ asked = 0 /\ request = NoCall /\ matched = 0 /\ todo = <<>>
  /\ user = "none" /\ phase = "idle" /\ status = 0

Reply(code) == phase' = "answered" /\ status' = code

\* The router finds the route; APP_GUARD puts ThrottlerGuard and JwtAuthGuard
\* before the guards of the class and of the method.
ReceiveRequest ==
  /\ phase = "idle"
  /\ \E i \in DOMAIN Routes, text \in Texts,
       token \in {"none", "expired", "user", "admin"}, captcha \in BOOLEAN :
       /\ request' = [path |-> Fill(Routes[i].path, text), token |-> token,
                      captcha |-> captcha]
       /\ captcha => "turnstile" \in {Routes[i].guards[k] : k \in DOMAIN Routes[i].guards}
       /\ asked' = i
       /\ LET j == FirstMatch(Routes[i].method, request'.path)
          IN matched' = j /\ todo' = <<"throttle", "jwt">> \o Routes[j].guards
  /\ phase' = "guards"
  /\ UNCHANGED <<user, status>>

\* JwtAuthGuard and jwt.strategy: a public route is not looked at and gets no
\* request.user; else the token must be valid and its payload becomes the user.
JwtPasses == Routes[matched].public \/ request.token \in {"user", "admin"}
JwtUser == IF Routes[matched].public THEN "none" ELSE request.token

\* Whether the first guard may pass, and the status it may refuse with.
GuardPasses(g) ==
  CASE g = "jwt" -> JwtPasses
    [] g = "admin" -> user = "admin"
    [] g = "turnstile" -> request.captcha   \* Cloudflare agrees or is not reached
    [] OTHER -> TRUE                        \* below the limit, or Redis is down
GuardRefuses(g) ==
  CASE g = "jwt" -> IF JwtPasses THEN {} ELSE {401}
    [] g = "admin" -> IF user = "admin" THEN {} ELSE {403}
    [] g = "turnstile" -> {400}
    [] OTHER -> {429}

RunGuard ==
  /\ phase = "guards" /\ todo # <<>>
  /\ LET g == Head(todo) IN
     \/ /\ GuardPasses(g)
        /\ user' = IF g = "jwt" THEN JwtUser ELSE user
        /\ todo' = Tail(todo)
        /\ UNCHANGED <<phase, status>>
     \/ /\ \E code \in GuardRefuses(g) : Reply(code)
        /\ todo' = <<>>
        /\ UNCHANGED user
  /\ UNCHANGED <<asked, request, matched>>

GuardsDone ==
  /\ phase = "guards" /\ todo = <<>>
  /\ phase' = "pipes"
  /\ UNCHANGED <<asked, request, matched, todo, user, status>>

\* ParseUUIDPipe on the parameters, ValidationPipe on the body.
RunPipes ==
  /\ phase = "pipes"
  /\ LET r == Routes[matched] IN
     IF \E i \in DOMAIN r.path : r.path[i] = Id /\ request.path[i] # "a-uuid"
     THEN Reply(400)
     ELSE \/ phase' = "handler" /\ UNCHANGED status
          \/ r.method # "GET" /\ Reply(400)
  /\ UNCHANGED <<asked, request, matched, todo, user>>

\* The service operation returns, throws an HttpException, or throws something
\* else: AllExceptionsFilter answers that with 500.
RunHandler ==
  /\ phase = "handler"
  /\ \E code \in {200, 400, 401, 403, 404, 409, 500} : Reply(code)
  /\ UNCHANGED <<asked, request, matched, todo, user>>

NextRequest ==
  /\ phase = "answered"
  /\ asked' = 0 /\ request' = NoCall /\ matched' = 0 /\ todo' = <<>>
  /\ user' = "none" /\ phase' = "idle" /\ status' = 0

GatewayNext ==
  \/ ReceiveRequest \/ RunGuard \/ GuardsDone \/ RunPipes \/ RunHandler
  \/ NextRequest

GatewaySpec == GatewayInit /\ [][GatewayNext]_gatewayVars

-----------------------------------------------------------------------------
(* Properties *)

\* A request reaches the route its client wanted, with that route's guards: no
\* route declared earlier takes the requests of a later one, as files/:id would
\* take files/trash and refuse it for its uuid (files.controller.ts declares trash
\* first, "so NestJS matches the more specific" path).
RightOperationRuns ==
  phase # "idle" => Routes[matched].op = Routes[asked].op

\* Whether the caller may have what the handler of the matched route works on.
Entitled ==
  CASE Routes[matched].subject = "all" -> request.token = "admin" /\ user = "admin"
    [] Routes[matched].subject = "self" -> user \in {"user", "admin"}
    [] OTHER -> TRUE

\* An operation that is given the data of every user runs for administrators
\* only, and one that is given the id of the caller has a caller: the guards
\* of every route fit what its handler does, and AdminGuard finds the user
\* because JwtAuthGuard has run before it.
CallerIsEntitled == phase = "handler" => Entitled

-----------------------------------------------------------------------------
(* The inductive invariant                                                  *)

\* The router takes a request to the route that its client wanted.
RouteFound == phase # "idle" => asked \in DOMAIN Routes /\ matched = asked

\* The guards of a route run in order, each once, and those behind JwtAuthGuard
\* find the user that it has put there.
GuardsInOrder ==
  phase = "guards" =>
    LET guards == <<"throttle", "jwt">> \o Routes[matched].guards
        ran == Len(guards) - Len(todo)
    IN /\ ran >= 0
       /\ \A k \in DOMAIN todo : todo[k] = guards[ran + k]
       /\ IF ran < 2 THEN user = "none" ELSE JwtPasses /\ user = JwtUser
       /\ "admin" \in {guards[k] : k \in 1 .. ran} => user = "admin"

GatewayInv ==
  /\ GatewayTypeOK
  /\ RouteFound
  /\ phase = "idle" => user = "none"
  /\ GuardsInOrder
  /\ phase \in {"pipes", "handler"} => Entitled

=============================================================================
