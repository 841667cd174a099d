---------------------------- MODULE RefreshTokens ----------------------------
(***************************************************************************)
(* The refresh tokens of one account: login, googleLogin, refresh with      *)
(* rotation and reuse detection, logout, and the revocation that ends a     *)
(* vault reset (auth.service.ts; the row is refresh-token.entity.ts).       *)
(* A handler reads the token, reads the user, saves the rotated row and     *)
(* inserts its successor in separate awaits.                                *)
(***************************************************************************)
EXTENDS Naturals, FiniteSets

CONSTANTS
  Handlers,   \* requests that may be in flight at the same time
  MaxTokens   \* bound: the tokens that are issued

ASSUME MaxTokensAssumption == MaxTokens \in Nat

\* A token is named by the order in which it is issued.
Tokens == 1 .. MaxTokens
NoToken == 0

VARIABLES
  issued,     \* the number of rows inserted so far
  row,        \* row[t]: "none", "live", "revoked" (is_revoked), or "gone" when
              \*         the deletion of the user has cascaded to it
  expired,    \* the tokens up to this one are past expires_at
  exists,     \* the row of the user is there
  isActive,   \* its column is_active
  await,      \* await[h]: the await at which handler h stands
  presented,  \* presented[h]: the token a refresh was called with
  origin,     \* origin[t]: the token of the login that t descends from (history)
  forked,     \* logins of which two refreshes of one token overlapped (history)
  cut         \* the number of tokens issued when all were revoked (history)

tokenVars == <<issued, row, expired, exists, isActive, await, presented,
               origin, forked, cut>>

TokenAwaits == {"revokeAll", "readUser", "rotate", "insert"}

TokensTypeOK ==
  /\ issued \in Nat /\ issued <= MaxTokens
  /\ row \in [Tokens -> {"none", "live", "revoked", "gone"}]
  /\ expired \in Nat /\ expired <= issued
  /\ exists \in BOOLEAN /\ isActive \in BOOLEAN
  /\ await \in [Handlers -> TokenAwaits \cup {"idle"}]
  /\ presented \in [Handlers -> Tokens \cup {NoToken}]
  /\ origin \in [Tokens -> Tokens \cup {NoToken}]
  /\ forked \subseteq Tokens
  /\ cut \in Nat /\ cut <= issued

TokensInit ==
  /\ issued = 0
  /\ row = [t \in Tokens |-> "none"]
  /\ expired = 0
  /\ exists = TRUE /\ isActive = TRUE
  /\ await = [h \in Handlers |-> "idle"]
  /\ presented = [h \in Handlers |-> NoToken]
  /\ origin = [t \in Tokens |-> NoToken]
  /\ forked = {}
  /\ cut = 0

Start(h, where, t) ==
  /\ await[h] = "idle"
  /\ await' = [await EXCEPT ![h] = where]
  /\ presented' = [presented EXCEPT ![h] = t]

Move(h, where) ==
  /\ await' = [await EXCEPT ![h] = where]
  /\ UNCHANGED presented

Leave(h) ==
  /\ await' = [await EXCEPT ![h] = "idle"]
  /\ presented' = [presented EXCEPT ![h] = NoToken]

\* UPDATE ... SET is_revoked = true WHERE user_id = ... AND NOT is_revoked
RevokeLive ==
  /\ row' = [t \in Tokens |-> IF row[t] = "live" THEN "revoked" ELSE row[t]]
  /\ cut' = issued

-----------------------------------------------------------------------------
(* Handlers *)

\* login, after the password or the vault password has been verified.
Login(h) ==
  /\ exists /\ isActive
  /\ Start(h, "insert", NoToken)
  /\ UNCHANGED <<issued, row, expired, exists, isActive, origin, forked, cut>>

\* googleLogin does not look at is_active.
GoogleLogin(h) ==
  /\ exists
  /\ Start(h, "insert", NoToken)
  /\ UNCHANGED <<issued, row, expired, exists, isActive, origin, forked, cut>>

\* Other handlers that found token t valid and have not answered yet.
InFlight(h, t) ==
  {g \in Handlers \ {h} : presented[g] = t /\ await[g] # "revokeAll"}

\* refresh: the row of the token is read.  One that is not there, or is live
\* and expired, is refused and nothing changes.
Refresh(h, t) ==
  /\ \/ row[t] = "revoked" /\ Start(h, "revokeAll", t) /\ UNCHANGED forked
     \/ /\ row[t] = "live" /\ t > expired
        /\ Start(h, "readUser", t)
        /\ forked' = IF InFlight(h, t) = {} THEN forked
                     ELSE forked \cup {origin[t]}
  /\ UNCHANGED <<issued, row, expired, exists, isActive, origin, cut>>

\* A faulty variant: only the presented token is revoked, which it was.
ReuseDetectedIdly(h) ==
  /\ await[h] = "revokeAll"
  /\ cut' = issued
  /\ Leave(h)
  /\ UNCHANGED <<issued, row, expired, exists, isActive, origin, forked>>

\* A revoked token was presented: every live token of the user is revoked.
ReuseDetected(h) ==
  /\ await[h] = "revokeAll"
  /\ RevokeLive
  /\ Leave(h)
  /\ UNCHANGED <<issued, expired, exists, isActive, origin, forked>>

RefreshReadsUser(h) ==
  /\ await[h] = "readUser"
  /\ IF exists /\ isActive THEN Move(h, "rotate") ELSE Leave(h)
  /\ UNCHANGED <<issued, row, expired, exists, isActive, origin, forked, cut>>

\* A faulty variant: a successor without the revocation of the presented token.
RotateKeeping(h) ==
  /\ await[h] = "rotate"
  /\ IF exists THEN Move(h, "insert") ELSE Leave(h)
  /\ UNCHANGED <<issued, row, expired, exists, isActive, origin, forked, cut>>

\* The entity that was read is saved with isRevoked = true; when the row is
\* gone the save inserts it and fails, for the user is gone as well.
Rotate(h) ==
  /\ await[h] = "rotate"
  /\ IF exists
     THEN /\ row' = [row EXCEPT ![presented[h]] = "revoked"]
          /\ Move(h, "insert")
     ELSE UNCHANGED row /\ Leave(h)
  /\ UNCHANGED <<issued, expired, exists, isActive, origin, forked, cut>>

\* generateTokens: the new row is saved; without the user row that fails.
GenerateTokens(h) ==
  /\ await[h] = "insert"
  /\ issued < MaxTokens
  /\ IF exists
     THEN LET t == issued + 1
          IN /\ issued' = t
             /\ row' = [row EXCEPT ![t] = "live"]
             /\ origin' = [origin EXCEPT ![t] =
                             IF presented[h] = NoToken THEN t
                             ELSE origin[presented[h]]]
     ELSE UNCHANGED <<issued, row, origin>>
  /\ Leave(h)
  /\ UNCHANGED <<expired, exists, isActive, forked, cut>>

\* A database call fails or the server restarts.
Abort(h) ==
  /\ await[h] # "idle"
  /\ Leave(h)
  /\ UNCHANGED <<issued, row, expired, exists, isActive, origin, forked, cut>>

-----------------------------------------------------------------------------
(* Operations of one statement *)

Logout(t) ==
  /\ row[t] = "live"
  /\ row' = [row EXCEPT ![t] = "revoked"]
  /\ UNCHANGED <<issued, expired, exists, isActive, await, presented, origin,
                 forked, cut>>

LogoutAll ==
  /\ RevokeLive
  /\ UNCHANGED <<issued, expired, exists, isActive, await, presented, origin,
                 forked>>

\* The end of vaultResetComplete, when the new password is stored.
ResetRevokesAll ==
  /\ exists
  /\ RevokeLive
  /\ UNCHANGED <<issued, expired, exists, isActive, await, presented, origin,
                 forked>>

\* An administrator disables or enables the account; its tokens stay.
SetActive ==
  /\ exists
  /\ isActive' = ~isActive
  /\ UNCHANGED <<issued, row, expired, exists, await, presented, origin, forked,
                 cut>>

\* The user row is deleted, by its owner or by an administrator: the foreign
\* key deletes the tokens.
DeleteUser ==
  /\ exists
  /\ exists' = FALSE
  /\ row' = [t \in Tokens |-> IF row[t] = "none" THEN "none" ELSE "gone"]
  /\ UNCHANGED <<issued, expired, isActive, await, presented, origin, forked, cut>>

Expire ==
  /\ expired < issued
  /\ expired' = expired + 1
  /\ UNCHANGED <<issued, row, exists, isActive, await, presented, origin, forked,
                 cut>>

HandlerStep(h) ==
  \/ Login(h) \/ GoogleLogin(h) \/ \E t \in Tokens : Refresh(h, t)
  \/ ReuseDetected(h) \/ RefreshReadsUser(h) \/ Rotate(h) \/ GenerateTokens(h)
  \/ Abort(h)

TokensNext ==
  \/ \E h \in Handlers : HandlerStep(h)
  \/ \E t \in Tokens : Logout(t)
  \/ LogoutAll \/ ResetRevokesAll \/ SetActive \/ DeleteUser \/ Expire

TokensSpec == TokensInit /\ [][TokensNext]_tokenVars

-----------------------------------------------------------------------------
(* Properties *)

\* Rotation: at most one live refresh token descends from a login, under any
\* interleaving of refreshes with logins, revocations, failures and the
\* deletion of the account, except where two refreshes with the same token
\* overlapped: both find it valid and both issue a successor.
OneLivePerLogin ==
  \A s, t \in Tokens :
    row[s] = "live" /\ row[t] = "live" /\ origin[s] = origin[t]
      => s = t \/ origin[t] \in forked

\* "All sessions have been revoked": a token that was issued before a reuse
\* was detected, before a vault reset completed or before logoutAll is never
\* live again.  (A refresh in flight at that moment still issues a new one.)
RevokedForGood == \A t \in 1 .. cut : row[t] # "live"

-----------------------------------------------------------------------------
(* The inductive invariant                                                  *)

\* A refresh that found its token valid and has not answered yet.
Refreshing(h) == await[h] \in {"readUser", "rotate", "insert"} /\ presented[h] # NoToken

\* Rows and lineages are those of issued tokens, and so is what is presented.
IssuedInOrder ==
  /\ \A t \in Tokens :
       /\ t > issued => row[t] = "none" /\ origin[t] = NoToken
       /\ t <= issued => origin[t] \in Tokens /\ origin[t] <= issued
  /\ \A h \in Handlers :
       /\ presented[h] <= issued
       /\ await[h] \in {"revokeAll", "readUser", "rotate"} => presented[h] # NoToken
       /\ await[h] = "idle" => presented[h] = NoToken

\* Whoever is about to insert a successor has revoked the token before.
RevokedBeforeInsert ==
  \A h \in Handlers :
    await[h] = "insert" /\ presented[h] # NoToken => row[presented[h]] # "live"

\* Without overlapping refreshes of one token, only the last token of a login
\* is live, only the last is being refreshed, and by one request.
LastOf(o) ==
  /\ \A s, t \in Tokens :
       row[s] = "live" /\ origin[s] = o /\ origin[t] = o => t <= s
  /\ \A h \in Handlers : Refreshing(h) /\ origin[presented[h]] = o =>
       /\ \A t \in Tokens : origin[t] = o => t <= presented[h]
       /\ \A g \in Handlers : Refreshing(g) /\ origin[presented[g]] = o => g = h
LastOfLogin == \A o \in Tokens \ forked : LastOf(o)

TokensInv ==
  /\ TokensTypeOK /\ IssuedInOrder /\ RevokedBeforeInsert /\ LastOfLogin
  /\ OneLivePerLogin /\ RevokedForGood

=============================================================================
