------------------------------ MODULE Sessions ------------------------------
(***************************************************************************)
(* Sessions of one account: the handlers of internal/http/handlers/auth.go *)
(* over the users and refresh_tokens tables, the access tokens of          *)
(* internal/auth and the middleware that reads them, and one tab of the    *)
(* web client (web/src/api/client.ts), which shares a refresh among its    *)
(* requests.                                                               *)
(*                                                                         *)
(* A password is the number of resets before it.  Access tokens are        *)
(* numbered in the order they are signed; all live equally long, so they   *)
(* expire in that order.  The account is created once and may be deleted.  *)
(***************************************************************************)
EXTENDS Integers, Sequences, FiniteSets

CONSTANTS
    Logins,       \* logins (and the signup) under way on any device
    Tokens,       \* refresh tokens
    Requests,     \* requests of the tab
    MaxMints,     \* bound: access tokens signed
    MaxResets,    \* bound: password resets
    NoToken

ASSUME SessionsAssumption ==
    /\ NoToken \notin Tokens
    /\ MaxMints \in Nat /\ MaxResets \in Nat

\* server.go, Router: the route groups, and what one request of each does.
Exempt == {"delete"}        \* and /me, resend
Guarded == {"calendar"}
Public == {"logout"}        \* of those the tab fetches when signed in
Kinds == Exempt \cup Guarded \cup Public

VARIABLES
    account,    \* the users row: state, confirmed, password
    session,    \* session[t]: the refresh_tokens row and the password behind it
    login,      \* login[l]: a Login or Signup handler
    claim,      \* claim[n]: the confirmed claim of the n-th access token
    minted,     \* access tokens signed so far
    stale,      \* access tokens up to this one have expired
    cookie,     \* the browser's refresh token
    access,     \* accessToken of the tab; 0 is null
    flight,     \* refreshInFlight of the tab
    req,        \* req[r]: an apiFetch of the tab
    late        \* history: sessions inserted after a reset by a login that
                \* had verified the old password before it

vars == <<account, session, login, claim, minted, stale, cookie, access, flight, req, late>>
client == <<cookie, access, flight, req>>
signing == <<claim, minted>>

Idle == [pc |-> "idle", password |-> 0, confirmed |-> FALSE, token |-> NoToken]
NoFlight == [pc |-> "none", token |-> NoToken, got |-> 0]
\* again: this is the fetch after a 401.  began: the account was confirmed when
\* the request began.  heal: how the refresh after a 403 came about, "own" or
\* "joined", or "failed" if the last refresh did.  tries (history): the statuses
\* it awaited a refresh after.
NoRequest == [pc |-> "idle", kind |-> "calendar", tok |-> 0, status |-> 0,
              again |-> FALSE, began |-> FALSE, heal |-> "none", tries |-> <<>>]

\* Of a request that is over only a refusal by RequireConfirmed is remembered.
Over(q) == IF q.status = 403
           THEN [NoRequest EXCEPT !.pc = "ended", !.status = 403, !.began = q.began, !.heal = q.heal]
           ELSE [NoRequest EXCEPT !.pc = "ended"]

TypeOK ==
    /\ account \in [state : {"none", "present", "deleted"}, confirmed : BOOLEAN,
                    password : 0..MaxResets]
    /\ session \in [Tokens -> [state : {"none", "active", "ended"},
                               password : 0..MaxResets]]
    /\ login \in [Logins -> [pc : {"idle", "verified", "stored"}, password : 0..MaxResets,
                             confirmed : BOOLEAN, token : Tokens \cup {NoToken}]]
    /\ minted \in 0..MaxMints /\ stale \in 0..minted
    /\ claim \in [1..MaxMints -> BOOLEAN]
    /\ cookie \in Tokens \cup {NoToken}
    /\ access \in 0..minted
    /\ flight \in [pc : {"none", "sent", "answered"}, token : Tokens \cup {NoToken}, got : 0..minted]
    /\ req \in [Requests -> [pc : {"idle", "sent", "answered", "waiting", "ended"}, kind : Kinds,
                             tok : 0..minted, status : {0, 200, 401, 403, 500}, again : BOOLEAN,
                             began : BOOLEAN, heal : {"none", "own", "joined", "failed"},
                             tries : Seq({401, 403})]]
    /\ late \subseteq Tokens

\* A new visitor, or the cold load of a page by one whose cookie is good: the
\* access token lives in memory only.
Init ==
    /\ cookie \in Tokens \cup {NoToken}
    /\ account = [state |-> IF cookie = NoToken THEN "none" ELSE "present",
                  confirmed |-> FALSE, password |-> 0]
    /\ session = [t \in Tokens |-> [state |-> IF t = cookie THEN "active" ELSE "none", password |-> 0]]
    /\ login = [l \in Logins |-> Idle]
    /\ claim = [n \in 1..MaxMints |-> FALSE]
    /\ minted = 0 /\ stale = 0
    /\ access = 0 /\ flight = NoFlight
    /\ req = [r \in Requests |-> NoRequest]
    /\ late = {}
-----------------------------------------------------------------------------
(* Access tokens.                                                          *)

\* JWTSigner.SignAccess
SignAccess(confirmed) ==
    /\ minted < MaxMints
    /\ minted' = minted + 1
    /\ claim' = [claim EXCEPT ![minted + 1] = confirmed]

\* JWTSigner.VerifyAccess
VerifyAccess(n) == n > stale

Answer(kind, n) ==
    IF kind \in Public THEN 200
    ELSE IF ~VerifyAccess(n) THEN 401                       \* RequireAuth
    ELSE IF kind \in Guarded /\ ~claim[n] THEN 403          \* RequireConfirmed
    ELSE 200

\* mutant: one token too many
TokenExpiresOver ==
    /\ stale <= minted
    /\ stale' = stale + 1
    /\ UNCHANGED <<account, session, login, signing, client, late>>

\* The oldest live token reaches its TTL.
TokenExpires ==
    /\ stale < minted
    /\ stale' = stale + 1
    /\ UNCHANGED <<account, session, login, signing, client, late>>
-----------------------------------------------------------------------------
(* Signup and Login.                                                       *)

\* Signup: CreateUser; the address is free once.
SignupCreate(l) ==
    /\ login[l].pc = "idle"
    /\ account.state = "none"
    /\ account' = [account EXCEPT !.state = "present"]
    /\ login' = [login EXCEPT ![l] = [Idle EXCEPT !.pc = "verified"]]
    /\ UNCHANGED <<session, signing, stale, client, late>>

\* Login: GetUserByEmail and pwhash.Verify.  A wrong password changes nothing.
LoginVerify(l) ==
    /\ login[l].pc = "idle"
    /\ account.state = "present"
    /\ login' = [login EXCEPT ![l] = [Idle EXCEPT !.pc = "verified",
                                                  !.password = account.password,
                                                  !.confirmed = account.confirmed]]
    /\ UNCHANGED <<account, session, signing, stale, client, late>>

\* CreateRefreshToken; the insert fails when the user is gone.
LoginStore(l) ==
    \E t \in Tokens :
        /\ login[l].pc = "verified"
        /\ account.state = "present"
        /\ session[t].state = "none"
        /\ session' = [session EXCEPT ![t] = [state |-> "active", password |-> login[l].password]]
        /\ login' = [login EXCEPT ![l].pc = "stored", ![l].token = t]
        /\ late' = IF login[l].password = account.password THEN late ELSE late \cup {t}
        /\ UNCHANGED <<account, signing, stale, client>>

\* The reply: cookie and access token.  The token was signed from the row the
\* first query read.
LoginReply(l) ==
    /\ login[l].pc = "stored"
    /\ SignAccess(login[l].confirmed)
    /\ cookie' = login[l].token
    /\ access' = minted + 1
    /\ login' = [login EXCEPT ![l] = Idle]
    /\ UNCHANGED <<account, session, stale, flight, req, late>>

\* A query failed, or the reply was lost or went to another device.
LoginFails(l) ==
    /\ login[l].pc \in {"verified", "stored"}
    /\ login' = [login EXCEPT ![l] = Idle]
    /\ UNCHANGED <<account, session, signing, stale, client, late>>
-----------------------------------------------------------------------------
(* Other devices and the mailbox.                                          *)

\* ConfirmUserEmail
Confirm ==
    /\ account.state = "present" /\ ~account.confirmed
    /\ account' = [account EXCEPT !.confirmed = TRUE]
    /\ UNCHANGED <<session, login, signing, stale, client, late>>

\* revoked_at set, or the row gone with its user
Ended(t) == IF session[t].state = "active" THEN [session[t] EXCEPT !.state = "ended"] ELSE session[t]

\* mutant: the sessions are left as they are
RevokedNone == session

Revoked == [t \in Tokens |-> Ended(t)]

\* ResetPasswordWithToken: one statement sets the password, confirms the
\* account and revokes every refresh token.
ResetPassword ==
    /\ account.state = "present" /\ account.password < MaxResets
    /\ account' = [account EXCEPT !.password = @ + 1, !.confirmed = TRUE]
    /\ session' = Revoked
    /\ UNCHANGED <<login, signing, stale, client, late>>

\* expires_at passes.
SessionExpires(t) ==
    /\ session[t].state = "active"
    /\ session' = [session EXCEPT ![t].state = "ended"]
    /\ UNCHANGED <<account, login, signing, stale, client, late>>
-----------------------------------------------------------------------------
(* The web client: refresh.                                                *)

\* rawFetch('/auth/refresh'): the browser sends the cookie it has now.
StartFlight == [pc |-> "sent", token |-> cookie, got |-> 0]

\* mutant: the claim is that of the token the tab already has
RefreshClaimOld == access # 0 /\ claim[access]

\* GetActiveRefreshTokenByHash joins users: the claim is read now.
RefreshClaim == account.confirmed

ActiveRefresh(t) == t # NoToken /\ session[t].state = "active"

\* handlers.Refresh
Refresh ==
    /\ flight.pc = "sent"
    /\ ActiveRefresh(flight.token)
    /\ SignAccess(RefreshClaim)
    /\ flight' = [flight EXCEPT !.pc = "answered", !.got = minted + 1]
    /\ UNCHANGED <<account, session, login, stale, cookie, access, req, late>>

\* No active session, or any other failure (the limiter, the database).
RefreshFails ==
    /\ flight.pc = "sent"
    /\ flight' = [flight EXCEPT !.pc = "answered"]
    /\ UNCHANGED <<account, session, login, signing, stale, cookie, access, req, late>>

Waiting == {r \in Requests : req[r].pc = "waiting"}

Settled(q) == req' = [r \in Requests |-> IF r \in Waiting THEN q[r] ELSE req[r]]

\* The promise settles: every request that awaits it goes on.  With a token it
\* fetches again, else it keeps the response it had (after a 401 the 403 test
\* that follows fails, too).
RefreshSettles ==
    LET ok == flight.got # 0
        next(r) == IF ok THEN [req[r] EXCEPT !.pc = "sent", !.tok = flight.got, !.status = 0,
                                            !.again = (req[r].status = 401)]
                         ELSE Over([req[r] EXCEPT !.heal = "failed"])
    IN  /\ flight.pc = "answered"
        /\ access' = IF ok THEN flight.got ELSE access
        /\ flight' = NoFlight
        /\ Settled([r \in Requests |-> next(r)])
        /\ UNCHANGED <<account, session, login, signing, stale, cookie, late>>

\* fetch itself rejects: so do the requests.
RefreshLost ==
    /\ flight.pc # "none"
    /\ flight' = NoFlight
    /\ Settled([r \in Requests |-> Over([req[r] EXCEPT !.status = 500, !.heal = "failed"])])
    /\ UNCHANGED <<account, session, login, signing, stale, cookie, access, late>>

\* refreshSession, from ConfirmEmailPage
RefreshSession ==
    /\ flight = NoFlight
    /\ flight' = StartFlight
    /\ UNCHANGED <<account, session, login, signing, stale, cookie, access, req, late>>
-----------------------------------------------------------------------------
(* The web client: apiFetch.                                               *)

Begin(r, kind) ==
    /\ req[r].pc = "idle"
    /\ req' = [req EXCEPT ![r] = [NoRequest EXCEPT !.pc = "sent", !.kind = kind, !.tok = access,
                                                   !.began = account.confirmed]]
    /\ UNCHANGED <<account, session, login, signing, stale, cookie, access, flight, late>>

\* What the handler behind the middleware does to the tables and the cookie.
Effect(kind) ==
    CASE kind = "delete" ->      \* DeleteMe; the cascade takes the sessions
            /\ account' = [account EXCEPT !.state = "deleted"]
            /\ session' = [t \in Tokens |-> Ended(t)]
            /\ cookie' = NoToken
      [] kind = "logout" ->      \* Logout; a failed revocation is not noticed
            /\ session' \in {session} \cup
                   (IF cookie = NoToken THEN {} ELSE {[session EXCEPT ![cookie] = Ended(cookie)]})
            /\ cookie' = NoToken
            /\ UNCHANGED account
      [] OTHER -> UNCHANGED <<account, session, cookie>>

Serve(r) ==
    LET status == Answer(req[r].kind, req[r].tok) IN
    /\ req[r].pc = "sent"
    /\ req' = [req EXCEPT ![r].pc = "answered", ![r].tok = 0, ![r].status = status]
    /\ IF status = 200 THEN Effect(req[r].kind) ELSE UNCHANGED <<account, session, cookie>>
    /\ UNCHANGED <<login, signing, stale, access, flight, late>>

\* Any other error: a limiter, the database, the network.
ServeFails(r) ==
    /\ req[r].pc = "sent"
    /\ req' = [req EXCEPT ![r].pc = "answered", ![r].tok = 0, ![r].status = 500]
    /\ UNCHANGED <<account, session, login, signing, stale, cookie, access, flight, late>>

\* mutant: whatever is refused after a refresh is refreshed again
RetriesAgain(q) == \/ q.status = 401 /\ q.heal = "none"
                   \/ q.status = 403 /\ q.heal = "none"

\* mutant: a 403 is an answer like any other
Retries403Not(q) == q.status = 401 /\ ~q.again /\ q.heal = "none"

\* The two tests of apiFetch: a 401 of the first fetch, a 403 of a fetch that
\* was not the retry after a 403.
Retries(q) == \/ q.status = 401 /\ ~q.again /\ q.heal = "none"
              \/ q.status = 403 /\ q.heal = "none"

\* refreshInFlight ??= doRefresh()
Heals(q) == IF q.status = 401 THEN q.heal ELSE IF flight = NoFlight THEN "own" ELSE "joined"

ReceiveRetry(r) ==
    /\ req[r].pc = "answered" /\ Retries(req[r])
    /\ req' = [req EXCEPT ![r].pc = "waiting", ![r].heal = Heals(req[r]),
                        ![r].tries = Append(@, req[r].status)]
    /\ flight' = IF flight = NoFlight THEN StartFlight ELSE flight
    /\ UNCHANGED <<account, session, login, signing, stale, cookie, access, late>>

\* logout and a successful deletion end with clearAccessToken.
ReceiveEnd(r) ==
    /\ req[r].pc = "answered" /\ ~Retries(req[r])
    /\ req' = [req EXCEPT ![r] = Over(req[r])]
    /\ access' = IF \/ req[r].kind = "logout"
                    \/ req[r].kind = "delete" /\ req[r].status = 200
                 THEN 0 ELSE access
    /\ UNCHANGED <<account, session, login, signing, stale, cookie, flight, late>>
-----------------------------------------------------------------------------
Server == \/ \E l \in Logins : \/ SignupCreate(l) \/ LoginVerify(l) \/ LoginStore(l)
                               \/ LoginReply(l) \/ LoginFails(l)
          \/ Confirm \/ ResetPassword \/ TokenExpires
          \/ \E t \in Tokens : SessionExpires(t)
          \/ Refresh \/ RefreshFails
          \/ \E r \in Requests : Serve(r) \/ ServeFails(r)

Tab == \/ RefreshSettles \/ RefreshLost \/ RefreshSession
       \/ \E r \in Requests : \/ \E kind \in Kinds : Begin(r, kind)
                              \/ ReceiveRetry(r) \/ ReceiveEnd(r)

Next == Server \/ Tab

Spec == Init /\ [][Next]_vars
-----------------------------------------------------------------------------
(* ResetPassword "revokes every refresh token, signing the user out        *)
(* everywhere": the only sessions of an older password that are still good *)
(* are those of a login that was between its two queries at the reset.     *)
OnlyLateLoginsOutlive ==
    \A t \in Tokens : session[t].state = "active" /\ session[t].password # account.password => t \in late

(* "Confirmation is monotonic, so a refresh always resolves it"            *)
(* (client.ts): a request begun after the account was confirmed is not     *)
(* refused for want of confirmation, unless its refresh failed or was one  *)
(* already under way, which may have read the account before.              *)
GateHeals ==
    \A r \in Requests :
        req[r].pc = "ended" /\ req[r].status = 403 /\ req[r].began => req[r].heal \in {"joined", "failed"}

(* No request refreshes for ever, on a budget of 30 refreshes a minute     *)
(* that an address shares (client.ts:66-79): it awaits one after a 401 and *)
(* then "once" more after a 403 (client.ts:115-133), whatever it is        *)
(* answered in between, also when the new token has expired by then or a   *)
(* refresh it joined brought an older one.                                 *)
RefreshesOnceForEach ==
    \A r \in Requests : req[r].tries \in {<<>>, <<401>>, <<403>>, <<401, 403>>}
=============================================================================
