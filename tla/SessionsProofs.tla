--------------------------- MODULE SessionsProofs ---------------------------
(***************************************************************************)
(* What the sessions of an account keep for any number of logins, refresh  *)
(* tokens, requests of the tab, access tokens and resets.                  *)
(***************************************************************************)
EXTENDS Sessions, TLAPS

\* The sets the records of TypeOK are taken from.
LoginRec == [pc : {"idle", "verified", "stored"}, password : 0..MaxResets,
             confirmed : BOOLEAN, token : Tokens \cup {NoToken}]
Tries == Seq({401, 403})
FlightRec(n) == [pc : {"none", "sent", "answered"}, token : Tokens \cup {NoToken}, got : 0..n]
ReqRec(n) == [pc : {"idle", "sent", "answered", "waiting", "ended"}, kind : Kinds,
              tok : 0..n, status : {0, 200, 401, 403, 500}, again : BOOLEAN,
              began : BOOLEAN, heal : {"none", "own", "joined", "failed"},
              tries : Tries]
Account == [state : {"none", "present", "deleted"}, confirmed : BOOLEAN, password : 0..MaxResets]
SessionRec == [state : {"none", "active", "ended"}, password : 0..MaxResets]

LEMMA TypeParts ==
    TypeOK <=>
    /\ account \in Account
    /\ session \in [Tokens -> SessionRec]
    /\ login \in [Logins -> LoginRec]
    /\ minted \in 0..MaxMints /\ stale \in 0..minted
    /\ claim \in [1..MaxMints -> BOOLEAN]
    /\ cookie \in Tokens \cup {NoToken}
    /\ access \in 0..minted
    /\ flight \in FlightRec(minted)
    /\ req \in [Requests -> ReqRec(minted)]
    /\ late \subseteq Tokens
  BY DEF TypeOK, Account, SessionRec, LoginRec, FlightRec, ReqRec, Tries

LEMMA TypePartsPrimed ==
    TypeOK' <=>
    /\ account' \in Account
    /\ session' \in [Tokens -> SessionRec]
    /\ login' \in [Logins -> LoginRec]
    /\ minted' \in 0..MaxMints /\ stale' \in 0..minted'
    /\ claim' \in [1..MaxMints -> BOOLEAN]
    /\ cookie' \in Tokens \cup {NoToken}
    /\ access' \in 0..minted'
    /\ flight' \in FlightRec(minted')
    /\ req' \in [Requests -> ReqRec(minted')]
    /\ late' \subseteq Tokens
  BY DEF TypeOK, Account, SessionRec, LoginRec, FlightRec, ReqRec, Tries

\* Signing one more access token leaves the numbers of the others valid.
LEMMA MintType ==
    ASSUME TypeOK, NEW c \in BOOLEAN, SignAccess(c)
    PROVE  /\ minted' = minted + 1 /\ minted' \in 0..MaxMints
           /\ stale \in 0..minted'
           /\ access \in 0..minted'
           /\ claim' \in [1..MaxMints -> BOOLEAN]
           /\ FlightRec(minted) \subseteq FlightRec(minted')
           /\ ReqRec(minted) \subseteq ReqRec(minted')
  <1>1. /\ minted' = minted + 1 /\ minted \in Nat /\ minted + 1 \in 0..MaxMints
        /\ claim' = [claim EXCEPT ![minted + 1] = c]
    BY SessionsAssumption DEF SignAccess, TypeOK
  <1>2. 0..minted \subseteq 0..minted'
    BY <1>1
  <1>3. FlightRec(minted) \subseteq FlightRec(minted')
    BY <1>2 DEF FlightRec
  <1>4. ReqRec(minted) \subseteq ReqRec(minted')
    BY <1>2 DEF ReqRec
  <1> QED BY <1>1, <1>2, <1>3, <1>4, SessionsAssumption DEF TypeOK

LEMMA InitType == Init => TypeOK
  BY SessionsAssumption DEF Init, TypeOK, Idle, NoFlight, NoRequest, Kinds, Exempt, Guarded, Public

LEMMA EndedType ==
    ASSUME TypeOK, NEW t \in Tokens
    PROVE  Ended(t) \in SessionRec /\ Ended(t).state # "active" /\ Ended(t).password = session[t].password
  BY TypeParts DEF Ended, SessionRec

LEMMA EmptyTries == <<>> \in Tries
  BY DEF Tries

LEMMA NoRequestType == \A n \in Nat : NoRequest \in ReqRec(n)
  BY EmptyTries DEF NoRequest, ReqRec, Kinds, Exempt, Guarded, Public

LEMMA OverType ==
    ASSUME NEW n \in Nat, NEW q \in ReqRec(n)
    PROVE  /\ Over(q) \in ReqRec(n)
           /\ Over(q).pc = "ended"
           /\ Over(q).status = 403 => q.status = 403 /\ Over(q).began = q.began /\ Over(q).heal = q.heal
  <1>1. q.began \in BOOLEAN /\ q.heal \in {"none", "own", "joined", "failed"}
    BY DEF ReqRec
  <1>2. CASE q.status = 403
    <2> DEFINE q1 == [NoRequest EXCEPT !.pc = "ended"]
               q2 == [q1 EXCEPT !.status = 403]
               q3 == [q2 EXCEPT !.began = q.began]
               q4 == [q3 EXCEPT !.heal = q.heal]
    <2>1. Over(q) = q4
      BY <1>2 DEF Over
    <2>2. q1 \in ReqRec(n) /\ q1.pc = "ended"
      BY NoRequestType DEF ReqRec
    <2>3. q2 \in ReqRec(n) /\ q2.pc = "ended"
      <3> HIDE DEF q1
      <3> QED BY <2>2 DEF ReqRec
    <2>4. q3 \in ReqRec(n) /\ q3.pc = "ended" /\ q3.began = q.began
      <3> HIDE DEF q2
      <3> QED BY <1>1, <2>3 DEF ReqRec
    <2>5. q4 \in ReqRec(n) /\ q4.pc = "ended" /\ q4.began = q.began /\ q4.heal = q.heal
      <3> HIDE DEF q3
      <3> QED BY <1>1, <2>4 DEF ReqRec
    <2> HIDE DEF q4
    <2> QED BY <1>2, <2>1, <2>5
  <1>3. CASE q.status # 403
    <2>1. Over(q) = [pc |-> "ended", kind |-> "calendar", tok |-> 0, status |-> 0,
                     again |-> FALSE, began |-> FALSE, heal |-> "none", tries |-> <<>>]
      BY <1>3 DEF Over, NoRequest
    <2> QED BY <2>1, EmptyTries DEF ReqRec, Kinds, Exempt, Guarded, Public
  <1> QED BY <1>2, <1>3

LEMMA FlightType ==
    ASSUME TypeOK
    PROVE  /\ NoFlight \in FlightRec(minted) /\ StartFlight \in FlightRec(minted)
           /\ NoFlight.pc = "none" /\ StartFlight.pc = "sent" /\ StartFlight.got = 0
  BY SessionsAssumption DEF TypeOK, NoFlight, StartFlight, FlightRec
-----------------------------------------------------------------------------
(* Type correctness, an action at a time.                                  *)

LEMMA LoginTypes ==
    ASSUME TypeOK, NEW l \in Logins,
           SignupCreate(l) \/ LoginVerify(l) \/ LoginStore(l) \/ LoginReply(l) \/ LoginFails(l)
    PROVE  TypeOK'
  <1> USE TypeParts, TypePartsPrimed, SessionsAssumption
  <1>1. Idle \in LoginRec
    BY DEF Idle, LoginRec
  <1>2. CASE SignupCreate(l)
    <2>1. [Idle EXCEPT !.pc = "verified"] \in LoginRec
      BY <1>1 DEF LoginRec
    <2>2. account' \in Account
      BY <1>2 DEF SignupCreate, Account
    <2>3. login' \in [Logins -> LoginRec]
      BY <1>2, <2>1 DEF SignupCreate
    <2> QED BY <1>2, <2>2, <2>3 DEF SignupCreate, signing, client
  <1>3. CASE LoginVerify(l)
    <2>1. account.password \in 0..MaxResets /\ account.confirmed \in BOOLEAN
      BY DEF Account
    <2>2. [Idle EXCEPT !.pc = "verified", !.password = account.password,
                       !.confirmed = account.confirmed] \in LoginRec
      BY <1>1, <2>1 DEF LoginRec
    <2> QED BY <1>3, <2>2 DEF LoginVerify, signing, client
  <1>4. CASE LoginStore(l)
    <2>1. PICK t \in Tokens :
            /\ session' = [session EXCEPT ![t] = [state |-> "active", password |-> login[l].password]]
            /\ login' = [login EXCEPT ![l].pc = "stored", ![l].token = t]
            /\ late' = IF login[l].password = account.password THEN late ELSE late \cup {t}
            /\ UNCHANGED <<account, signing, stale, client>>
      BY <1>4 DEF LoginStore
    <2>2. login[l].password \in 0..MaxResets /\ login[l] \in LoginRec
      BY DEF LoginRec
    <2>3. session' \in [Tokens -> SessionRec]
      BY <2>1, <2>2 DEF SessionRec
    <2>4. login' \in [Logins -> LoginRec]
      <3>1. [login[l] EXCEPT !.pc = "stored", !.token = t] \in LoginRec
        BY <2>2 DEF LoginRec
      <3> QED BY <2>1, <3>1
    <2> QED BY <2>1, <2>3, <2>4 DEF signing, client
  <1>5. CASE LoginReply(l)
    <2>1. login[l].confirmed \in BOOLEAN /\ login[l].token \in Tokens \cup {NoToken}
      BY DEF LoginRec
    <2>2. login' \in [Logins -> LoginRec]
      BY <1>1, <1>5 DEF LoginReply
    <2>3. SignAccess(login[l].confirmed) /\ cookie' = login[l].token /\ access' = minted + 1
          /\ UNCHANGED <<account, session, stale, flight, req, late>>
      BY <1>5 DEF LoginReply
    <2>4. /\ minted' = minted + 1 /\ minted' \in 0..MaxMints /\ stale \in 0..minted'
          /\ claim' \in [1..MaxMints -> BOOLEAN]
          /\ flight \in FlightRec(minted') /\ req \in [Requests -> ReqRec(minted')]
      BY <2>1, <2>3, MintType
    <2>5. access' \in 0..minted'
      BY <2>3, <2>4
    <2> QED BY <2>1, <2>2, <2>3, <2>4, <2>5
  <1>6. CASE LoginFails(l)
    BY <1>1, <1>6 DEF LoginFails, signing, client
  <1> QED BY <1>2, <1>3, <1>4, <1>5, <1>6

LEMMA MailboxTypes ==
    ASSUME TypeOK, Confirm \/ ResetPassword \/ TokenExpires \/ (\E t \in Tokens : SessionExpires(t))
    PROVE  TypeOK'
  <1> USE TypeParts, TypePartsPrimed
  <1>1. CASE Confirm
    BY <1>1 DEF Confirm, Account, signing, client
  <1>2. CASE ResetPassword
    <2>1. account' \in Account
      <3>1. account.password + 1 \in 0..MaxResets
        BY <1>2, SessionsAssumption DEF ResetPassword, Account
      <3> QED BY <1>2, <3>1 DEF ResetPassword, Account
    <2>2. session' \in [Tokens -> SessionRec]
      BY <1>2, EndedType DEF ResetPassword, Revoked
    <2> QED BY <1>2, <2>1, <2>2 DEF ResetPassword, signing, client
  <1>3. CASE TokenExpires
    BY <1>3, SessionsAssumption DEF TokenExpires, signing, client
  <1>4. ASSUME NEW t \in Tokens, SessionExpires(t) PROVE TypeOK'
    <2>1. [session[t] EXCEPT !.state = "ended"] \in SessionRec
      BY DEF SessionRec
    <2>2. session' \in [Tokens -> SessionRec]
      BY <1>4, <2>1 DEF SessionExpires
    <2> QED BY <1>4, <2>2 DEF SessionExpires, signing, client
  <1> QED BY <1>1, <1>2, <1>3, <1>4

LEMMA RefreshTypes ==
    ASSUME TypeOK, Refresh \/ RefreshFails \/ RefreshSession
    PROVE  TypeOK'
  <1> USE TypeParts, TypePartsPrimed
  <1>1. CASE Refresh
    <2>1. /\ flight.pc = "sent" /\ flight.token \in Tokens \cup {NoToken}
          /\ SignAccess(account.confirmed)
          /\ flight' = [flight EXCEPT !.pc = "answered", !.got = minted + 1]
          /\ UNCHANGED <<account, session, login, stale, cookie, access, req, late>>
      BY <1>1 DEF Refresh, RefreshClaim, FlightRec
    <2>2. account.confirmed \in BOOLEAN
      BY DEF Account
    <2>3. /\ minted' = minted + 1 /\ minted' \in 0..MaxMints /\ stale \in 0..minted'
          /\ access \in 0..minted' /\ claim' \in [1..MaxMints -> BOOLEAN]
          /\ flight \in FlightRec(minted') /\ req \in [Requests -> ReqRec(minted')]
      BY <2>1, <2>2, MintType
    <2>4. flight' \in FlightRec(minted')
      <3>1. flight' = [pc |-> "answered", token |-> flight.token, got |-> minted + 1]
        BY <2>1 DEF FlightRec
      <3> QED BY <2>1, <2>3, <3>1 DEF FlightRec
    <2> QED BY <2>1, <2>3, <2>4
  <1>2. CASE RefreshFails
    <2>1. flight' \in FlightRec(minted)
      BY <1>2 DEF RefreshFails, FlightRec
    <2> QED BY <1>2, <2>1 DEF RefreshFails, signing
  <1>3. CASE RefreshSession
    BY <1>3, FlightType DEF RefreshSession, signing
  <1> QED BY <1>1, <1>2, <1>3

\* What the promise makes of a request that awaits it.
Resumed(q, n) == [q EXCEPT !.pc = "sent", !.tok = n, !.status = 0, !.again = (q.status = 401)]
Refused(q) == Over([q EXCEPT !.heal = "failed"])
Rejected(q) == Over([q EXCEPT !.status = 500, !.heal = "failed"])

LEMMA ResumedType ==
    ASSUME NEW n \in Nat, NEW q \in ReqRec(n), NEW k \in 0..n
    PROVE  /\ Resumed(q, k) \in ReqRec(n)
           /\ Resumed(q, k).pc = "sent" /\ Resumed(q, k).tok = k /\ Resumed(q, k).status = 0
           /\ Resumed(q, k).heal = q.heal /\ Resumed(q, k).began = q.began
  <1> DEFINE q1 == [q EXCEPT !.pc = "sent"]
             q2 == [q1 EXCEPT !.tok = k]
             q3 == [q2 EXCEPT !.status = 0]
             again == q.status = 401
  <1>1. q1 \in ReqRec(n)
    BY DEF ReqRec
  <1>2. q2 \in ReqRec(n)
    <2> HIDE DEF q1
    <2> QED BY <1>1 DEF ReqRec
  <1>3. q3 \in ReqRec(n)
    <2> HIDE DEF q2
    <2> QED BY <1>2 DEF ReqRec
  <1>4. again \in BOOLEAN
    OBVIOUS
  <1>5. [q3 EXCEPT !.again = again] \in ReqRec(n)
    <2> HIDE DEF q3, again
    <2> QED BY <1>3, <1>4 DEF ReqRec
  <1>6. Resumed(q, k) \in ReqRec(n)
    BY <1>5 DEF Resumed
  <1>7. /\ Resumed(q, k).pc = "sent" /\ Resumed(q, k).tok = k /\ Resumed(q, k).status = 0
        /\ Resumed(q, k).heal = q.heal /\ Resumed(q, k).began = q.began
    BY DEF Resumed, ReqRec
  <1> QED BY <1>6, <1>7

LEMMA RefusedType ==
    ASSUME NEW n \in Nat, NEW q \in ReqRec(n)
    PROVE  /\ Refused(q) \in ReqRec(n) /\ Refused(q).pc = "ended"
           /\ Refused(q).status = 403 => Refused(q).heal = "failed"
           /\ Refused(q).began => q.began
           /\ Rejected(q) \in ReqRec(n) /\ Rejected(q).pc = "ended"
           /\ Rejected(q).status # 403
           /\ Rejected(q).began => q.began
  <1> DEFINE f == [q EXCEPT !.heal = "failed"]
             g == [q EXCEPT !.status = 500, !.heal = "failed"]
  <1>1. f \in ReqRec(n)
    BY DEF ReqRec
  <1>2. [q EXCEPT !.status = 500] \in ReqRec(n)
    BY DEF ReqRec
  <1>3. g \in ReqRec(n)
    <2> DEFINE h == [q EXCEPT !.status = 500]
    <2>1. h \in ReqRec(n)
      BY <1>2
    <2>2. [h EXCEPT !.heal = "failed"] \in ReqRec(n)
      <3> HIDE DEF h
      <3> QED BY <2>1 DEF ReqRec
    <2> QED BY <2>2
  <1>4. f.heal = "failed" /\ f.began = q.began /\ g.status = 500 /\ g.began = q.began
    BY DEF ReqRec
  <1>5. /\ Over(f) \in ReqRec(n) /\ Over(f).pc = "ended"
        /\ Over(f).status = 403 => Over(f).heal = "failed"
        /\ Over(g) \in ReqRec(n) /\ Over(g).pc = "ended" /\ Over(g).status # 403
    <2> HIDE DEF f, g
    <2> QED BY <1>1, <1>3, <1>4, OverType
  <1>6. (Over(f).began => q.began) /\ (Over(g).began => q.began)
    <2> HIDE DEF f, g
    <2> QED BY <1>4 DEF Over, NoRequest
  <1> QED BY <1>5, <1>6 DEF Refused, Rejected

\* The two ends of a refresh, said with the operators above.
LEMMA SettlesShape ==
    ASSUME RefreshSettles
    PROVE  /\ flight.pc = "answered" /\ flight' = NoFlight
           /\ access' = IF flight.got # 0 THEN flight.got ELSE access
           /\ req' = [r \in Requests |->
                         IF r \notin Waiting THEN req[r]
                         ELSE IF flight.got # 0 THEN Resumed(req[r], flight.got) ELSE Refused(req[r])]
           /\ UNCHANGED <<account, session, login, signing, stale, cookie, late>>
  BY DEF RefreshSettles, Settled, Resumed, Refused

LEMMA LostShape ==
    ASSUME RefreshLost
    PROVE  /\ flight' = NoFlight
           /\ req' = [r \in Requests |-> IF r \in Waiting THEN Rejected(req[r]) ELSE req[r]]
           /\ UNCHANGED <<account, session, login, signing, stale, cookie, access, late>>
  BY DEF RefreshLost, Settled, Rejected

LEMMA EndOfFlightTypes ==
    ASSUME TypeOK, RefreshSettles \/ RefreshLost
    PROVE  TypeOK'
  <1> USE TypeParts, TypePartsPrimed
  <1>1. minted \in Nat /\ flight.got \in 0..minted
    BY SessionsAssumption DEF FlightRec
  <1>2. CASE RefreshSettles
    <2>1. \A r \in Requests : /\ Resumed(req[r], flight.got) \in ReqRec(minted)
                              /\ Refused(req[r]) \in ReqRec(minted)
      BY <1>1, ResumedType, RefusedType
    <2>2. req' \in [Requests -> ReqRec(minted)]
      BY <1>2, <2>1, SettlesShape
    <2> QED BY <1>1, <1>2, <2>2, SettlesShape, FlightType DEF signing
  <1>3. CASE RefreshLost
    <2>1. \A r \in Requests : Rejected(req[r]) \in ReqRec(minted)
      BY <1>1, RefusedType
    <2>2. req' \in [Requests -> ReqRec(minted)]
      BY <1>3, <2>1, LostShape
    <2> QED BY <1>3, <2>2, LostShape, FlightType DEF signing
  <1> QED BY <1>2, <1>3

\* What Begin, Serve and ReceiveRetry make of a request.
Begun(kind) == [NoRequest EXCEPT !.pc = "sent", !.kind = kind, !.tok = access, !.began = account.confirmed]
Answered(q, status) == [q EXCEPT !.pc = "answered", !.tok = 0, !.status = status]
Awaiting(q) == [q EXCEPT !.pc = "waiting", !.heal = Heals(q), !.tries = Append(@, q.status)]

LEMMA BegunType ==
    ASSUME TypeOK, NEW kind \in Kinds
    PROVE  /\ Begun(kind) \in ReqRec(minted) /\ Begun(kind).pc = "sent"
           /\ Begun(kind).heal = "none" /\ Begun(kind).began = account.confirmed
  <1>1. access \in 0..minted /\ account.confirmed \in BOOLEAN /\ 0 \in 0..minted
    BY SessionsAssumption DEF TypeOK
  <1> DEFINE q1 == [NoRequest EXCEPT !.pc = "sent"]
             q2 == [q1 EXCEPT !.kind = kind]
             q3 == [q2 EXCEPT !.tok = access]
             n == minted
  <1>2. n \in Nat /\ NoRequest \in ReqRec(n)
    BY SessionsAssumption, NoRequestType DEF TypeOK
  <1>3. q1 \in ReqRec(n)
    BY <1>2 DEF ReqRec
  <1>4. q2 \in ReqRec(n)
    <2> HIDE DEF q1
    <2> QED BY <1>2, <1>3 DEF ReqRec
  <1>5. q3 \in ReqRec(n)
    <2> HIDE DEF q2
    <2> QED BY <1>1, <1>2, <1>4 DEF ReqRec
  <1>6. [q3 EXCEPT !.began = account.confirmed] \in ReqRec(n)
    <2> HIDE DEF q3
    <2> QED BY <1>1, <1>2, <1>5 DEF ReqRec
  <1>7. Begun(kind) \in ReqRec(minted)
    BY <1>6 DEF Begun
  <1>8. Begun(kind).pc = "sent" /\ Begun(kind).heal = "none" /\ Begun(kind).began = account.confirmed
    BY DEF Begun, NoRequest
  <1> QED BY <1>7, <1>8

LEMMA AnsweredType ==
    ASSUME NEW n \in Nat, NEW q \in ReqRec(n), NEW status \in {200, 401, 403, 500}
    PROVE  /\ Answered(q, status) \in ReqRec(n) /\ Answered(q, status).pc = "answered"
           /\ Answered(q, status).status = status
           /\ Answered(q, status).heal = q.heal /\ Answered(q, status).began = q.began
  <1> DEFINE q1 == [q EXCEPT !.pc = "answered"]
             q2 == [q1 EXCEPT !.tok = 0]
  <1>1. q1 \in ReqRec(n)
    BY DEF ReqRec
  <1>2. q2 \in ReqRec(n)
    <2> HIDE DEF q1
    <2>1. 0 \in 0..n
      OBVIOUS
    <2> QED BY <1>1, <2>1 DEF ReqRec
  <1>3. [q2 EXCEPT !.status = status] \in ReqRec(n)
    <2> HIDE DEF q2
    <2>1. status \in {0, 200, 401, 403, 500}
      OBVIOUS
    <2> QED BY <1>2, <2>1 DEF ReqRec
  <1>4. Answered(q, status) \in ReqRec(n)
    BY <1>3 DEF Answered
  <1>5. /\ Answered(q, status).pc = "answered" /\ Answered(q, status).status = status
        /\ Answered(q, status).heal = q.heal /\ Answered(q, status).began = q.began
    BY DEF Answered, ReqRec
  <1> QED BY <1>4, <1>5

LEMMA AwaitingType ==
    ASSUME NEW n \in Nat, NEW q \in ReqRec(n), Retries(q)
    PROVE  /\ Awaiting(q) \in ReqRec(n) /\ Awaiting(q).pc = "waiting"
           /\ Awaiting(q).heal = Heals(q) /\ Awaiting(q).began = q.began
           /\ Awaiting(q).status = q.status /\ Awaiting(q).tries = Append(q.tries, q.status)
  <1> DEFINE q1 == [q EXCEPT !.pc = "waiting"]
             heal == Heals(q)
             q2 == [q1 EXCEPT !.heal = heal]
             tries == Append(q.tries, q.status)
  <1>1. q1 \in ReqRec(n)
    BY DEF ReqRec
  <1>2. heal \in {"none", "own", "joined", "failed"}
    BY DEF Heals, ReqRec
  <1>3. q2 \in ReqRec(n)
    <2> HIDE DEF q1, heal
    <2> QED BY <1>1, <1>2 DEF ReqRec
  <1>4. tries \in Tries
    <2>1. q.status \in {401, 403} /\ q.tries \in Tries
      BY DEF Retries, ReqRec
    <2> QED BY <2>1 DEF Tries
  <1>5. [q2 EXCEPT !.tries = tries] \in ReqRec(n)
    <2> HIDE DEF q2, tries
    <2> QED BY <1>3, <1>4 DEF ReqRec
  <1>6. Awaiting(q) \in ReqRec(n)
    BY <1>5 DEF Awaiting
  <1>7. /\ Awaiting(q).pc = "waiting" /\ Awaiting(q).heal = Heals(q) /\ Awaiting(q).began = q.began
        /\ Awaiting(q).status = q.status /\ Awaiting(q).tries = Append(q.tries, q.status)
    <2> HIDE DEF heal, tries
    <2> QED BY DEF Awaiting, ReqRec
  <1> QED BY <1>6, <1>7

LEMMA AnswerStatus == \A kind, n : Answer(kind, n) \in {200, 401, 403, 500}
  BY DEF Answer

\* What a handler does leaves well-formed tables, and confirms nobody.
LEMMA EffectType ==
    ASSUME TypeOK, NEW kind \in Kinds, Effect(kind)
    PROVE  /\ account' \in Account /\ account'.confirmed = account.confirmed
           /\ account'.password = account.password
           /\ session' \in [Tokens -> SessionRec]
           /\ \A t \in Tokens : session'[t] = session[t] \/ session'[t].state # "active"
           /\ cookie' \in Tokens \cup {NoToken}
  <1> USE TypeParts
  <1>1. CASE kind = "delete"
    <2>1. /\ account' = [account EXCEPT !.state = "deleted"]
          /\ session' = [t \in Tokens |-> Ended(t)]
          /\ cookie' = NoToken
      BY <1>1 DEF Effect
    <2>2. account' \in Account /\ account'.confirmed = account.confirmed /\ account'.password = account.password
      BY <2>1 DEF Account
    <2> QED BY <2>1, <2>2, EndedType
  <1>2. CASE kind = "logout"
    <2>1. /\ session' \in {session} \cup
                (IF cookie = NoToken THEN {} ELSE {[session EXCEPT ![cookie] = Ended(cookie)]})
          /\ cookie' = NoToken
          /\ UNCHANGED account
      BY <1>2 DEF Effect
    <2>2. session' = session \/ (cookie \in Tokens /\ session' = [session EXCEPT ![cookie] = Ended(cookie)])
      BY <2>1
    <2> QED BY <2>1, <2>2, EndedType
  <1>3. CASE kind \notin {"delete", "logout"}
    <2>1. UNCHANGED <<account, session, cookie>>
      BY <1>3 DEF Effect
    <2> QED BY <2>1
  <1> QED BY <1>1, <1>2, <1>3

\* Serve, with the status it answers and what it does.
LEMMA ServeShape ==
    ASSUME TypeOK, NEW r \in Requests, Serve(r)
    PROVE  LET status == Answer(req[r].kind, req[r].tok)
           IN  /\ req[r].pc = "sent"
               /\ req' = [req EXCEPT ![r] = Answered(req[r], status)]
               /\ Effect(req[r].kind) \/ UNCHANGED <<account, session, cookie>>
               /\ UNCHANGED <<login, signing, stale, access, flight, late>>
  BY DEF Serve, Answered

LEMMA FailShape ==
    ASSUME NEW r \in Requests, ServeFails(r)
    PROVE  /\ req' = [req EXCEPT ![r] = Answered(req[r], 500)]
           /\ UNCHANGED <<account, session, login, signing, stale, cookie, access, flight, late>>
  <1>1. \A n : [req EXCEPT ![r].pc = "answered", ![r].tok = 0, ![r].status = n]
                   = [req EXCEPT ![r] = Answered(req[r], n)]
    BY DEF Answered
  <1>2. req' = [req EXCEPT ![r].pc = "answered", ![r].tok = 0, ![r].status = 500]
    BY DEF ServeFails
  <1>3. [req EXCEPT ![r].pc = "answered", ![r].tok = 0, ![r].status = 500]
            = [req EXCEPT ![r] = Answered(req[r], 500)]
    BY <1>1
  <1>4. UNCHANGED <<account, session, login, signing, stale, cookie, access, flight, late>>
    BY DEF ServeFails
  <1> QED BY <1>2, <1>3, <1>4

LEMMA RequestTypes ==
    ASSUME TypeOK, NEW r \in Requests,
           \/ \E kind \in Kinds : Begin(r, kind)
           \/ Serve(r) \/ ServeFails(r) \/ ReceiveRetry(r) \/ ReceiveEnd(r)
    PROVE  TypeOK'
  <1> USE TypeParts, TypePartsPrimed
  <1>1. req[r] \in ReqRec(minted) /\ minted \in Nat /\ req[r].kind \in Kinds
    BY SessionsAssumption DEF ReqRec
  <1>2. ASSUME NEW kind \in Kinds, Begin(r, kind) PROVE TypeOK'
    <2>1. req' = [req EXCEPT ![r] = Begun(kind)]
      BY <1>2 DEF Begin, Begun
    <2>2. req' \in [Requests -> ReqRec(minted)]
      BY <2>1, BegunType
    <2> QED BY <1>2, <2>2 DEF Begin, signing
  <1>3. CASE Serve(r)
    <2> DEFINE status == Answer(req[r].kind, req[r].tok)
    <2>1. /\ req' = [req EXCEPT ![r] = Answered(req[r], status)]
          /\ Effect(req[r].kind) \/ UNCHANGED <<account, session, cookie>>
          /\ UNCHANGED <<login, signing, stale, access, flight, late>>
      BY <1>3, ServeShape
    <2>2. status \in {200, 401, 403, 500}
      BY AnswerStatus
    <2>3. req' \in [Requests -> ReqRec(minted)]
      <3> HIDE DEF status
      <3> QED BY <1>1, <2>1, <2>2, AnsweredType
    <2>4. account' \in Account /\ session' \in [Tokens -> SessionRec] /\ cookie' \in Tokens \cup {NoToken}
      BY <1>1, <2>1, EffectType
    <2> QED BY <2>1, <2>3, <2>4 DEF signing
  <1>4. CASE ServeFails(r)
    <2>1. req' = [req EXCEPT ![r] = Answered(req[r], 500)]
      BY <1>4, FailShape
    <2>2. req' \in [Requests -> ReqRec(minted)]
      BY <1>1, <2>1, AnsweredType
    <2> QED BY <1>4, <2>2 DEF ServeFails, signing
  <1>5. CASE ReceiveRetry(r)
    <2>1. req' = [req EXCEPT ![r] = Awaiting(req[r])] /\ Retries(req[r])
      BY <1>5 DEF ReceiveRetry, Awaiting
    <2>2. req' \in [Requests -> ReqRec(minted)]
      BY <1>1, <2>1, AwaitingType
    <2> QED BY <1>5, <2>2, FlightType DEF ReceiveRetry, signing
  <1>6. CASE ReceiveEnd(r)
    <2>1. req' \in [Requests -> ReqRec(minted)]
      BY <1>1, <1>6, OverType DEF ReceiveEnd
    <2>2. access' \in 0..minted
      BY <1>1, <1>6 DEF ReceiveEnd
    <2> QED BY <1>6, <2>1, <2>2 DEF ReceiveEnd, signing
  <1> QED BY <1>2, <1>3, <1>4, <1>5, <1>6

LEMMA NextType == TypeOK /\ [Next]_vars => TypeOK'
  <1> SUFFICES ASSUME TypeOK, [Next]_vars PROVE TypeOK'
    OBVIOUS
  <1>1. CASE Server
    BY <1>1, LoginTypes, MailboxTypes, RefreshTypes, RequestTypes DEF Server
  <1>2. CASE Tab
    BY <1>2, RefreshTypes, EndOfFlightTypes, RequestTypes DEF Tab
  <1>3. CASE UNCHANGED vars
    BY <1>3 DEF vars, TypeOK
  <1> QED BY <1>1, <1>2, <1>3 DEF Next

(* The tables, tokens and requests stay within their types: in particular  *)
(* every access token a tab or a refresh holds is one that was signed      *)
(* (auth.go Login, Refresh; client.ts doRefresh).                          *)
THEOREM SessionsType == Spec => []TypeOK
  BY InitType, NextType, PTL DEF Spec
-----------------------------------------------------------------------------
(* A request refreshes at most once for each refusal.                      *)

\* How far a request has come: what it has awaited before its first answer,
\* after a 401, and after a 403.
Tried(q) ==
    /\ q.pc \in {"sent", "answered"} =>
           IF q.heal = "none" THEN q.tries = IF q.again THEN <<401>> ELSE <<>>
           ELSE q.tries \in {<<403>>, <<401, 403>>}
    /\ q.pc = "waiting" =>
           \/ q.status = 401 /\ q.heal = "none" /\ q.tries = <<401>>
           \/ q.status = 403 /\ q.heal # "none" /\ q.tries \in {<<403>>, <<401, 403>>}
    /\ q.pc \in {"idle", "ended"} => q.tries = <<>>

TriedInv == \A r \in Requests : Tried(req[r])

LEMMA TriedOnce == TypeOK /\ TriedInv => RefreshesOnceForEach
  <1> SUFFICES ASSUME TypeOK, TriedInv, NEW r \in Requests
               PROVE  req[r].tries \in {<<>>, <<401>>, <<403>>, <<401, 403>>}
    BY DEF RefreshesOnceForEach
  <1>1. req[r].pc \in {"idle", "sent", "answered", "waiting", "ended"}
    BY TypeParts DEF ReqRec
  <1> QED BY <1>1 DEF TriedInv, Tried

LEMMA Appends == Append(<<401>>, 403) = <<401, 403>>
  <1> DEFINE s == Append(<<401>>, 403)
  <1>1. <<401>> \in Seq({401, 403})
    OBVIOUS
  <1>2. s \in Seq({401, 403}) /\ Len(s) = 2 /\ s[1] = 401 /\ s[2] = 403
    BY <1>1
  <1>3. \A t \in Seq({401, 403}) : Len(t) = 2 => t = <<t[1], t[2]>>
    OBVIOUS
  <1>4. s = <<s[1], s[2]>>
    <2> HIDE DEF s
    <2> QED BY <1>2, <1>3
  <1>5. s = <<401, 403>>
    <2> HIDE DEF s
    <2> QED BY <1>2, <1>4
  <1> QED BY <1>5

LEMMA AwaitingTried ==
    ASSUME NEW n \in Nat, NEW q \in ReqRec(n), Retries(q), q.pc = "answered", Tried(q)
    PROVE  Tried(Awaiting(q))
  <1>1. /\ Awaiting(q).pc = "waiting" /\ Awaiting(q).status = q.status
        /\ Awaiting(q).heal = Heals(q) /\ Awaiting(q).tries = Append(q.tries, q.status)
    BY AwaitingType
  <1>2. q.heal = "none" /\ q.tries = IF q.again THEN <<401>> ELSE <<>>
    BY DEF Retries, Tried
  <1>3. CASE q.status = 401
    <2>1. q.tries = <<>> /\ Heals(q) = "none"
      BY <1>2, <1>3 DEF Retries, Heals
    <2>2. Append(<<>>, 401) = <<401>>
      OBVIOUS
    <2> QED BY <1>1, <1>3, <2>1, <2>2 DEF Tried
  <1>4. CASE q.status = 403
    <2>1. Heals(q) # "none"
      BY <1>4 DEF Heals
    <2>2. Append(<<>>, 403) = <<403>>
      OBVIOUS
    <2>3. Append(q.tries, 403) \in {<<403>>, <<401, 403>>}
      BY <1>2, <2>2, Appends
    <2> QED BY <1>1, <1>4, <2>1, <2>3 DEF Tried
  <1> QED BY <1>3, <1>4 DEF Retries

\* What else can happen to a request, one field at a time.
LEMMA TriedFields ==
    ASSUME NEW n \in Nat, NEW q \in ReqRec(n), Tried(q)
    PROVE  /\ \A k \in 0..n : q.pc = "waiting" => Tried(Resumed(q, k))
           /\ \A status \in {200, 401, 403, 500} : q.pc = "sent" => Tried(Answered(q, status))
           /\ Tried(Over(q)) /\ Tried(Refused(q)) /\ Tried(Rejected(q))
  <1>1. ASSUME NEW k \in 0..n, q.pc = "waiting" PROVE Tried(Resumed(q, k))
    <2> DEFINE p == Resumed(q, k)
    <2>1. /\ p.pc = "sent" /\ p.heal = q.heal /\ p.tries = q.tries
          /\ p.again = (q.status = 401)
      BY DEF Resumed, ReqRec
    <2>2. \/ q.status = 401 /\ q.heal = "none" /\ q.tries = <<401>>
          \/ q.status = 403 /\ q.heal # "none" /\ q.tries \in {<<403>>, <<401, 403>>}
      BY <1>1 DEF Tried
    <2> HIDE DEF p
    <2>3. IF p.heal = "none" THEN p.tries = IF p.again THEN <<401>> ELSE <<>>
          ELSE p.tries \in {<<403>>, <<401, 403>>}
      BY <2>1, <2>2, Zenon
    <2>4. Tried(p)
      BY <2>1, <2>3, Zenon DEF Tried
    <2> QED BY <2>4 DEF p
  <1>2. ASSUME NEW status \in {200, 401, 403, 500}, q.pc = "sent"
        PROVE  Tried(Answered(q, status))
    <2> DEFINE p == Answered(q, status)
    <2>1. p.pc = "answered" /\ p.heal = q.heal /\ p.tries = q.tries /\ p.again = q.again
      BY DEF Answered, ReqRec
    <2> HIDE DEF p
    <2> QED BY <1>2, <2>1 DEF Tried, p
  <1>3. \A p : Over(p).pc = "ended" /\ Over(p).tries = <<>>
    BY DEF Over, NoRequest
  <1>4. \A p : Tried(Over(p))
    BY <1>3 DEF Tried
  <1> QED BY <1>1, <1>2, <1>4 DEF Refused, Rejected

LEMMA NextTried == TypeOK /\ TriedInv /\ [Next]_vars => TriedInv'
  <1> SUFFICES ASSUME TypeOK, TriedInv, [Next]_vars PROVE TriedInv'
    OBVIOUS
  <1>1. /\ minted \in Nat /\ flight.got \in 0..minted /\ DOMAIN req = Requests
        /\ \A r \in Requests : req[r] \in ReqRec(minted) /\ Tried(req[r])
    BY SessionsAssumption, TypeParts DEF FlightRec, TriedInv
  <1>2. ASSUME \A r \in Requests : Tried(req'[r]) PROVE TriedInv'
    BY <1>2 DEF TriedInv, Tried
  <1>3. CASE req' = req
    BY <1>1, <1>2, <1>3
  <1>4. ASSUME NEW r \in Requests, NEW q, req' = [req EXCEPT ![r] = q], Tried(q)
        PROVE  TriedInv'
    BY <1>1, <1>2, <1>4
  <1>5. CASE RefreshSettles
    <2>1. ASSUME NEW r \in Requests PROVE Tried(req'[r])
      <3>1. req'[r] = IF r \notin Waiting THEN req[r]
                      ELSE IF flight.got # 0 THEN Resumed(req[r], flight.got) ELSE Refused(req[r])
        BY <1>5, SettlesShape
      <3> QED BY <1>1, <3>1, TriedFields DEF Waiting
    <2> QED BY <1>2, <2>1
  <1>6. CASE RefreshLost
    <2>1. ASSUME NEW r \in Requests PROVE Tried(req'[r])
      <3>1. req'[r] = IF r \in Waiting THEN Rejected(req[r]) ELSE req[r]
        BY <1>6, LostShape
      <3> QED BY <1>1, <3>1, TriedFields
    <2> QED BY <1>2, <2>1
  <1>7. ASSUME NEW r \in Requests, NEW kind \in Kinds, Begin(r, kind) PROVE TriedInv'
    <2>1. req' = [req EXCEPT ![r] = Begun(kind)]
      BY <1>7 DEF Begin, Begun
    <2>2. /\ Begun(kind).pc = "sent" /\ Begun(kind).heal = "none" /\ Begun(kind).again = FALSE
          /\ Begun(kind).tries = <<>>
      BY DEF Begun, NoRequest
    <2>3. Tried(Begun(kind))
      BY <2>2 DEF Tried
    <2> QED BY <1>4, <2>1, <2>3
  <1>8. ASSUME NEW r \in Requests, Serve(r) PROVE TriedInv'
    <2> DEFINE status == Answer(req[r].kind, req[r].tok)
    <2>1. req' = [req EXCEPT ![r] = Answered(req[r], status)] /\ req[r].pc = "sent"
      BY <1>8, ServeShape
    <2>2. status \in {200, 401, 403, 500}
      BY AnswerStatus
    <2> HIDE DEF status
    <2>3. Tried(Answered(req[r], status))
      BY <1>1, <2>1, <2>2, TriedFields
    <2> QED BY <1>4, <2>1, <2>3
  <1>9. ASSUME NEW r \in Requests, ServeFails(r) PROVE TriedInv'
    <2>1. req' = [req EXCEPT ![r] = Answered(req[r], 500)] /\ req[r].pc = "sent"
      BY <1>9, FailShape DEF ServeFails
    <2>2. Tried(Answered(req[r], 500))
      BY <1>1, <2>1, TriedFields
    <2> QED BY <1>4, <2>1, <2>2
  <1>10. ASSUME NEW r \in Requests, ReceiveRetry(r) PROVE TriedInv'
    <2>1. req' = [req EXCEPT ![r] = Awaiting(req[r])] /\ Retries(req[r]) /\ req[r].pc = "answered"
      BY <1>10 DEF ReceiveRetry, Awaiting
    <2>2. Tried(Awaiting(req[r]))
      BY <1>1, <2>1, AwaitingTried
    <2> QED BY <1>4, <2>1, <2>2
  <1>11. ASSUME NEW r \in Requests, ReceiveEnd(r) PROVE TriedInv'
    <2>1. req' = [req EXCEPT ![r] = Over(req[r])]
      BY <1>11 DEF ReceiveEnd
    <2> QED BY <1>1, <1>4, <2>1, TriedFields
  <1>12. CASE Server
    <2>1. CASE \/ Refresh \/ RefreshFails \/ Confirm \/ ResetPassword \/ TokenExpires
               \/ \E t \in Tokens : SessionExpires(t)
      BY <1>3, <2>1 DEF Refresh, RefreshFails, Confirm, ResetPassword, TokenExpires,
                        SessionExpires, client
    <2>2. ASSUME NEW l \in Logins,
                 SignupCreate(l) \/ LoginVerify(l) \/ LoginStore(l) \/ LoginReply(l) \/ LoginFails(l)
          PROVE  TriedInv'
      BY <1>3, <2>2 DEF SignupCreate, LoginVerify, LoginStore, LoginReply, LoginFails, client
    <2> QED BY <1>8, <1>9, <1>12, <2>1, <2>2 DEF Server
  <1>13. CASE Tab
    <2>1. CASE RefreshSession
      BY <1>3, <2>1 DEF RefreshSession
    <2> QED BY <1>5, <1>6, <1>7, <1>10, <1>11, <1>13, <2>1 DEF Tab
  <1>14. CASE UNCHANGED vars
    BY <1>3, <1>14 DEF vars
  <1> QED BY <1>12, <1>13, <1>14 DEF Next

(* Refreshing ends: whatever a request is answered, it awaits at most one  *)
(* refresh for a 401 and after it one for a 403, for any number of         *)
(* requests, tokens and shared refreshes (client.ts apiFetch, refresh).    *)
THEOREM RefreshingEnds == Spec => []RefreshesOnceForEach
  <1>1. Init => TriedInv
    BY DEF Init, TriedInv, Tried, NoRequest
  <1> QED BY <1>1, NextTried, TriedOnce, SessionsType, PTL DEF Spec
-----------------------------------------------------------------------------
(* A reset ends the sessions before it.                                    *)

LEMMA NextLate ==
    TypeOK /\ OnlyLateLoginsOutlive /\ [Next]_vars => OnlyLateLoginsOutlive'
  <1> SUFFICES ASSUME TypeOK, OnlyLateLoginsOutlive, [Next]_vars PROVE OnlyLateLoginsOutlive'
    OBVIOUS
  <1> USE TypeParts
  \* Every step but a login's insert only ends sessions, and a password changes
  \* only when all of them end.
  <1>1. ASSUME \A t \in Tokens : session'[t] = session[t] \/ session'[t].state # "active",
               account'.password = account.password, late' = late
        PROVE  OnlyLateLoginsOutlive'
    BY <1>1 DEF OnlyLateLoginsOutlive
  <1>2. ASSUME NEW l \in Logins, LoginStore(l) PROVE OnlyLateLoginsOutlive'
    <2>1. PICK t \in Tokens :
            /\ session' = [session EXCEPT ![t] = [state |-> "active", password |-> login[l].password]]
            /\ late' = IF login[l].password = account.password THEN late ELSE late \cup {t}
            /\ account' = account
      BY <1>2 DEF LoginStore
    <2> QED BY <2>1 DEF OnlyLateLoginsOutlive
  <1>3. CASE ResetPassword
    BY <1>3, EndedType DEF ResetPassword, Revoked, OnlyLateLoginsOutlive
  <1>4. ASSUME NEW t \in Tokens, SessionExpires(t) PROVE OnlyLateLoginsOutlive'
    <2>1. session'[t].state = "ended" /\ \A u \in Tokens \ {t} : session'[u] = session[u]
      BY <1>4 DEF SessionExpires, SessionRec
    <2> QED BY <1>1, <1>4, <2>1 DEF SessionExpires
  <1>5. ASSUME NEW r \in Requests, Serve(r) PROVE OnlyLateLoginsOutlive'
    <2>1. req[r].kind \in Kinds
      BY DEF ReqRec
    <2>2. late' = late /\ (Effect(req[r].kind) \/ UNCHANGED <<account, session, cookie>>)
      BY <1>5, ServeShape
    <2> QED BY <1>1, <2>1, <2>2, EffectType
  <1>6. CASE Server
    <2>1. ASSUME NEW l \in Logins, SignupCreate(l) \/ LoginVerify(l) \/ LoginReply(l) \/ LoginFails(l)
          PROVE  OnlyLateLoginsOutlive'
      BY <1>1, <2>1 DEF SignupCreate, LoginVerify, LoginReply, LoginFails, Account
    <2>2. CASE Confirm \/ TokenExpires \/ Refresh \/ RefreshFails
      BY <1>1, <2>2 DEF Confirm, TokenExpires, Refresh, RefreshFails, Account
    <2>3. ASSUME NEW r \in Requests, ServeFails(r) PROVE OnlyLateLoginsOutlive'
      BY <1>1, <2>3 DEF ServeFails
    <2> QED BY <1>2, <1>3, <1>4, <1>5, <1>6, <2>1, <2>2, <2>3 DEF Server
  <1>7. CASE Tab
    <2>1. UNCHANGED <<account, session, late>>
      BY <1>7, SettlesShape, LostShape DEF Tab, RefreshSession, Begin, ReceiveRetry, ReceiveEnd
    <2> QED BY <1>1, <2>1
  <1>8. CASE UNCHANGED vars
    BY <1>1, <1>8 DEF vars
  <1> QED BY <1>6, <1>7, <1>8 DEF Next

(* A reset signs the user out everywhere: the sessions of an older         *)
(* password that are still good are those of logins that had verified it   *)
(* before the reset and stored their row after it, for any number of       *)
(* logins and resets (auth.go Login, ResetPasswordWithToken).              *)
THEOREM ResetEndsSessions == Spec => []OnlyLateLoginsOutlive
  <1>1. Init => OnlyLateLoginsOutlive
    BY DEF Init, OnlyLateLoginsOutlive
  <1> QED BY <1>1, NextLate, SessionsType, PTL DEF Spec
-----------------------------------------------------------------------------
(* A refusal for want of confirmation heals.                               *)

\* The request started a refresh of its own after the account was confirmed.
Healing(r) == req[r].heal = "own" /\ req[r].began

\* The account is still confirmed; that refresh, when it has been answered,
\* brought a token that says so; the request is fetched again with it; and
\* RequireConfirmed lets it through.  No refusal is the last word before a
\* refresh was tried.
Heal(r) ==
    /\ req[r].began => account.confirmed
    /\ Healing(r) /\ req[r].pc = "waiting" /\ flight.got # 0 => claim[flight.got]
    /\ Healing(r) /\ req[r].pc = "sent" => req[r].tok # 0 /\ claim[req[r].tok]
    /\ Healing(r) /\ req[r].pc \in {"answered", "ended"} => req[r].status # 403
    /\ req[r].pc = "ended" /\ req[r].status = 403 => req[r].heal # "none"

HealInv == \A r \in Requests : Heal(r)

LEMMA HealImplies == TypeOK /\ HealInv => GateHeals
  <1> SUFFICES ASSUME TypeOK, HealInv, NEW r \in Requests,
                      req[r].pc = "ended", req[r].status = 403, req[r].began
               PROVE  req[r].heal \in {"joined", "failed"}
    BY DEF GateHeals
  <1>1. req[r].heal \in {"none", "own", "joined", "failed"}
    BY TypeParts DEF ReqRec
  <1> QED BY <1>1 DEF HealInv, Heal, Healing

\* A step that leaves the requests, the refresh and the claims alone, and
\* confirms or leaves the account as it was.
LEMMA HealKept ==
    ASSUME HealInv, UNCHANGED <<req, flight, claim>>, account.confirmed => account'.confirmed
    PROVE  HealInv'
  BY DEF HealInv, Heal, Healing

\* Signing another token keeps the claims of those there are.
LEMMA MintKeepsClaims ==
    ASSUME TypeOK, NEW c \in BOOLEAN, SignAccess(c)
    PROVE  /\ \A n \in 1..minted : claim'[n] = claim[n]
           /\ claim'[minted + 1] = c
  BY SessionsAssumption, TypeParts DEF SignAccess

LEMMA HealOthers ==
    ASSUME HealInv, NEW r \in Requests, NEW q, req' = [req EXCEPT ![r] = q],
           account.confirmed => account'.confirmed, UNCHANGED <<flight, claim>>, Heal(r)'
    PROVE  HealInv'
  <1>1. ASSUME NEW s \in Requests \ {r} PROVE Heal(s)'
    BY <1>1 DEF HealInv, Heal, Healing
  <1> QED BY <1>1 DEF HealInv

LEMMA ServerHeals ==
    ASSUME TypeOK, HealInv, Server
    PROVE  HealInv'
  <1>1. /\ account.confirmed \in BOOLEAN /\ account \in Account
        /\ minted \in Nat /\ flight \in FlightRec(minted) /\ flight.got \in 0..minted
        /\ \A r \in Requests : req[r] \in ReqRec(minted) /\ req[r].tok \in 0..minted /\ req[r].kind \in Kinds
        /\ DOMAIN req = Requests
    BY SessionsAssumption, TypeParts DEF Account, FlightRec, ReqRec
  <1>2. ASSUME NEW l \in Logins, SignupCreate(l) \/ LoginVerify(l) \/ LoginStore(l) \/ LoginFails(l)
        PROVE  HealInv'
    BY <1>1, <1>2, HealKept DEF SignupCreate, LoginVerify, LoginStore, LoginFails, client, signing, Account
  <1>3. ASSUME NEW l \in Logins, LoginReply(l) PROVE HealInv'
    <2>1. SignAccess(login[l].confirmed) /\ login[l].confirmed \in BOOLEAN
          /\ UNCHANGED <<account, flight, req>>
      BY <1>3, TypeParts DEF LoginReply, LoginRec
    <2>2. \A n \in 1..minted : claim'[n] = claim[n]
      BY <2>1, MintKeepsClaims
    <2>3. ASSUME NEW r \in Requests PROVE Heal(r)'
      <3>1. Heal(r) /\ req[r].tok \in 0..minted
        BY <1>1 DEF HealInv
      <3> QED BY <1>1, <2>1, <2>2, <3>1 DEF Heal, Healing
    <2> QED BY <2>3 DEF HealInv
  <1>4. CASE Confirm \/ ResetPassword \/ TokenExpires \/ \E t \in Tokens : SessionExpires(t)
    BY <1>1, <1>4, HealKept DEF Confirm, ResetPassword, TokenExpires, SessionExpires, client, signing, Account
  <1>5. CASE Refresh
    <2>1. /\ SignAccess(account.confirmed)
          /\ flight' = [flight EXCEPT !.pc = "answered", !.got = minted + 1]
          /\ UNCHANGED <<account, req>>
      BY <1>5 DEF Refresh, RefreshClaim
    <2>2. /\ \A n \in 1..minted : claim'[n] = claim[n]
          /\ claim'[minted + 1] = account.confirmed
      BY <1>1, <2>1, MintKeepsClaims
    <2>3. flight'.got = minted + 1
      BY <1>1, <2>1 DEF FlightRec
    <2>4. ASSUME NEW r \in Requests PROVE Heal(r)'
      <3>1. Heal(r) /\ req[r].tok \in 0..minted
        BY <1>1 DEF HealInv
      <3> QED BY <1>1, <2>1, <2>2, <2>3, <3>1 DEF Heal, Healing
    <2> QED BY <2>4 DEF HealInv
  <1>6. CASE RefreshFails
    <2>1. flight'.got = flight.got /\ UNCHANGED <<account, claim, req>>
      BY <1>1, <1>6 DEF RefreshFails, FlightRec, signing
    <2> QED BY <2>1 DEF HealInv, Heal, Healing
  <1>7. ASSUME NEW r \in Requests, Serve(r) PROVE HealInv'
    <2> DEFINE status == Answer(req[r].kind, req[r].tok)
    <2>1. /\ req[r].pc = "sent"
          /\ req' = [req EXCEPT ![r] = Answered(req[r], status)]
          /\ Effect(req[r].kind) \/ UNCHANGED <<account, session, cookie>>
          /\ UNCHANGED <<claim, flight>>
      BY <1>7, ServeShape DEF signing
    <2>2. account'.confirmed = account.confirmed
      BY <1>1, <2>1, EffectType
    <2>3. status \in {200, 401, 403, 500}
      BY AnswerStatus
    <2>4. Heal(r)
      BY DEF HealInv
    <2>5. status = 403 => ~claim[req[r].tok]
      BY DEF Answer
    <2>6. req'[r] = Answered(req[r], status)
      BY <1>1, <2>1
    <2> HIDE DEF status
    <2>7. /\ req'[r].pc = "answered" /\ req'[r].status = status
          /\ req'[r].heal = req[r].heal /\ req'[r].began = req[r].began
      BY <1>1, <2>3, <2>6, AnsweredType
    <2>8. Heal(r)'
      BY <2>1, <2>2, <2>4, <2>5, <2>7 DEF Heal, Healing
    <2> QED BY <2>1, <2>2, <2>8, HealOthers
  <1>8. ASSUME NEW r \in Requests, ServeFails(r) PROVE HealInv'
    <2>1. req' = [req EXCEPT ![r] = Answered(req[r], 500)] /\ UNCHANGED <<account, claim, flight>>
      BY <1>8, FailShape DEF signing
    <2>2. /\ req'[r].pc = "answered" /\ req'[r].status = 500
          /\ req'[r].heal = req[r].heal /\ req'[r].began = req[r].began
      BY <1>1, <2>1, AnsweredType
    <2>3. Heal(r)'
      BY <2>1, <2>2 DEF HealInv, Heal, Healing
    <2> QED BY <2>1, <2>3, HealOthers
  <1> QED BY <1>2, <1>3, <1>4, <1>5, <1>6, <1>7, <1>8 DEF Server

LEMMA TabHeals ==
    ASSUME TypeOK, HealInv, Tab
    PROVE  HealInv'
  <1>1. /\ minted \in Nat /\ flight.got \in 0..minted /\ DOMAIN req = Requests
        /\ \A r \in Requests : req[r] \in ReqRec(minted)
    BY SessionsAssumption, TypeParts DEF FlightRec
  <1>2. CASE RefreshSettles
    <2>1. UNCHANGED <<account, claim>> /\ flight' = NoFlight
      BY <1>2, SettlesShape DEF signing
    <2>2. ASSUME NEW r \in Requests \ Waiting PROVE Heal(r)'
      <3>1. req'[r] = req[r] /\ req[r].pc # "waiting"
        BY <1>2, <2>2, SettlesShape DEF Waiting
      <3> QED BY <2>1, <3>1 DEF HealInv, Heal, Healing
    <2>3. ASSUME NEW r \in Waiting PROVE Heal(r)'
      <3>1. r \in Requests /\ req[r].pc = "waiting" /\ req[r] \in ReqRec(minted) /\ Heal(r)
        BY <1>1 DEF Waiting, HealInv
      <3>2. CASE flight.got # 0
        <4>1. req'[r] = Resumed(req[r], flight.got)
          BY <1>2, <3>1, <3>2, SettlesShape
        <4>2. /\ req'[r].pc = "sent" /\ req'[r].tok = flight.got
              /\ req'[r].heal = req[r].heal /\ req'[r].began = req[r].began
          BY <1>1, <3>1, <4>1, ResumedType
        <4> QED BY <2>1, <3>1, <3>2, <4>2 DEF Heal, Healing
      <3>3. CASE flight.got = 0
        <4>1. req'[r] = Refused(req[r])
          BY <1>2, <3>1, <3>3, SettlesShape
        <4>2. /\ req'[r].pc = "ended" /\ req'[r].status = 403 => req'[r].heal = "failed"
              /\ req'[r].began => req[r].began
          BY <1>1, <3>1, <4>1, RefusedType
        <4>3. req'[r].pc = "ended"
          BY <1>1, <3>1, <4>1, RefusedType
        <4> QED BY <2>1, <3>1, <4>2, <4>3 DEF Heal, Healing
      <3> QED BY <3>2, <3>3
    <2> QED BY <2>2, <2>3 DEF HealInv
  <1>3. CASE RefreshLost
    <2>1. UNCHANGED <<account, claim>> /\ flight' = NoFlight
      BY <1>3, LostShape DEF signing
    <2>2. ASSUME NEW r \in Requests \ Waiting PROVE Heal(r)'
      <3>1. req'[r] = req[r] /\ req[r].pc # "waiting"
        BY <1>3, <2>2, LostShape DEF Waiting
      <3> QED BY <2>1, <3>1 DEF HealInv, Heal, Healing
    <2>3. ASSUME NEW r \in Waiting PROVE Heal(r)'
      <3>1. r \in Requests /\ req[r] \in ReqRec(minted) /\ Heal(r)
        BY <1>1 DEF Waiting, HealInv
      <3>2. req'[r] = Rejected(req[r])
        BY <1>3, <3>1, LostShape
      <3>3. req'[r].pc = "ended" /\ req'[r].status # 403 /\ (req'[r].began => req[r].began)
        BY <1>1, <3>1, <3>2, RefusedType
      <3> QED BY <2>1, <3>1, <3>3 DEF Heal, Healing
    <2> QED BY <2>2, <2>3 DEF HealInv
  <1>4. CASE RefreshSession
    BY <1>4, FlightType DEF RefreshSession, signing, HealInv, Heal, Healing
  <1>5. ASSUME NEW r \in Requests, NEW kind \in Kinds, Begin(r, kind) PROVE HealInv'
    <2>1. req' = [req EXCEPT ![r] = Begun(kind)] /\ UNCHANGED <<account, claim, flight>>
      BY <1>5 DEF Begin, Begun, signing
    <2>2. req'[r].pc = "sent" /\ req'[r].heal = "none" /\ req'[r].began = account.confirmed
      BY <1>1, <2>1, BegunType
    <2>3. Heal(r)'
      BY <2>1, <2>2 DEF Heal, Healing
    <2> QED BY <2>1, <2>3, HealOthers
  <1>6. ASSUME NEW r \in Requests, ReceiveRetry(r) PROVE HealInv'
    <2>1. /\ req[r].pc = "answered" /\ Retries(req[r])
          /\ req' = [req EXCEPT ![r] = Awaiting(req[r])]
          /\ flight' = IF flight = NoFlight THEN StartFlight ELSE flight
          /\ UNCHANGED <<account, claim>>
      BY <1>6 DEF ReceiveRetry, Awaiting, signing
    <2>2. req'[r].pc = "waiting" /\ req'[r].heal = Heals(req[r]) /\ req'[r].began = req[r].began
      BY <1>1, <2>1, AwaitingType
    <2>3. Heals(req[r]) = "own" => flight = NoFlight
      BY <2>1 DEF Heals, Retries
    <2>4. flight = NoFlight => flight'.got = 0
      BY <2>1, FlightType
    <2>5. Heal(r)'
      BY <2>1, <2>2, <2>3, <2>4 DEF HealInv, Heal, Healing
    <2>6. ASSUME NEW s \in Requests \ {r} PROVE Heal(s)'
      <3>1. req'[s] = req[s] /\ Heal(s)
        BY <2>1 DEF HealInv
      <3>2. flight' = flight \/ flight'.got = 0
        BY <2>1, <2>4
      <3> QED BY <2>1, <3>1, <3>2 DEF Heal, Healing
    <2> QED BY <2>5, <2>6 DEF HealInv
  <1>7. ASSUME NEW r \in Requests, ReceiveEnd(r) PROVE HealInv'
    <2>1. /\ req[r].pc = "answered" /\ ~Retries(req[r]) /\ req' = [req EXCEPT ![r] = Over(req[r])]
          /\ UNCHANGED <<account, claim, flight>>
      BY <1>7 DEF ReceiveEnd, signing
    <2>2. req'[r] = Over(req[r]) /\ Heal(r)
      BY <1>1, <2>1 DEF HealInv
    <2>3. /\ req'[r].pc = "ended"
          /\ req'[r].status = 403 => req[r].status = 403 /\ req'[r].began = req[r].began /\ req'[r].heal = req[r].heal
      BY <1>1, <2>2, OverType
    <2>4. req'[r].status = 403 => req[r].heal # "none"
      BY <2>1, <2>3 DEF Retries
    <2>5. req'[r].began => req[r].began
      BY <2>2 DEF Over, NoRequest
    <2>6. Heal(r)'
      BY <2>1, <2>2, <2>3, <2>4, <2>5 DEF Heal, Healing
    <2> QED BY <2>1, <2>6, HealOthers
  <1> QED BY <1>2, <1>3, <1>4, <1>5, <1>6, <1>7 DEF Tab

(* "Confirmation is monotonic, so a refresh always resolves it"            *)
(* (client.ts), for any number of requests that share refreshes: one begun *)
(* after the account was confirmed is refused for want of confirmation     *)
(* only when its refresh failed or was one already under way.              *)
THEOREM RefusalHeals == Spec => []GateHeals
  <1>1. Init => HealInv
    BY DEF Init, HealInv, Heal, Healing, NoRequest
  <1>2. TypeOK /\ HealInv /\ [Next]_vars => HealInv'
    <2>1. TypeOK /\ HealInv /\ UNCHANGED vars => HealInv'
      BY DEF vars, HealInv, Heal, Healing
    <2> QED BY <2>1, ServerHeals, TabHeals DEF Next
  <1> QED BY <1>1, <1>2, HealImplies, SessionsType, PTL DEF Spec
=============================================================================
