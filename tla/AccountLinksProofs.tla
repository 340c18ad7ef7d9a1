------------------------- MODULE AccountLinksProofs -------------------------
(***************************************************************************)
(* What the links of an account keep for any number of users of the        *)
(* address, tokens, requests at once, failures and submits.                *)
(***************************************************************************)
EXTENDS AccountLinks, TLAPS

\* No request is about a user that was never made.
KnownWho == \A r \in Requests : who[r] \in made \cup {None}

\* What is mailed was generated.
MailsMinted == \A r \in Requests :
    pc[r] \in {"mailConfirm", "mailReset"} => tok[r] \in minted

\* Past MarkUserConfirmed a request's user is confirmed, or deleted.
ConfirmedOrGone == \A r \in Requests :
    pc[r] \in {"consume", "welcome"} => who[r] \in confirmed \/ who[r] \notin users

\* The token in a user's row was minted for that user.
Owned(table) == \A u \in Users :
    table[u] # None => table[u].token \in minted /\ owner[table[u].token] = u

\* A request that is to confirm followed a good link of its user.
MarksFollowed == \A r \in Requests :
    pc[r] = "mark" => tok[r] \in followed /\ owner[tok[r]] = who[r]

\* Only what was minted has been spent.
SpentMinted == \A t \in Tokens : spent[t] # 0 => t \in minted

LinksInv == /\ KnownWho
            /\ MailsMinted
            /\ ConfirmedOrGone
            /\ Owned(confirms) /\ Owned(resets)
            /\ MarksFollowed
            /\ SpentMinted
            /\ ConsumedMeansConfirmed
            /\ OwnLinkConfirms
            /\ ResetExactlyOnce

LEMMA InitLinks == Init => TypeOK /\ LinksInv
  <1> SUFFICES ASSUME Init PROVE TypeOK /\ LinksInv
    OBVIOUS
  <1>1. TypeOK
    BY LinksAssumption DEF Init, TypeOK, Answers, Kinds
  <1>2. LinksInv
    BY LinksAssumption DEF Init, LinksInv, KnownWho, MailsMinted, ConfirmedOrGone, Owned, MarksFollowed,
       SpentMinted, ConsumedMeansConfirmed, OwnLinkConfirms, ResetExactlyOnce
  <1> QED BY <1>1, <1>2

LEMMA RowOf ==
    ASSUME NEW t \in Tokens, NEW b \in BOOLEAN, NEW c \in BOOLEAN
    PROVE  [token |-> t, expired |-> b, consumed |-> c] \in Row
  BY DEF Row

LEMMA RowWith ==
    ASSUME NEW row \in Row, NEW b \in BOOLEAN
    PROVE  /\ [row EXCEPT !.consumed = b] \in Row /\ [row EXCEPT !.expired = b] \in Row
           /\ [row EXCEPT !.consumed = b].consumed = b
           /\ [row EXCEPT !.consumed = b].token = row.token
           /\ [row EXCEPT !.expired = b].consumed = row.consumed
           /\ [row EXCEPT !.expired = b].token = row.token
  <1>1. [row EXCEPT !.consumed = b] \in Row
    BY DEF Row
  <1>2. [row EXCEPT !.expired = b] \in Row
    BY DEF Row
  <1> QED BY <1>1, <1>2 DEF Row

LEMMA FreshRow ==
    ASSUME NEW t \in Tokens
    PROVE  Fresh(t) \in Row /\ Fresh(t) # None /\ Fresh(t).token = t /\ ~Fresh(t).consumed
  <1>1. Fresh(t) \in Row
    BY RowOf DEF Fresh
  <1>2. Fresh(t).token = t /\ ~Fresh(t).consumed
    BY DEF Fresh
  <1> QED BY <1>1, <1>2, LinksAssumption

LEMMA ConsumedRow ==
    ASSUME NEW row \in Row
    PROVE  /\ [row EXCEPT !.consumed = TRUE] \in Row /\ [row EXCEPT !.consumed = TRUE] # None
           /\ [row EXCEPT !.consumed = TRUE].consumed
           /\ [row EXCEPT !.consumed = TRUE].token = row.token
  <1> DEFINE b == TRUE
  <1>1. b \in BOOLEAN /\ b
    OBVIOUS
  <1> HIDE DEF b
  <1>2. /\ [row EXCEPT !.consumed = b] \in Row
        /\ [row EXCEPT !.consumed = b].consumed = b
        /\ [row EXCEPT !.consumed = b].token = row.token
    BY <1>1, RowWith
  <1>3. [row EXCEPT !.consumed = b] # None
    BY <1>2, LinksAssumption
  <1> QED BY <1>1, <1>2, <1>3 DEF b

LEMMA ExpiredRow ==
    ASSUME NEW row \in Row
    PROVE  /\ [row EXCEPT !.expired = TRUE] \in Row /\ [row EXCEPT !.expired = TRUE] # None
           /\ [row EXCEPT !.expired = TRUE].consumed = row.consumed
           /\ [row EXCEPT !.expired = TRUE].token = row.token
  <1> DEFINE b == TRUE
  <1>1. b \in BOOLEAN /\ b
    OBVIOUS
  <1> HIDE DEF b
  <1>2. /\ [row EXCEPT !.expired = b] \in Row
        /\ [row EXCEPT !.expired = b].consumed = row.consumed
        /\ [row EXCEPT !.expired = b].token = row.token
    BY <1>1, RowWith
  <1>3. [row EXCEPT !.expired = b] # None
    BY <1>2, LinksAssumption
  <1> QED BY <1>1, <1>2, <1>3 DEF b

LEMMA LinksParts ==
    ASSUME LinksInv
    PROVE  /\ KnownWho /\ MailsMinted /\ ConfirmedOrGone
           /\ Owned(confirms) /\ Owned(resets) /\ MarksFollowed /\ SpentMinted
           /\ ConsumedMeansConfirmed /\ OwnLinkConfirms /\ ResetExactlyOnce
  BY DEF LinksInv

\* A step of one request, which is then at step s about user u and token t, and
\* may have followed a link.
LEMMA RequestStep ==
    ASSUME TypeOK, LinksInv, NEW r \in Requests, NEW s \in Answers \cup Steps,
           NEW u \in made \cup {None}, NEW t \in Tokens \cup {None},
           pc' = [pc EXCEPT ![r] = s],
           who' = [who EXCEPT ![r] = u],
           tok' = [tok EXCEPT ![r] = t],
           faults' \in 0..MaxFaults,
           UNCHANGED <<tables, owner, spent>>,
           followed \subseteq followed', followed' \subseteq minted,
           s \in {"mailConfirm", "mailReset"} => t \in minted,
           s \in {"consume", "welcome"} => u \in confirmed \/ u \notin users,
           s = "mark" => t \in followed' /\ owner[t] = u
    PROVE  TypeOK' /\ LinksInv'
  <1>1. UNCHANGED <<users, made, confirmed, confirms, resets, minted, mailed>>
    BY DEF tables
  <1>2. TypeOK'
    BY <1>1 DEF TypeOK
  <1>3. KnownWho'
    BY <1>1 DEF TypeOK, LinksInv, KnownWho
  <1>4. MailsMinted'
    BY <1>1 DEF TypeOK, LinksInv, MailsMinted
  <1>5. ConfirmedOrGone'
    BY <1>1 DEF TypeOK, LinksInv, ConfirmedOrGone
  <1>6. Owned(confirms)' /\ Owned(resets)'
    BY <1>1 DEF LinksInv, Owned
  <1>7. MarksFollowed'
    BY <1>1 DEF TypeOK, LinksInv, MarksFollowed
  <1>8. SpentMinted' /\ ConsumedMeansConfirmed' /\ ResetExactlyOnce'
    BY <1>1 DEF LinksInv, SpentMinted, ConsumedMeansConfirmed, ResetExactlyOnce
  <1>9. OwnLinkConfirms'
    BY <1>1 DEF LinksInv, OwnLinkConfirms
  <1> QED BY <1>2, <1>3, <1>4, <1>5, <1>6, <1>7, <1>8, <1>9 DEF LinksInv

\* A step of one request that leaves its user and token alone.
LEMMA SameRequestStep ==
    ASSUME TypeOK, LinksInv, NEW r \in Requests, NEW s \in Answers \cup Steps,
           pc' = [pc EXCEPT ![r] = s],
           faults' \in 0..MaxFaults,
           UNCHANGED <<tables, who, tok, history>>,
           s \notin {"mailConfirm", "mailReset", "mark"},
           s \in {"consume", "welcome"} => who[r] \in confirmed \/ who[r] \notin users
    PROVE  TypeOK' /\ LinksInv'
  <1> DEFINE u == who[r]
             t == tok[r]
  <1>1. /\ u \in made \cup {None} /\ t \in Tokens \cup {None}
        /\ who' = [who EXCEPT ![r] = u] /\ tok' = [tok EXCEPT ![r] = t]
    BY DEF TypeOK, LinksInv, KnownWho
  <1>2. followed \subseteq minted /\ followed' = followed /\ UNCHANGED <<tables, owner, spent>>
    BY DEF TypeOK, history
  <1>3. s \in {"consume", "welcome"} => u \in confirmed \/ u \notin users
    OBVIOUS
  <1>4. ~(s \in {"mailConfirm", "mailReset"}) /\ s # "mark"
    OBVIOUS
  <1> HIDE DEF u, t
  <1> QED BY <1>1, <1>2, <1>3, <1>4, RequestStep

LEMMA FaultType == ASSUME TypeOK, Fault PROVE faults' \in 0..MaxFaults
  BY LinksAssumption DEF TypeOK, Fault

LEMMA SameFaults == ASSUME TypeOK, faults' = faults PROVE faults' \in 0..MaxFaults
  BY DEF TypeOK

LEMMA SessionKeeps ==
    ASSUME TypeOK, LinksInv, NEW r \in Requests, Session(r)
    PROVE  TypeOK' /\ LinksInv'
  <1> DEFINE s == IF who[r] \in users THEN "mintConfirm" ELSE "failed"
  <1>1. s \in Answers \cup Steps /\ s \notin {"mailConfirm", "mailReset", "mark", "consume", "welcome"}
    BY DEF Answers, Steps
  <1>2. pc' = [pc EXCEPT ![r] = s] /\ faults' = faults /\ UNCHANGED <<tables, who, tok, history>>
    BY DEF Session, Go
  <1> HIDE DEF s
  <1> QED BY <1>1, <1>2, SameFaults, SameRequestStep

LEMMA StartKeeps ==
    ASSUME TypeOK, LinksInv, NEW r \in Requests, NEW u \in users, NEW s \in {"mintConfirm", "mintReset"},
           Start(r, s, u, None), UNCHANGED <<tables, faults, history>>
    PROVE  TypeOK' /\ LinksInv'
  <1>1. /\ pc' = [pc EXCEPT ![r] = s] /\ who' = [who EXCEPT ![r] = u] /\ tok' = [tok EXCEPT ![r] = None]
        /\ faults' = faults /\ UNCHANGED tables
    BY DEF Start, Go
  <1>2. s \in Answers \cup Steps /\ s \notin {"mailConfirm", "mailReset", "mark", "consume", "welcome"}
    BY DEF Steps
  <1>3. u \in made \cup {None} /\ followed \subseteq minted
    BY DEF TypeOK
  <1>4. UNCHANGED <<owner, followed, spent>>
    BY DEF history
  <1> QED BY <1>1, <1>2, <1>3, <1>4, SameFaults, RequestStep

LEMMA MintOrphanKeeps ==
    ASSUME TypeOK, LinksInv, NEW r \in Requests, MintOrphan(r)
    PROVE  TypeOK' /\ LinksInv'
  BY SameFaults, SameRequestStep DEF MintOrphan, Go, Answers

LEMMA FailKeeps ==
    ASSUME TypeOK, LinksInv, NEW r \in Requests, SendFails(r) \/ MarkFails(r)
    PROVE  TypeOK' /\ LinksInv'
  BY FaultType, SameRequestStep DEF SendFails, MarkFails, Go, Answers

LEMMA ConsumeFailsKeeps ==
    ASSUME TypeOK, LinksInv, NEW r \in Requests, ConsumeFails(r)
    PROVE  TypeOK' /\ LinksInv'
  <1>1. who[r] \in confirmed \/ who[r] \notin users
    BY DEF ConsumeFails, LinksInv, ConfirmedOrGone
  <1> QED BY <1>1, FaultType, SameRequestStep DEF ConsumeFails, Go, Answers

LEMMA SignupKeeps ==
    ASSUME TypeOK, LinksInv, NEW r \in Requests, NEW u \in Users, Signup(r, u)
    PROVE  TypeOK' /\ LinksInv'
  <1>1. /\ users = {} /\ u \notin made /\ confirmed = {} /\ u # None
        /\ users' = {u} /\ made' = made \cup {u} /\ confirmed' = {}
        /\ pc' = [pc EXCEPT ![r] = "session"] /\ who' = [who EXCEPT ![r] = u]
        /\ tok' = [tok EXCEPT ![r] = None]
        /\ UNCHANGED <<confirms, resets, minted, mailed, faults, owner, followed, spent>>
    BY LinksAssumption DEF Signup, Start, Go, CreateUser, TypeOK, history
  <1>2. \A x \in Users : confirms[x] = None /\ resets[x] = None
    BY <1>1 DEF TypeOK
  <1>3. TypeOK'
    BY <1>1, <1>2 DEF TypeOK, Steps
  <1>4. KnownWho' /\ MailsMinted' /\ MarksFollowed'
    BY <1>1 DEF TypeOK, LinksInv, KnownWho, MailsMinted, MarksFollowed
  <1>5. ConfirmedOrGone'
    BY <1>1 DEF TypeOK, LinksInv, KnownWho, ConfirmedOrGone
  <1>6. Owned(confirms)' /\ Owned(resets)' /\ SpentMinted'
    BY <1>1 DEF LinksInv, Owned, SpentMinted
  <1>7. ConsumedMeansConfirmed' /\ OwnLinkConfirms'
    BY <1>1, <1>2 DEF ConsumedMeansConfirmed, OwnLinkConfirms
  <1>8. ResetExactlyOnce'
    BY <1>1, <1>2 DEF LinksInv, ResetExactlyOnce
  <1> QED BY <1>3, <1>4, <1>5, <1>6, <1>7, <1>8 DEF LinksInv

\* What minting a token leaves as it was, whichever table the row goes to.
LEMMA MintKeepsOwners ==
    ASSUME TypeOK, LinksInv, NEW r \in Requests, NEW t \in Tokens, Mint(r, t)
    PROVE  /\ who[r] \in users /\ who[r] \in Users /\ t \notin minted /\ minted' = minted \cup {t}
           /\ owner'[t] = who[r] /\ \A x \in minted : owner'[x] = owner[x]
           /\ owner' \in [Tokens -> Users \cup {None}] /\ tok' = [tok EXCEPT ![r] = t]
           /\ UNCHANGED <<users, made, confirmed, mailed, who, faults, followed, spent>>
           /\ OwnLinkConfirms' /\ SpentMinted' /\ spent[t] = 0 /\ KnownWho'
  <1>1. /\ who[r] \in users /\ who[r] \in Users /\ t \notin minted /\ minted' = minted \cup {t}
        /\ owner' = [owner EXCEPT ![t] = who[r]] /\ tok' = [tok EXCEPT ![r] = t]
        /\ UNCHANGED <<users, made, confirmed, mailed, who, faults, followed, spent>>
    BY DEF Mint, TypeOK
  <1>2. /\ owner'[t] = who[r] /\ \A x \in minted : owner'[x] = owner[x]
        /\ owner' \in [Tokens -> Users \cup {None}]
    BY <1>1 DEF TypeOK
  <1>3. OwnLinkConfirms'
    BY <1>1, <1>2 DEF TypeOK, LinksInv, OwnLinkConfirms
  <1>4. SpentMinted' /\ spent[t] = 0 /\ KnownWho'
    BY <1>1 DEF LinksInv, SpentMinted, KnownWho
  <1> QED BY <1>1, <1>2, <1>3, <1>4

LEMMA MintConfirmKeeps ==
    ASSUME TypeOK, LinksInv, NEW r \in Requests, NEW t \in Tokens, MintConfirm(r, t)
    PROVE  TypeOK' /\ LinksInv'
  <1> DEFINE row == Fresh(t)
             w == who[r]
  <1>1. Mint(r, t) /\ confirms' = [confirms EXCEPT ![w] = row] /\ pc' = [pc EXCEPT ![r] = "mailConfirm"]
        /\ resets' = resets
    BY DEF MintConfirm, Go
  <1>2. row \in Row /\ row # None /\ row.token = t /\ ~row.consumed
    BY FreshRow
  <1>3. /\ who[r] \in users /\ who[r] \in Users /\ t \notin minted /\ minted' = minted \cup {t}
        /\ owner'[t] = who[r] /\ \A x \in minted : owner'[x] = owner[x]
        /\ owner' \in [Tokens -> Users \cup {None}] /\ tok' = [tok EXCEPT ![r] = t]
        /\ UNCHANGED <<users, made, confirmed, mailed, who, faults, followed, spent>>
        /\ OwnLinkConfirms' /\ SpentMinted' /\ KnownWho'
    BY <1>1, MintKeepsOwners
  <1> HIDE DEF row
  <1>4. TypeOK'
    BY <1>1, <1>2, <1>3 DEF TypeOK, Steps
  <1>5. MailsMinted' /\ ConfirmedOrGone' /\ MarksFollowed'
    BY <1>1, <1>3 DEF TypeOK, LinksInv, MailsMinted, ConfirmedOrGone, MarksFollowed
  <1>6. Owned(confirms)' /\ Owned(resets)'
    BY <1>1, <1>2, <1>3 DEF TypeOK, LinksInv, Owned
  <1>7. ConsumedMeansConfirmed'
    BY <1>1, <1>2, <1>3 DEF TypeOK, LinksInv, ConsumedMeansConfirmed
  <1>8. ResetExactlyOnce'
    BY <1>1, <1>3 DEF LinksInv, ResetExactlyOnce
  <1> QED BY <1>3, <1>4, <1>5, <1>6, <1>7, <1>8 DEF LinksInv

LEMMA MintResetKeeps ==
    ASSUME TypeOK, LinksInv, NEW r \in Requests, NEW t \in Tokens, MintReset(r, t)
    PROVE  TypeOK' /\ LinksInv'
  <1> DEFINE row == Fresh(t)
             w == who[r]
  <1>1. Mint(r, t) /\ resets' = [resets EXCEPT ![w] = row] /\ pc' = [pc EXCEPT ![r] = "mailReset"]
        /\ confirms' = confirms
    BY DEF MintReset, Go
  <1>2. row \in Row /\ row # None /\ row.token = t /\ ~row.consumed
    BY FreshRow
  <1>3. /\ who[r] \in users /\ who[r] \in Users /\ t \notin minted /\ minted' = minted \cup {t}
        /\ owner'[t] = who[r] /\ \A x \in minted : owner'[x] = owner[x]
        /\ owner' \in [Tokens -> Users \cup {None}] /\ tok' = [tok EXCEPT ![r] = t]
        /\ UNCHANGED <<users, made, confirmed, mailed, who, faults, followed, spent>>
        /\ OwnLinkConfirms' /\ SpentMinted' /\ spent[t] = 0 /\ KnownWho'
    BY <1>1, MintKeepsOwners
  <1> HIDE DEF row
  <1>4. TypeOK'
    BY <1>1, <1>2, <1>3 DEF TypeOK, Steps
  <1>5. MailsMinted' /\ ConfirmedOrGone' /\ MarksFollowed'
    BY <1>1, <1>3 DEF TypeOK, LinksInv, MailsMinted, ConfirmedOrGone, MarksFollowed
  <1>6. Owned(confirms)' /\ Owned(resets)'
    BY <1>1, <1>2, <1>3 DEF TypeOK, LinksInv, Owned
  <1>7. ConsumedMeansConfirmed'
    BY <1>1, <1>3 DEF LinksInv, ConsumedMeansConfirmed
  <1>8. ResetExactlyOnce'
    <2>1. \A x \in Tokens : spent'[x] <= 1
      BY <1>3 DEF LinksInv, ResetExactlyOnce
    <2>2. ASSUME NEW x \in users', resets'[x] # None
          PROVE  resets'[x].consumed <=> spent'[resets'[x].token] = 1
      <3>1. CASE x = w
        <4>1. resets'[x] = row
          BY <1>1, <1>3, <3>1 DEF TypeOK
        <4> QED BY <4>1, <1>2, <1>3
      <3>2. CASE x # w
        <4>1. resets'[x] = resets[x] /\ x \in users
          BY <1>1, <1>3, <3>2 DEF TypeOK
        <4> QED BY <4>1, <2>2, <1>3 DEF LinksInv, ResetExactlyOnce
      <3> QED BY <3>1, <3>2
    <2> QED BY <2>1, <2>2 DEF ResetExactlyOnce
  <1> QED BY <1>3, <1>4, <1>5, <1>6, <1>7, <1>8 DEF LinksInv

LEMMA MailKeeps ==
    ASSUME TypeOK, LinksInv, NEW r \in Requests, Mail(r)
    PROVE  TypeOK' /\ LinksInv'
  <1> DEFINE t == tok[r]
  <1>1. /\ pc' = [pc EXCEPT ![r] = "idle"]
        /\ UNCHANGED <<users, made, confirmed, confirms, resets, minted, who, tok, faults,
                       owner, followed, spent>>
    BY DEF Mail, Go, history
  <1>2. \E k \in Kinds : mailed' = [mailed EXCEPT ![k] = @ \cup {t}]
    BY DEF Mail, Kinds
  <1>3. t \in minted
    BY DEF Mail, LinksInv, MailsMinted
  <1> HIDE DEF t
  <1>4. TypeOK'
    BY <1>1, <1>2, <1>3 DEF TypeOK, Answers
  <1>5. KnownWho' /\ MailsMinted' /\ ConfirmedOrGone' /\ MarksFollowed'
    BY <1>1 DEF TypeOK, LinksInv, KnownWho, MailsMinted, ConfirmedOrGone, MarksFollowed
  <1>6. Owned(confirms)' /\ Owned(resets)' /\ SpentMinted'
    BY <1>1 DEF LinksInv, Owned, SpentMinted
  <1>7. ConsumedMeansConfirmed' /\ OwnLinkConfirms' /\ ResetExactlyOnce'
    BY <1>1 DEF LinksInv, ConsumedMeansConfirmed, OwnLinkConfirms, ResetExactlyOnce
  <1> QED BY <1>4, <1>5, <1>6, <1>7 DEF LinksInv

LEMMA ClickKeeps ==
    ASSUME TypeOK, LinksInv, NEW r \in Requests, NEW t \in Tokens, Click(r, t)
    PROVE  TypeOK' /\ LinksInv'
  <1>1. t \in minted /\ followed \subseteq minted
    BY DEF Click, TypeOK, Kinds
  <1>2. /\ faults' \in 0..MaxFaults /\ UNCHANGED <<tables, owner, spent>>
    BY DEF Click, TypeOK
  <1>3. CASE Start(r, "unknown", None, t) /\ UNCHANGED followed
    <2>1. /\ pc' = [pc EXCEPT ![r] = "unknown"] /\ who' = [who EXCEPT ![r] = None]
          /\ tok' = [tok EXCEPT ![r] = t] /\ followed' = followed
      BY <1>3 DEF Start, Go
    <2> QED BY <2>1, <1>1, <1>2, RequestStep DEF Answers
  <1>4. ASSUME NEW u \in Found(confirms, t),
               \/ /\ confirms[u].consumed
                  /\ Start(r, "welcome", u, t)
                  /\ UNCHANGED followed
               \/ /\ Start(r, "expired", u, t)
                  /\ UNCHANGED followed
               \/ /\ Start(r, "mark", u, t)
                  /\ followed' = followed \cup {t}
        PROVE  TypeOK' /\ LinksInv'
    <2>1. u \in users /\ u \in made /\ confirms[u] # None /\ confirms[u].token = t
      BY DEF Found, TypeOK
    <2>2. owner[t] = u
      BY <2>1 DEF TypeOK, LinksInv, Owned
    <2>3. CASE confirms[u].consumed /\ Start(r, "welcome", u, t) /\ UNCHANGED followed
      <3>1. u \in confirmed
        BY <2>1, <2>3 DEF LinksInv, ConsumedMeansConfirmed
      <3>2. /\ pc' = [pc EXCEPT ![r] = "welcome"] /\ who' = [who EXCEPT ![r] = u]
            /\ tok' = [tok EXCEPT ![r] = t] /\ followed' = followed
        BY <2>3 DEF Start, Go
      <3> QED BY <2>1, <3>1, <3>2, <1>1, <1>2, RequestStep DEF Answers
    <2>4. CASE Start(r, "expired", u, t) /\ UNCHANGED followed
      <3>1. /\ pc' = [pc EXCEPT ![r] = "expired"] /\ who' = [who EXCEPT ![r] = u]
            /\ tok' = [tok EXCEPT ![r] = t] /\ followed' = followed
        BY <2>4 DEF Start, Go
      <3> QED BY <2>1, <3>1, <1>1, <1>2, RequestStep DEF Answers
    <2>5. CASE Start(r, "mark", u, t) /\ followed' = followed \cup {t}
      <3>1. /\ pc' = [pc EXCEPT ![r] = "mark"] /\ who' = [who EXCEPT ![r] = u]
            /\ tok' = [tok EXCEPT ![r] = t] /\ followed' = followed \cup {t}
        BY <2>5 DEF Start, Go
      <3> QED BY <2>1, <2>2, <3>1, <1>1, <1>2, RequestStep DEF Steps
    <2> QED BY <1>4, <2>3, <2>4, <2>5
  <1> QED BY <1>3, <1>4 DEF Click

LEMMA MarkKeeps ==
    ASSUME TypeOK, LinksInv, NEW r \in Requests, Mark(r)
    PROVE  TypeOK' /\ LinksInv'
  <1>1. /\ pc' = [pc EXCEPT ![r] = "consume"] /\ confirmed' = confirmed \cup ({who[r]} \cap users)
        /\ UNCHANGED <<users, made, confirms, resets, minted, mailed, who, tok, faults,
                       owner, followed, spent>>
    BY DEF Mark, Go
  <1>2. TypeOK'
    BY <1>1 DEF TypeOK, Steps
  <1>3. KnownWho' /\ MailsMinted' /\ MarksFollowed'
    BY <1>1 DEF TypeOK, LinksInv, KnownWho, MailsMinted, MarksFollowed
  <1>4. ConfirmedOrGone'
    BY <1>1 DEF TypeOK, LinksInv, ConfirmedOrGone
  <1>5. Owned(confirms)' /\ Owned(resets)' /\ SpentMinted'
    BY <1>1 DEF LinksInv, Owned, SpentMinted
  <1>6. ConsumedMeansConfirmed' /\ ResetExactlyOnce'
    BY <1>1 DEF LinksInv, ConsumedMeansConfirmed, ResetExactlyOnce
  <1>7. OwnLinkConfirms'
    <2>1. tok[r] \in followed /\ owner[tok[r]] = who[r]
      BY DEF Mark, LinksInv, MarksFollowed
    <2> QED BY <1>1, <2>1 DEF LinksInv, OwnLinkConfirms
  <1> QED BY <1>2, <1>3, <1>4, <1>5, <1>6, <1>7 DEF LinksInv

LEMMA ConsumeKeeps ==
    ASSUME TypeOK, LinksInv, NEW r \in Requests, Consume(r)
    PROVE  TypeOK' /\ LinksInv'
  <1> DEFINE w == who[r]
             row == [confirms[w] EXCEPT !.consumed = TRUE]
  <1>1. /\ pc[r] = "consume" /\ pc' = [pc EXCEPT ![r] = "welcome"]
        /\ UNCHANGED <<users, made, confirmed, resets, minted, mailed, who, tok, faults,
                       owner, followed, spent>>
    BY DEF Consume, Go, history
  <1>2. CASE w \notin Users \/ confirms[w] = None
    <2>1. confirms' = confirms
      BY <1>2 DEF Consume, TypeOK
    <2>2. UNCHANGED <<tables, who, tok, history>> /\ faults' = faults
      BY <1>1, <2>1 DEF tables, history
    <2>3. who[r] \in confirmed \/ who[r] \notin users
      BY <1>1 DEF LinksInv, ConfirmedOrGone
    <2> QED BY <1>1, <2>2, <2>3, SameFaults, SameRequestStep DEF Answers
  <1>3. CASE w \in Users /\ confirms[w] # None
    <2>1. confirms' = [confirms EXCEPT ![w] = row]
      BY <1>3 DEF Consume
    <2>2. row \in Row /\ row # None /\ row.consumed /\ row.token = confirms[w].token
      <3>1. confirms[w] \in Row
        BY <1>3 DEF TypeOK
      <3> QED BY <3>1, ConsumedRow
    <2>3. w \in confirmed \/ w \notin users
      BY <1>1 DEF LinksInv, ConfirmedOrGone
    <2> HIDE DEF row
    <2>4. TypeOK'
      <3>1. w \in users
        BY <1>3 DEF TypeOK
      <3> QED BY <1>1, <2>1, <2>2, <3>1 DEF TypeOK, Answers
    <2>5. KnownWho' /\ MailsMinted' /\ MarksFollowed'
      BY <1>1 DEF TypeOK, LinksInv, KnownWho, MailsMinted, MarksFollowed
    <2>6. ConfirmedOrGone'
      BY <1>1, <2>3 DEF TypeOK, LinksInv, ConfirmedOrGone
    <2>7. Owned(confirms)' /\ Owned(resets)' /\ SpentMinted'
      BY <1>1, <1>3, <2>1, <2>2 DEF TypeOK, LinksInv, Owned, SpentMinted
    <2>8. ConsumedMeansConfirmed'
      BY <1>1, <2>1, <2>3 DEF TypeOK, LinksInv, ConsumedMeansConfirmed
    <2>9. OwnLinkConfirms' /\ ResetExactlyOnce'
      BY <1>1 DEF LinksInv, OwnLinkConfirms, ResetExactlyOnce
    <2> QED BY <2>4, <2>5, <2>6, <2>7, <2>8, <2>9 DEF LinksInv
  <1> QED BY <1>2, <1>3

LEMMA ResetKeeps ==
    ASSUME TypeOK, LinksInv, NEW t \in Tokens, Reset(t)
    PROVE  TypeOK' /\ LinksInv'
  <1>1. PICK u \in Found(resets, t) :
            /\ Claimed(resets[u]) /\ confirmed' = confirmed \cup {u}
            /\ resets' = [resets EXCEPT ![u].consumed = TRUE]
    BY DEF Reset
  <1> DEFINE row == [resets[u] EXCEPT !.consumed = TRUE]
  <1>2. /\ u \in users /\ u \in Users /\ resets[u] # None /\ resets[u].token = t /\ ~resets[u].consumed
        /\ resets[u] \in Row
    BY <1>1 DEF Found, Claimed, TypeOK
  <1>3. /\ resets' = [resets EXCEPT ![u] = row] /\ row \in Row /\ row # None
        /\ row.consumed /\ row.token = t
    BY <1>1, <1>2, ConsumedRow
  <1> HIDE DEF row
  <1>4. /\ spent' = [spent EXCEPT ![t] = @ + 1] /\ followed' = followed \cup {t}
        /\ spent[t] < MaxSubmits /\ t \in minted
        /\ UNCHANGED <<users, made, confirms, minted, mailed, pc, who, tok, faults, owner>>
    BY DEF Reset, TypeOK, Kinds
  <1>5. spent[t] = 0 /\ spent'[t] = 1 /\ \A x \in Tokens : x # t => spent'[x] = spent[x]
    <2>1. spent[t] \in Nat /\ spent[t] <= 1 /\ spent[t] # 1
      BY <1>2, LinksAssumption DEF TypeOK, LinksInv, ResetExactlyOnce
    <2> QED BY <2>1, <1>4 DEF TypeOK
  <1>6. owner[t] = u
    BY <1>2 DEF LinksInv, Owned
  <1>7. TypeOK'
    <2>1. spent' \in [Tokens -> 0..MaxSubmits]
      <3>1. spent[t] + 1 \in 0..MaxSubmits
        BY <1>4, <1>5, LinksAssumption
      <3> QED BY <1>4, <3>1 DEF TypeOK
    <2> QED BY <1>1, <1>2, <1>3, <1>4, <2>1 DEF TypeOK
  <1>8. KnownWho' /\ MailsMinted' /\ MarksFollowed'
    BY <1>4 DEF LinksInv, KnownWho, MailsMinted, MarksFollowed
  <1>9. ConfirmedOrGone' /\ ConsumedMeansConfirmed'
    BY <1>1, <1>4 DEF LinksInv, ConfirmedOrGone, ConsumedMeansConfirmed
  <1>10. Owned(confirms)' /\ Owned(resets)' /\ SpentMinted'
    BY <1>2, <1>3, <1>4, <1>6 DEF TypeOK, LinksInv, Owned, SpentMinted
  <1>11. OwnLinkConfirms'
    BY <1>1, <1>4, <1>6 DEF LinksInv, OwnLinkConfirms
  <1>12. ResetExactlyOnce'
    <2>1. \A x \in Tokens : spent'[x] <= 1
      BY <1>5 DEF LinksInv, ResetExactlyOnce
    <2>2. ASSUME NEW x \in users', resets'[x] # None
          PROVE  resets'[x].consumed <=> spent'[resets'[x].token] = 1
      <3>1. CASE x = u
        BY <3>1, <1>2, <1>3, <1>5 DEF TypeOK
      <3>2. CASE x # u
        <4>1. resets'[x] = resets[x] /\ x \in users /\ x \in Users
          BY <3>2, <1>3, <1>4 DEF TypeOK
        <4>2. owner[resets[x].token] = x /\ resets[x].token \in Tokens
          BY <4>1, <2>2 DEF TypeOK, LinksInv, Owned
        <4>3. spent'[resets[x].token] = spent[resets[x].token]
          BY <3>2, <4>2, <1>5, <1>6
        <4> QED BY <4>1, <4>3, <2>2 DEF LinksInv, ResetExactlyOnce
      <3> QED BY <3>1, <3>2
    <2> QED BY <2>1, <2>2 DEF ResetExactlyOnce
  <1> QED BY <1>7, <1>8, <1>9, <1>10, <1>11, <1>12 DEF LinksInv

LEMMA DeleteMeKeeps ==
    ASSUME TypeOK, LinksInv, NEW u \in Users, DeleteMe(u)
    PROVE  TypeOK' /\ LinksInv'
  <1>1. /\ u \in users /\ users' = users \ {u} /\ confirmed' = confirmed \ {u}
        /\ confirms' = [confirms EXCEPT ![u] = None] /\ resets' = [resets EXCEPT ![u] = None]
        /\ UNCHANGED <<made, minted, mailed, pc, who, tok, faults, owner, followed, spent>>
    BY DEF DeleteMe, history
  <1>2. TypeOK'
    BY <1>1 DEF TypeOK
  <1>3. KnownWho' /\ MailsMinted' /\ MarksFollowed' /\ SpentMinted'
    BY <1>1 DEF LinksInv, KnownWho, MailsMinted, MarksFollowed, SpentMinted
  <1>4. ConfirmedOrGone'
    BY <1>1 DEF LinksInv, ConfirmedOrGone
  <1>5. Owned(confirms)' /\ Owned(resets)'
    BY <1>1 DEF TypeOK, LinksInv, Owned
  <1>6. ConsumedMeansConfirmed' /\ OwnLinkConfirms'
    BY <1>1 DEF TypeOK, LinksInv, ConsumedMeansConfirmed, OwnLinkConfirms
  <1>7. ResetExactlyOnce'
    BY <1>1 DEF TypeOK, LinksInv, ResetExactlyOnce
  <1> QED BY <1>2, <1>3, <1>4, <1>5, <1>6, <1>7 DEF LinksInv

LEMMA ExpireKeeps ==
    ASSUME TypeOK, LinksInv, NEW u \in Users, Expire(u)
    PROVE  TypeOK' /\ LinksInv'
  <1>1. UNCHANGED <<users, made, confirmed, minted, mailed, pc, who, tok, faults,
                    owner, followed, spent>>
    BY DEF Expire, history
  <1>2. KnownWho' /\ MailsMinted' /\ MarksFollowed' /\ SpentMinted' /\ ConfirmedOrGone' /\ OwnLinkConfirms'
    BY <1>1 DEF LinksInv, KnownWho, MailsMinted, MarksFollowed, SpentMinted, ConfirmedOrGone,
                OwnLinkConfirms
  <1>3. ASSUME confirms[u] # None, confirms' = [confirms EXCEPT ![u].expired = TRUE], resets' = resets
        PROVE  TypeOK' /\ LinksInv'
    <2> DEFINE row == [confirms[u] EXCEPT !.expired = TRUE]
    <2>1. u \in users /\ confirms[u] \in Row
      BY <1>3 DEF TypeOK
    <2>2. /\ confirms' = [confirms EXCEPT ![u] = row] /\ row \in Row /\ row # None
          /\ row.consumed = confirms[u].consumed /\ row.token = confirms[u].token
      BY <1>3, <2>1, ExpiredRow
    <2> HIDE DEF row
    <2>3. TypeOK'
      BY <1>1, <1>3, <2>1, <2>2 DEF TypeOK
    <2>4. Owned(confirms)' /\ Owned(resets)'
      BY <1>1, <1>3, <2>2 DEF TypeOK, LinksInv, Owned
    <2>5. ConsumedMeansConfirmed'
      BY <1>1, <1>3, <2>2 DEF TypeOK, LinksInv, ConsumedMeansConfirmed
    <2>6. ResetExactlyOnce'
      BY <1>1, <1>3 DEF LinksInv, ResetExactlyOnce
    <2> QED BY <1>2, <2>3, <2>4, <2>5, <2>6 DEF LinksInv
  <1>4. ASSUME resets[u] # None, resets' = [resets EXCEPT ![u].expired = TRUE], confirms' = confirms
        PROVE  TypeOK' /\ LinksInv'
    <2> DEFINE row == [resets[u] EXCEPT !.expired = TRUE]
    <2>1. u \in users /\ resets[u] \in Row
      BY <1>4 DEF TypeOK
    <2>2. /\ resets' = [resets EXCEPT ![u] = row] /\ row \in Row /\ row # None
          /\ row.consumed = resets[u].consumed /\ row.token = resets[u].token
      BY <1>4, <2>1, ExpiredRow
    <2> HIDE DEF row
    <2>3. TypeOK'
      BY <1>1, <1>4, <2>1, <2>2 DEF TypeOK
    <2>4. Owned(confirms)' /\ Owned(resets)'
      BY <1>1, <1>4, <2>2 DEF TypeOK, LinksInv, Owned
    <2>5. ConsumedMeansConfirmed'
      BY <1>1, <1>4 DEF LinksInv, ConsumedMeansConfirmed
    <2>6. ResetExactlyOnce'
      <3>1. \A x \in users : resets'[x] = IF x = u THEN row ELSE resets[x]
        BY <2>2 DEF TypeOK
      <3> QED BY <1>1, <1>4, <2>1, <2>2, <3>1 DEF LinksInv, ResetExactlyOnce
    <2> QED BY <1>2, <2>3, <2>4, <2>5, <2>6 DEF LinksInv
  <1> QED BY <1>3, <1>4 DEF Expire

LEMMA NextLinks == TypeOK /\ LinksInv /\ [Next]_vars => TypeOK' /\ LinksInv'
  <1> SUFFICES ASSUME TypeOK, LinksInv, [Next]_vars PROVE TypeOK' /\ LinksInv'
    OBVIOUS
  <1>1. ASSUME NEW r \in Requests, Session(r) PROVE TypeOK' /\ LinksInv'
    BY <1>1, SessionKeeps
  <1>2. ASSUME NEW r \in Requests, MintOrphan(r) PROVE TypeOK' /\ LinksInv'
    BY <1>2, MintOrphanKeeps
  <1>3. ASSUME NEW r \in Requests, Mail(r) PROVE TypeOK' /\ LinksInv'
    BY <1>3, MailKeeps
  <1>4. ASSUME NEW r \in Requests, SendFails(r) \/ MarkFails(r) PROVE TypeOK' /\ LinksInv'
    BY <1>4, FailKeeps
  <1>5. ASSUME NEW r \in Requests, Mark(r) PROVE TypeOK' /\ LinksInv'
    BY <1>5, MarkKeeps
  <1>6. ASSUME NEW r \in Requests, Consume(r) PROVE TypeOK' /\ LinksInv'
    BY <1>6, ConsumeKeeps
  <1>7. ASSUME NEW r \in Requests, ConsumeFails(r) PROVE TypeOK' /\ LinksInv'
    BY <1>7, ConsumeFailsKeeps
  <1>8. ASSUME NEW r \in Requests, NEW u \in Users, Signup(r, u) PROVE TypeOK' /\ LinksInv'
    BY <1>8, SignupKeeps
  <1>9. ASSUME NEW r \in Requests, NEW u \in Users, Resend(r, u) PROVE TypeOK' /\ LinksInv'
    <2>1. u \in users /\ Start(r, "mintConfirm", u, None) /\ UNCHANGED <<tables, faults, history>>
      BY <1>9 DEF Resend
    <2> QED BY <2>1, StartKeeps
  <1>10. ASSUME NEW r \in Requests, NEW u \in Users, AskReset(r, u) PROVE TypeOK' /\ LinksInv'
    <2>1. u \in users /\ Start(r, "mintReset", u, None) /\ UNCHANGED <<tables, faults, history>>
      BY <1>10 DEF AskReset
    <2> QED BY <2>1, StartKeeps
  <1>11. ASSUME NEW r \in Requests, NEW t \in Tokens, MintConfirm(r, t) PROVE TypeOK' /\ LinksInv'
    BY <1>11, MintConfirmKeeps
  <1>12. ASSUME NEW r \in Requests, NEW t \in Tokens, MintReset(r, t) PROVE TypeOK' /\ LinksInv'
    BY <1>12, MintResetKeeps
  <1>13. ASSUME NEW r \in Requests, NEW t \in Tokens, Click(r, t) PROVE TypeOK' /\ LinksInv'
    BY <1>13, ClickKeeps
  <1>14. ASSUME NEW t \in Tokens, Reset(t) PROVE TypeOK' /\ LinksInv'
    BY <1>14, ResetKeeps
  <1>15. ASSUME NEW u \in Users, DeleteMe(u) PROVE TypeOK' /\ LinksInv'
    BY <1>15, DeleteMeKeeps
  <1>16. ASSUME NEW u \in Users, Expire(u) PROVE TypeOK' /\ LinksInv'
    BY <1>16, ExpireKeeps
  <1>17. CASE UNCHANGED vars
    BY <1>17 DEF vars, TypeOK, LinksInv, KnownWho, MailsMinted, ConfirmedOrGone, Owned, MarksFollowed,
       SpentMinted, ConsumedMeansConfirmed, OwnLinkConfirms, ResetExactlyOnce
  <1> QED
    BY <1>1, <1>2, <1>3, <1>4, <1>5, <1>6, <1>7, <1>8, <1>9, <1>10, <1>11, <1>12, <1>13, <1>14,
       <1>15, <1>16, <1>17 DEF Next

LEMMA LinksInvariant == Spec => [](TypeOK /\ LinksInv)
  BY InitLinks, NextLinks, PTL DEF Spec

(* The shape of the tables: a row of either kind has its user, whatever is  *)
(* deleted meanwhile, and nothing is mailed that was not generated.         *)
THEOREM LinksType == Spec => []TypeOK
  BY LinksInvariant, PTL

(* ConfirmEmail, "Order matters": however many requests resend, click or    *)
(* fail at once, no link is consumed while its user is unconfirmed.         *)
THEOREM ConfirmBeforeConsume == Spec => []ConsumedMeansConfirmed
  <1>1. LinksInv => ConsumedMeansConfirmed
    BY DEF LinksInv
  <1> QED BY <1>1, LinksInvariant, PTL

(* Whoever is redirected to ?welcome=true has a confirmed account, or one   *)
(* deleted since.                                                           *)
THEOREM WelcomeIsTrue == Spec => []WelcomeMeansConfirmed
  <1>1. LinksInv => WelcomeMeansConfirmed
    BY DEF LinksInv, ConfirmedOrGone, WelcomeMeansConfirmed
  <1> QED BY <1>1, LinksInvariant, PTL

(* A confirmed account was confirmed by a link minted for it: the tables    *)
(* are keyed by user, so a link of a deleted account finds no row.          *)
THEOREM OnlyOwnLinkConfirms == Spec => []OwnLinkConfirms
  <1>1. LinksInv => OwnLinkConfirms
    BY DEF LinksInv
  <1> QED BY <1>1, LinksInvariant, PTL

(* ResetPasswordWithToken, one statement: a token sets a password at most   *)
(* once, and its row is consumed exactly when it has.                       *)
THEOREM ResetOnce == Spec => []ResetExactlyOnce
  <1>1. LinksInv => ResetExactlyOnce
    BY DEF LinksInv
  <1> QED BY <1>1, LinksInvariant, PTL
=============================================================================
