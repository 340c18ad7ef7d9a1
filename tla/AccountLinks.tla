---------------------------- MODULE AccountLinks ----------------------------
(***************************************************************************)
(* The links mailed to an account's address: confirmation links            *)
(* (handlers/confirm.go) and password-reset links                          *)
(* (handlers/password_reset.go), from signup to deletion of the account.   *)
(* One mail address; an account deleted and made again is another user.    *)
(*                                                                         *)
(* Every query is a step of its own, since no handler runs in a            *)
(* transaction; two handlers interleave between any two queries, and a     *)
(* query may fail (a deadline, a closed connection, a restart).            *)
(*                                                                         *)
(* Tokens stand for their hashes: both are unique.  Each kind of link has  *)
(* a table with one row for each user, which an upsert makes new again.    *)
(***************************************************************************)
EXTENDS Integers

CONSTANTS
    Users,       \* the users that ever have the address
    Tokens,      \* the random tokens
    Requests,    \* requests that may be under way at once
    MaxFaults,   \* bound on failed queries and sends
    MaxSubmits,  \* bound on successful resets
    None         \* no user, row or token

VARIABLES
    users,       \* rows of users
    made,        \* users ever created
    confirmed,   \* users.confirmed
    confirms,    \* confirms[u]: u's row of email_confirmations, or None
    resets,      \* resets[u]: u's row of password_resets, or None
    minted,      \* tokens ever generated
    mailed,      \* mailed[kind]: tokens that reached the mailbox
    pc, who, tok,
    faults,
    owner,       \* history: the user a token was minted for
    followed,    \* history: tokens that were opened while good
    spent        \* history: spent[t]: passwords set with t

vars == <<users, made, confirmed, confirms, resets, minted, mailed, pc, who,
          tok, faults, owner, followed, spent>>

tables == <<users, made, confirmed, confirms, resets, minted, mailed>>
history == <<owner, followed, spent>>

Row == [token : Tokens, expired : BOOLEAN, consumed : BOOLEAN]

ASSUME LinksAssumption == /\ MaxFaults \in Nat /\ MaxSubmits \in Nat
                          /\ None \notin Users \cup Tokens
                          /\ None \notin Row

Kinds == {"confirm", "reset"}
\* How a request ended: the redirect or status it was answered with.
Answers == {"idle", "welcome", "unknown", "expired", "failed"}
Steps == {"session", "mintConfirm", "mintReset", "mailConfirm", "mailReset",
          "mark", "consume"}

\* ON DELETE CASCADE: a row has its user.
TypeOK == /\ users \subseteq made /\ made \subseteq Users
          /\ confirmed \subseteq users
          /\ confirms \in [Users -> Row \cup {None}]
          /\ resets \in [Users -> Row \cup {None}]
          /\ \A u \in Users \ users : confirms[u] = None /\ resets[u] = None
          /\ minted \subseteq Tokens
          /\ mailed \in [Kinds -> SUBSET minted]
          /\ pc \in [Requests -> Answers \cup Steps]
          /\ who \in [Requests -> Users \cup {None}]
          /\ tok \in [Requests -> Tokens \cup {None}]
          /\ faults \in 0..MaxFaults
          /\ owner \in [Tokens -> Users \cup {None}]
          /\ followed \subseteq minted
          /\ spent \in [Tokens -> 0..MaxSubmits]

Init == /\ users = {} /\ made = {} /\ confirmed = {}
        /\ confirms = [u \in Users |-> None]
        /\ resets = [u \in Users |-> None]
        /\ minted = {}
        /\ mailed = [k \in Kinds |-> {}]
        /\ pc = [r \in Requests |-> "idle"]
        /\ who = [r \in Requests |-> None]
        /\ tok = [r \in Requests |-> None]
        /\ faults = 0
        /\ owner = [t \in Tokens |-> None]
        /\ followed = {}
        /\ spent = [t \in Tokens |-> 0]

Free(r) == pc[r] \in Answers

Go(r, step) == pc' = [pc EXCEPT ![r] = step]

\* r starts, about user u and token t.
Start(r, step, u, t) == /\ Free(r)
                        /\ Go(r, step)
                        /\ who' = [who EXCEPT ![r] = u]
                        /\ tok' = [tok EXCEPT ![r] = t]

Fault == /\ faults < MaxFaults
         /\ faults' = faults + 1
-----------------------------------------------------------------------------
\* mutant: the column is left to a default of TRUE
CreateUserConfirmed(u) == users \cup {u}

\* CreateUser: Confirmed is passed as FALSE.
CreateUser(u) == confirmed

\* Signup; users.email is unique.
Signup(r, u) == /\ users = {} /\ u \notin made
                /\ Start(r, "session", u, None)
                /\ users' = users \cup {u}
                /\ made' = made \cup {u}
                /\ confirmed' = CreateUser(u)
                /\ UNCHANGED <<confirms, resets, minted, mailed, faults, history>>

\* Signup: CreateRefreshToken; a user deleted meanwhile fails its foreign key.
Session(r) == /\ pc[r] = "session"
              /\ Go(r, IF who[r] \in users THEN "mintConfirm" ELSE "failed")
              /\ UNCHANGED <<tables, who, tok, faults, history>>

\* ResendConfirmation: a confirmed user is answered 204 at once.
Resend(r, u) == /\ u \in users \ confirmed
                /\ Start(r, "mintConfirm", u, None)
                /\ UNCHANGED <<tables, faults, history>>

\* RequestPasswordReset, GetUserByEmail
AskReset(r, u) == /\ u \in users
                  /\ Start(r, "mintReset", u, None)
                  /\ UNCHANGED <<tables, faults, history>>

\* The row an upsert leaves.
Fresh(t) == [token |-> t, expired |-> FALSE, consumed |-> FALSE]

\* mutant: the row needs no user
MintNoForeignKey(r, t) ==
    /\ t \notin minted
    /\ minted' = minted \cup {t}
    /\ owner' = [owner EXCEPT ![t] = who[r]]
    /\ tok' = [tok EXCEPT ![r] = t]
    /\ UNCHANGED <<users, made, confirmed, mailed, who, faults,
                   followed, spent>>

\* GenerateRefresh, and what both upserts share.
Mint(r, t) == /\ t \notin minted
              /\ who[r] \in users
              /\ minted' = minted \cup {t}
              /\ owner' = [owner EXCEPT ![t] = who[r]]
              /\ tok' = [tok EXCEPT ![r] = t]
              /\ UNCHANGED <<users, made, confirmed, mailed, who, faults,
                             followed, spent>>

\* sendConfirmation: UpsertEmailConfirmation
MintConfirm(r, t) == /\ pc[r] = "mintConfirm"
                     /\ Mint(r, t)
                     /\ confirms' = [confirms EXCEPT ![who[r]] = Fresh(t)]
                     /\ Go(r, "mailConfirm")
                     /\ UNCHANGED resets

\* sendPasswordReset: UpsertPasswordReset
MintReset(r, t) == /\ pc[r] = "mintReset"
                   /\ Mint(r, t)
                   /\ resets' = [resets EXCEPT ![who[r]] = Fresh(t)]
                   /\ Go(r, "mailReset")
                   /\ UNCHANGED confirms

\* The upsert of a user deleted meanwhile fails its foreign key.
MintOrphan(r) == /\ pc[r] \in {"mintConfirm", "mintReset"}
                 /\ who[r] \notin users
                 /\ Go(r, "failed")
                 /\ UNCHANGED <<tables, who, tok, faults, history>>

\* Sender.Send
Mail(r) == /\ \/ /\ pc[r] = "mailConfirm"
                 /\ mailed' = [mailed EXCEPT !["confirm"] = @ \cup {tok[r]}]
              \/ /\ pc[r] = "mailReset"
                 /\ mailed' = [mailed EXCEPT !["reset"] = @ \cup {tok[r]}]
           /\ Go(r, "idle")
           /\ UNCHANGED <<users, made, confirmed, confirms, resets, minted,
                          who, tok, faults, history>>
-----------------------------------------------------------------------------
\* mutant: one row of the address is as good as another
FoundByAddress(table, t) == {u \in users : table[u] # None}

\* The user whose row has this token hash, if any.
Found(table, t) == {u \in users : table[u] # None /\ table[u].token = t}

\* ConfirmEmail: GetEmailConfirmationByHash and the checks of what it read.
Click(r, t) ==
    /\ t \in mailed["confirm"]
    /\ \/ /\ Found(confirms, t) = {}
          /\ Start(r, "unknown", None, t)
          /\ UNCHANGED followed
       \/ \E u \in Found(confirms, t) :
             LET row == confirms[u] IN
             \/ /\ row.consumed
                /\ Start(r, "welcome", u, t)
                /\ UNCHANGED followed
             \/ /\ ~row.consumed /\ row.expired
                /\ Start(r, "expired", u, t)
                /\ UNCHANGED followed
             \/ /\ ~row.consumed /\ ~row.expired
                /\ Start(r, "mark", u, t)
                /\ followed' = followed \cup {t}
    /\ UNCHANGED <<tables, faults, owner, spent>>

\* MarkUserConfirmed; no row to update is no error.
Mark(r) == /\ pc[r] = "mark"
           /\ confirmed' = confirmed \cup ({who[r]} \cap users)
           /\ Go(r, "consume")
           /\ UNCHANGED <<users, made, confirms, resets, minted, mailed, who,
                          tok, faults, owner, followed, spent>>

\* mutant: the error is logged, and the handler goes on
MarkFailsGoesOn(r) == /\ pc[r] = "mark"
                      /\ Fault
                      /\ Go(r, "consume")
                      /\ UNCHANGED <<tables, who, tok, history>>

MarkFails(r) == /\ pc[r] = "mark"
                /\ Fault
                /\ Go(r, "failed")
                /\ UNCHANGED <<tables, who, tok, history>>

\* ConsumeEmailConfirmation: by user, whichever token the row has by now.
Consume(r) == /\ pc[r] = "consume"
              /\ confirms' = IF confirms[who[r]] = None THEN confirms
                             ELSE [confirms EXCEPT ![who[r]].consumed = TRUE]
              /\ Go(r, "welcome")
              /\ UNCHANGED <<users, made, confirmed, resets, minted, mailed,
                             who, tok, faults, history>>

\* Its failure is not the user's.
ConsumeFails(r) == /\ pc[r] = "consume"
                   /\ Fault
                   /\ Go(r, "welcome")
                   /\ UNCHANGED <<tables, who, tok, history>>
-----------------------------------------------------------------------------
\* mutant: consumed_at is not looked at
ClaimedAgain(row) == ~row.expired

\* ResetPasswordWithToken: the rows its first part claims.
Claimed(row) == ~row.consumed /\ ~row.expired

\* ResetPassword: one statement.  An unclaimed token changes nothing.
Reset(t) ==
    /\ t \in mailed["reset"]
    /\ spent[t] < MaxSubmits
    /\ \E u \in Found(resets, t) :
          /\ Claimed(resets[u])
          /\ resets' = [resets EXCEPT ![u].consumed = TRUE]
          /\ confirmed' = confirmed \cup {u}
    /\ spent' = [spent EXCEPT ![t] = @ + 1]
    /\ followed' = followed \cup {t}
    /\ UNCHANGED <<users, made, confirms, minted, mailed, pc, who, tok,
                   faults, owner>>

\* DeleteMe: a hard delete, cascading.
DeleteMe(u) == /\ u \in users
               /\ users' = users \ {u}
               /\ confirmed' = confirmed \ {u}
               /\ confirms' = [confirms EXCEPT ![u] = None]
               /\ resets' = [resets EXCEPT ![u] = None]
               /\ UNCHANGED <<made, minted, mailed, pc, who, tok, faults, history>>

\* A failed query or send of a signup, a resend or a reset request: what was
\* written before stays.
SendFails(r) == /\ pc[r] \in {"session", "mintConfirm", "mintReset",
                              "mailConfirm", "mailReset"}
                /\ Fault
                /\ Go(r, "failed")
                /\ UNCHANGED <<tables, who, tok, history>>

\* Time passes the expires_at of a row.
Expire(u) == /\ \/ /\ confirms[u] # None
                   /\ confirms' = [confirms EXCEPT ![u].expired = TRUE]
                   /\ UNCHANGED resets
                \/ /\ resets[u] # None
                   /\ resets' = [resets EXCEPT ![u].expired = TRUE]
                   /\ UNCHANGED confirms
             /\ UNCHANGED <<users, made, confirmed, minted, mailed, pc, who,
                            tok, faults, history>>

Next == \/ \E r \in Requests :
              \/ Session(r) \/ MintOrphan(r) \/ Mail(r) \/ SendFails(r)
              \/ Mark(r) \/ MarkFails(r) \/ Consume(r) \/ ConsumeFails(r)
              \/ \E u \in Users : Signup(r, u) \/ Resend(r, u) \/ AskReset(r, u)
              \/ \E t \in Tokens : MintConfirm(r, t) \/ MintReset(r, t) \/ Click(r, t)
        \/ \E t \in Tokens : Reset(t)
        \/ \E u \in Users : DeleteMe(u) \/ Expire(u)

Spec == Init /\ [][Next]_vars
-----------------------------------------------------------------------------
(* ConfirmEmail, "Order matters": no link is consumed while its user is    *)
(* unconfirmed, whoever resends, clicks twice or fails meanwhile, or every *)
(* later click would be welcomed and the gate would go on refusing.        *)
ConsumedMeansConfirmed ==
    \A u \in users : confirms[u] # None /\ confirms[u].consumed => u \in confirmed

(* A browser sent to ?welcome=true belongs to a confirmed account, unless  *)
(* the account has been deleted since.                                     *)
WelcomeMeansConfirmed ==
    \A r \in Requests : pc[r] = "welcome" => who[r] \in confirmed \/ who[r] \notin users

(* An account is confirmed only by a link that was minted for it and       *)
(* opened while good: not by signing up, nor by a link mailed to an        *)
(* account deleted earlier under the same address.                         *)
OwnLinkConfirms == \A u \in confirmed : \E t \in followed : owner[t] = u

(* ResetPasswordWithToken: "two concurrent submits of the same link cannot *)
(* both win, and a failure part-way cannot burn the token without changing *)
(* the password".                                                          *)
ResetExactlyOnce ==
    /\ \A t \in Tokens : spent[t] <= 1
    /\ \A u \in users : resets[u] # None =>
          (resets[u].consumed <=> spent[resets[u].token] = 1)
=============================================================================
