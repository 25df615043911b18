------------------------------ MODULE Sessions ------------------------------
(***************************************************************************)
(* Signing in with a wallet: the tabs of one browser (AuthContext.tsx,     *)
(* AccountMenu.tsx, the profile page, the comment form), the cookie they   *)
(* share, and the API's side of it: the session hook that runs before      *)
(* every handler (middleware/userSession.ts), the auth routes, nonces and  *)
(* sessions (services/auth.ts), comments and profiles.                     *)
(*                                                                         *)
(* A request is sent with the cookie of that moment, passes the hook and   *)
(* its handler one database call at a time, and its reply changes the      *)
(* cookie and the tab when it arrives. Replies arrive in any order.        *)
(***************************************************************************)
EXTENDS Integers, FiniteSets

CONSTANTS Tabs, Wallets, Nonces, Tokens, Names, DefaultName, Requests,
          NonceTTL, SessionTTL, RefreshThreshold,
          MaxTime, MaxEvents

NoTab    == "no tab"
NoWallet == "no wallet"
NoNonce  == "no nonce"
NoToken  == "no token"
NoName   == "no name"

\* A session outlives a request, which takes less than a tick.
ASSUME SessionsAssumption ==
  /\ NoTab \notin Tabs /\ NoWallet \notin Wallets /\ NoNonce \notin Nonces
  /\ NoToken \notin Tokens /\ NoName \notin Names \union {DefaultName}
  /\ NonceTTL \in Nat /\ SessionTTL \in Nat \ {0, 1} /\ MaxEvents \in Nat

VARIABLES
  now,       \* the clock
  nonces,    \* auth_nonces: who may sign it, until when, used or not
  sessions,  \* user_sessions; `row` says whether the row is still there
  users,     \* users: the display name of each wallet that has a row
  comments,  \* market_comments: the author and what the tab showed
  jar,       \* the browser's session cookie
  tab,       \* what each tab shows and does
  req,       \* requests in flight
  left,      \* how many calls and faults there may still be
  quiet,     \* history: the request sent last was sent alone, nothing failed since
  last,      \* history: the tab that learnt last who is signed in, if it asked
             \* alone and no call overlapped another or failed since
  late,      \* history: sessions extended after they had expired
  twice      \* history: nonces with two verifications in flight at once

data == <<nonces, sessions, users, comments>>
past == <<quiet, last, late, twice>>
vars == <<now, data, jar, tab, req, left, past>>

Nobody   == [wallet |-> NoWallet, name |-> NoName]
NoCookie == [token |-> NoToken, expires |-> 0]
Keep     == [token |-> NoToken, expires |-> -1]  \* a reply that sets none
Free     == [kind |-> "none", tab |-> NoTab, token |-> NoToken, user |-> Nobody,
             wallet |-> NoWallet, signer |-> NoWallet, nonce |-> NoNonce, name |-> NoName,
             cookie |-> Keep, ok |-> FALSE, aged |-> FALSE, at |-> "free"]

Init ==
  /\ now = 0
  /\ nonces = [n \in Nonces |-> [owner |-> NoWallet, expires |-> 0, consumed |-> FALSE]]
  /\ sessions = [s \in Tokens |-> [wallet |-> NoWallet, nonce |-> NoNonce, expires |-> 0,
                                   revoked |-> FALSE, row |-> FALSE]]
  /\ users = [w \in Wallets |-> NoName]
  /\ comments = {}
  /\ jar = NoCookie
  /\ tab = [t \in Tabs |-> [user |-> Nobody, status |-> "idle", signing |-> "no",
                            account |-> NoWallet, nonce |-> NoNonce, busy |-> {}]]
  /\ req = [r \in Requests |-> Free]
  /\ left = MaxEvents
  /\ quiet = TRUE
  /\ last = NoTab
  /\ late = {}
  /\ twice = {}

-----------------------------------------------------------------------------
(* Sessions and nonces as the code reads them                              *)

Expired(s) == sessions[s].expires <= now
Live(s) == sessions[s].row /\ ~sessions[s].revoked /\ ~Expired(s)
NeedsRefresh(s) == sessions[s].expires - now < RefreshThreshold
NonceValidUsed(n, w) == nonces[n].owner = w /\ nonces[n].expires >= now
NonceValid(n, w) ==
  nonces[n].owner = w /\ ~nonces[n].consumed /\ nonces[n].expires >= now
Unissued == {n \in Nonces : nonces[n].owner = NoWallet}
Unminted == {s \in Tokens : sessions[s].wallet = NoWallet}

InFlight == {r \in Requests : req[r].at # "free"}
SentCookie == IF jar.expires > now THEN jar.token ELSE NoToken

-----------------------------------------------------------------------------
(* What users do in a tab                                                  *)

\* A request carries the cookie of the moment it is sent.
Request(t, kind) ==
  [Free EXCEPT !.kind = kind, !.tab = t, !.token = SentCookie, !.at = "hook"]

\* Puts request q in a free slot.
Sends(q) ==
  /\ IF q.kind = "verify" THEN UNCHANGED left
     ELSE left > 0 /\ left' = left - 1
  /\ \E r \in Requests \ InFlight : req' = [req EXCEPT ![r] = q]
  /\ quiet' = (InFlight = {})
  /\ UNCHANGED <<now, data, jar, last, late>>

LoadMe(t) ==
  /\ tab[t].status = "idle"
  /\ tab' = [tab EXCEPT ![t].status = "loading"]
  /\ Sends(Request(t, "me"))
  /\ UNCHANGED twice

\* The button is there for a connected wallet while nobody is shown.
MaySignIn(t) == tab[t].user = Nobody /\ tab[t].signing = "no"

SignIn(t, w) ==
  /\ MaySignIn(t)
  /\ tab' = [tab EXCEPT ![t].signing = "nonce", ![t].account = w]
  /\ Sends([Request(t, "nonce") EXCEPT !.wallet = w])
  /\ UNCHANGED twice

Overlapping(n) == IF \E r \in InFlight : req[r].kind = "verify" /\ req[r].nonce = n
                  THEN {n} ELSE {}

\* The wallet may have been switched to another account meanwhile.
SignMessage(t, signer) ==
  /\ tab[t].signing = "sign"
  /\ tab' = [tab EXCEPT ![t].signing = "verify"]
  /\ Sends([Request(t, "verify") EXCEPT !.wallet = tab[t].account, !.signer = signer,
                                        !.nonce = tab[t].nonce])
  /\ twice' = twice \union Overlapping(tab[t].nonce)

RejectSignature(t) ==
  /\ tab[t].signing = "sign"
  /\ tab' = [tab EXCEPT ![t].signing = "no"]
  /\ UNCHANGED <<now, data, jar, req, left, past>>

MaySignOut(t) == tab[t].user # Nobody

SignOut(t) ==
  /\ MaySignOut(t)
  /\ Sends(Request(t, "logout"))
  /\ UNCHANGED <<tab, twice>>

MayComment(t) == tab[t].user # Nobody /\ "comment" \notin tab[t].busy

PostComment(t) ==
  /\ MayComment(t)
  /\ tab' = [tab EXCEPT ![t].busy = @ \union {"comment"}]
  /\ Sends(Request(t, "comment"))
  /\ UNCHANGED twice

SaveProfile(t, name) ==
  /\ tab[t].user # Nobody /\ tab[t].status # "loading"
  /\ "save" \notin tab[t].busy
  /\ name # tab[t].user.name
  /\ tab' = [tab EXCEPT ![t].busy = @ \union {"save"}]
  /\ Sends([Request(t, "save") EXCEPT !.name = name])
  /\ UNCHANGED twice

\* A verification that was sent arrives once more; nobody waits for the reply.
VerifyAgain(t) ==
  /\ left > 0 /\ tab[t].nonce # NoNonce /\ tab[t].signing # "sign"
  /\ left' = left - 1
  /\ \E r \in Requests \ InFlight :
       req' = [req EXCEPT ![r] = [Free EXCEPT !.kind = "verify", !.wallet = tab[t].account,
                                    !.signer = tab[t].account, !.nonce = tab[t].nonce,
                                    !.at = "hook"]]
  /\ quiet' = FALSE
  /\ twice' = twice \union Overlapping(tab[t].nonce)
  /\ UNCHANGED <<now, data, jar, tab, last, late>>

-----------------------------------------------------------------------------
(* The API: the hook, then the handler                                     *)

\* Where the handler of request q starts.
HandlerOf(q) ==
  CASE q.kind = "me" -> [q EXCEPT !.at = "reply", !.ok = (q.user # Nobody)]
    [] q.kind = "nonce" -> [q EXCEPT !.at = "issue"]
    [] q.kind = "verify" -> [q EXCEPT !.at = "find"]
    [] q.kind = "logout" -> [q EXCEPT !.at = IF q.token = NoToken THEN "reply" ELSE "revoke",
                                      !.ok = TRUE]
    [] OTHER -> [q EXCEPT !.at = IF q.user = Nobody THEN "reply" ELSE "write"]

Moves(r, q) == req' = [req EXCEPT ![r] = q] /\ UNCHANGED <<now, jar, tab, last, twice>>
Works == UNCHANGED <<left, quiet>>
Fails == left > 0 /\ left' = left - 1 /\ quiet' = FALSE
NotOk(q) == [q EXCEPT !.at = "reply", !.ok = FALSE]

\* The user row comes with the session row; the cookie is set again when the
\* session is extended.
SessionRead(q) ==
  IF ~sessions[q.token].row THEN HandlerOf([q EXCEPT !.cookie = NoCookie])
  ELSE IF ~Live(q.token) THEN [q EXCEPT !.cookie = NoCookie, !.at = "purge"]
  ELSE LET w == sessions[q.token].wallet
           known == [q EXCEPT !.user = [wallet |-> w, name |-> users[w]]]
       IN IF NeedsRefresh(q.token)
          THEN [known EXCEPT !.cookie = [token |-> q.token, expires |-> now + SessionTTL],
                             !.at = "touch"]
          ELSE HandlerOf(known)

\* A read that fails clears the cookie and goes on with nobody.
Hook(r) ==
  LET q == req[r] IN
  /\ q.at = "hook"
  /\ \/ /\ Works
        /\ Moves(r, IF q.token = NoToken THEN HandlerOf(q) ELSE SessionRead(q))
     \/ /\ q.token # NoToken /\ Fails
        /\ Moves(r, HandlerOf([q EXCEPT !.cookie = NoCookie]))
  /\ UNCHANGED <<data, late>>

\* Deletes by token what was dead when it was read; an error is ignored.
Purge(r) ==
  LET q == req[r] IN
  /\ q.at = "purge"
  /\ \/ Works /\ sessions' = [sessions EXCEPT ![q.token].row = FALSE]
     \/ Fails /\ UNCHANGED sessions
  /\ Moves(r, HandlerOf(q))
  /\ UNCHANGED <<nonces, users, comments, late>>

\* Writes the expiry computed when the session was read; an error is ignored.
Refresh(r) ==
  LET q == req[r] IN
  /\ q.at = "touch"
  /\ \/ /\ Works
        /\ sessions' = [sessions EXCEPT ![q.token].expires =
                          IF sessions[q.token].row THEN q.cookie.expires ELSE @]
        /\ late' = IF Expired(q.token) THEN late \union {q.token} ELSE late
     \/ Fails /\ UNCHANGED <<sessions, late>>
  /\ Moves(r, HandlerOf(q))
  /\ UNCHANGED <<nonces, users, comments>>

IssueNonce(r) ==
  LET q == req[r] IN
  /\ q.at = "issue"
  /\ \/ /\ Works
        /\ \E n \in Unissued :
             /\ nonces' = [nonces EXCEPT ![n] = [owner |-> q.wallet, consumed |-> FALSE,
                                                 expires |-> now + NonceTTL]]
             /\ Moves(r, [q EXCEPT !.at = "reply", !.ok = TRUE, !.nonce = n])
     \/ Fails /\ Moves(r, NotOk(q)) /\ UNCHANGED nonces
  /\ UNCHANGED <<sessions, users, comments, late>>

\* A signature of another account leaves the nonce unused.
FindValidNonce(r) ==
  LET q == req[r] IN
  /\ q.at = "find"
  /\ Works
  /\ Moves(r, IF NonceValid(q.nonce, q.wallet) /\ q.signer = q.wallet
              THEN [q EXCEPT !.at = "mark"] ELSE NotOk(q))
  /\ UNCHANGED <<data, late>>

MarkNonceConsumed(r) ==
  LET q == req[r] IN
  /\ q.at = "mark"
  /\ \/ Works /\ nonces' = [nonces EXCEPT ![q.nonce].consumed = TRUE]
              /\ Moves(r, [q EXCEPT !.at = "user"])
     \/ Fails /\ UNCHANGED nonces /\ Moves(r, NotOk(q))
  /\ UNCHANGED <<sessions, users, comments, late>>

FindUser(r) ==
  LET q == req[r] IN
  /\ q.at = "user"
  /\ Works
  /\ Moves(r, IF users[q.wallet] = NoName THEN [q EXCEPT !.at = "new user"]
              ELSE [q EXCEPT !.at = "session",
                             !.user = [wallet |-> q.wallet, name |-> users[q.wallet]]])
  /\ UNCHANGED <<data, late>>

\* The wallet is unique: the second of two creations fails.
CreateUser(r) ==
  LET q == req[r] IN
  /\ q.at = "new user"
  /\ \/ /\ users[q.wallet] = NoName /\ Works
        /\ users' = [users EXCEPT ![q.wallet] = DefaultName]
        /\ Moves(r, [q EXCEPT !.at = "session",
                              !.user = [wallet |-> q.wallet, name |-> DefaultName]])
     \/ users[q.wallet] # NoName /\ Works /\ UNCHANGED users /\ Moves(r, NotOk(q))
     \/ Fails /\ UNCHANGED users /\ Moves(r, NotOk(q))
  /\ UNCHANGED <<nonces, sessions, comments, late>>

CreateSession(r) ==
  LET q == req[r] IN
  /\ q.at = "session"
  /\ \/ /\ Works
        /\ \E s \in Unminted :
             /\ sessions' = [sessions EXCEPT ![s] =
                  [wallet |-> q.user.wallet, nonce |-> q.nonce, expires |-> now + SessionTTL,
                   revoked |-> FALSE, row |-> TRUE]]
             /\ Moves(r, [q EXCEPT !.at = "reply", !.ok = TRUE,
                                   !.cookie = [token |-> s, expires |-> now + SessionTTL]])
     \/ Fails /\ Moves(r, NotOk(q)) /\ UNCHANGED sessions
  /\ UNCHANGED <<nonces, users, comments, late>>

LoggedOut(q) == [q EXCEPT !.at = "reply", !.cookie = NoCookie]
RevokedAll(s) == {x \in Tokens : sessions[x].wallet = sessions[s].wallet}
Revoked(s) == {s}

\* The reply is ok and the cookie cleared even if the update failed.
RevokeSession(r) ==
  LET q == req[r] IN
  /\ q.at = "revoke"
  /\ \/ /\ Works
        /\ sessions' = [s \in Tokens |->
             [sessions[s] EXCEPT !.revoked = @ \/ s \in Revoked(q.token)]]
     \/ Fails /\ UNCHANGED sessions
  /\ Moves(r, LoggedOut(q))
  /\ UNCHANGED <<nonces, users, comments, late>>

\* A comment or a profile is written for the user the hook found.
WriteComment(r) ==
  LET q == req[r] IN
  /\ q.at = "write" /\ q.kind = "comment"
  /\ \/ /\ Works
        /\ comments' = comments \union
             {[author |-> q.user.wallet, shown |-> tab[q.tab].user.wallet,
               sure |-> quiet /\ last = q.tab]}
        /\ Moves(r, [q EXCEPT !.at = "reply", !.ok = TRUE])
     \/ Fails /\ Moves(r, NotOk(q)) /\ UNCHANGED comments
  /\ UNCHANGED <<nonces, sessions, users, late>>

WriteProfile(r) ==
  LET q == req[r] IN
  /\ q.at = "write" /\ q.kind = "save"
  /\ \/ /\ Works
        /\ users' = [users EXCEPT ![q.user.wallet] = q.name]
        /\ Moves(r, [q EXCEPT !.at = "reply", !.ok = TRUE])
     \/ Fails /\ Moves(r, NotOk(q)) /\ UNCHANGED users
  /\ UNCHANGED <<nonces, sessions, comments, late>>

-----------------------------------------------------------------------------
(* Replies                                                                 *)

CookieAfter(q) == IF q.cookie = Keep THEN jar ELSE q.cookie

\* The tab after a reply, or after an error in place of one.
AfterMe(v, q, ok) ==
  [v EXCEPT !.user = IF ok THEN q.user ELSE Nobody,
            !.status = IF ok THEN "authenticated" ELSE "unauthenticated"]
AfterNonce(v, q, ok) ==
  IF ok THEN [v EXCEPT !.signing = "sign", !.nonce = q.nonce]
  ELSE [v EXCEPT !.signing = "no"]
AfterVerify(v, q, ok) ==
  IF ok THEN [v EXCEPT !.signing = "no", !.user = q.user, !.status = "authenticated"]
  ELSE [v EXCEPT !.signing = "no"]
AfterLogout(v) == [v EXCEPT !.user = Nobody, !.status = "unauthenticated"]
AfterComment(v) == [v EXCEPT !.busy = @ \ {"comment"}]
AfterSave(v, ok) ==
  [v EXCEPT !.busy = @ \ {"save"}, !.status = IF ok THEN "loading" ELSE @]

TabAfter(q, ok) ==
  LET v == tab[q.tab] IN
  CASE q.kind = "me" -> AfterMe(v, q, ok)
    [] q.kind = "nonce" -> AfterNonce(v, q, ok)
    [] q.kind = "verify" -> AfterVerify(v, q, ok)
    [] q.kind = "logout" -> AfterLogout(v)
    [] q.kind = "comment" -> AfterComment(v)
    [] q.kind = "save" -> AfterSave(v, ok)

Tells(q) == q.kind \in {"me", "logout"} \/ (q.kind = "verify" /\ q.ok)

\* A profile that was saved is followed by loading the user again.
NoFollowUp(q) == Free
FollowUp(q) ==
  IF q.kind = "save" /\ q.ok
  THEN [Free EXCEPT !.kind = "me", !.tab = q.tab, !.at = "hook",
                    !.token = IF CookieAfter(q).expires > now THEN CookieAfter(q).token
                              ELSE NoToken]
  ELSE Free

\* The cookie is stored before the page sees the reply.
Deliver(r) ==
  LET q == req[r] IN
  /\ q.at = "reply" /\ q.tab # NoTab
  /\ jar' = CookieAfter(q)
  /\ tab' = [tab EXCEPT ![q.tab] = TabAfter(q, q.ok)]
  /\ req' = [req EXCEPT ![r] = FollowUp(q)]
  /\ last' = IF ~quiet THEN NoTab ELSE IF Tells(q) THEN q.tab
             ELSE IF q.cookie = NoCookie THEN NoTab ELSE last
  /\ UNCHANGED <<now, data, left, quiet, late, twice>>

Lose(r) ==
  LET q == req[r] IN
  /\ q.at = "reply"
  /\ IF q.tab = NoTab THEN Works /\ UNCHANGED tab
     ELSE Fails /\ tab' = [tab EXCEPT ![q.tab] = TabAfter(q, FALSE)]
  /\ req' = [req EXCEPT ![r] = Free]
  /\ last' = NoTab
  /\ UNCHANGED <<now, data, jar, late, twice>>

\* A request takes less than a tick: the clock's unit is that of the lifetimes.
Tick ==
  /\ now < MaxTime
  /\ \A r \in InFlight : ~req[r].aged
  /\ now' = now + 1
  /\ req' = [r \in Requests |-> [req[r] EXCEPT !.aged = r \in InFlight]]
  /\ UNCHANGED <<data, jar, tab, left, past>>

-----------------------------------------------------------------------------
User(t) ==
  \/ LoadMe(t) \/ RejectSignature(t) \/ SignOut(t) \/ PostComment(t) \/ VerifyAgain(t)
  \/ \E w \in Wallets : SignIn(t, w) \/ SignMessage(t, w)
  \/ \E name \in Names : SaveProfile(t, name)

Api(r) ==
  \/ Hook(r) \/ Purge(r) \/ Refresh(r)
  \/ IssueNonce(r) \/ FindValidNonce(r) \/ MarkNonceConsumed(r)
  \/ FindUser(r) \/ CreateUser(r) \/ CreateSession(r)
  \/ RevokeSession(r) \/ WriteComment(r) \/ WriteProfile(r)

Next ==
  \/ \E t \in Tabs : User(t)
  \/ \E r \in Requests : Api(r) \/ Deliver(r) \/ Lose(r)
  \/ Tick

Spec == Init /\ [][Next]_vars

-----------------------------------------------------------------------------
(* Properties                                                              *)

\* A nonce signs in once: the sessions made from it are at most one, unless two
\* verifications of it were in flight together, which check it before either
\* marks it (verifySignatureAndCreateSession).
NonceOnce ==
  \A n \in Nonces \ twice : Cardinality({s \in Tokens : sessions[s].nonce = n}) <= 1

\* The cookie the browser sends names a session that is there and not revoked.
JarTrue ==
  SentCookie # NoToken => sessions[SentCookie].row /\ ~sessions[SentCookie].revoked

\* The tab's user is the cookie's, by the name in the table, and it shows nobody
\* only when there is no cookie left that the API would accept.
ShowsTruth(t) ==
  IF tab[t].user = Nobody THEN SentCookie = NoToken
  ELSE /\ jar.token # NoToken
       /\ sessions[jar.token].wallet = tab[t].user.wallet
       /\ users[tab[t].user.wallet] = tab[t].user.name

\* Replies that crossed, failed or were lost leave the browser with any screen
\* and any cookie. From the first answer to a tab that asked alone, and as long
\* as calls then follow one another and succeed, the cookie, the session's row
\* and that tab's screen agree on who is signed in, and a comment of that tab
\* appears under the account it shows, through refreshes and sign-ins of the
\* other tabs too.
SignedInTrue ==
  /\ InFlight = {} /\ last # NoTab => JarTrue /\ ShowsTruth(last)
  /\ \A c \in comments : c.sure => c.author = c.shown

\* A live session ends by its own logout or by the clock, never through what
\* other requests do. A deletion decided on an expired row may only hit a row
\* that a slower request extended after its expiry.
SessionKept ==
  [][\A s \in Tokens : Live(s) /\ ~Live(s)' =>
       \/ now' # now
       \/ s \in late
       \/ \E r \in Requests : req[r].at = "revoke" /\ req[r].token = s /\ req'[r].at = "reply"]_vars
=============================================================================
