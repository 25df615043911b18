---------------------------- MODULE SessionsProofs ----------------------------
(***************************************************************************)
(* Theorems about Sessions, for any number of tabs, wallets, nonces,       *)
(* sessions and requests in flight, any lifetimes and any failures; and    *)
(* about what else the run of MC_Requests composes with it, for any        *)
(* number of requests and processes.                                       *)
(***************************************************************************)
EXTENDS MC_Requests, Sequences, FiniteSetTheorems, WellFoundedInduction, TLAPS

Kinds == {"none", "me", "nonce", "verify", "logout", "comment", "save"}
Stages == {"free", "hook", "purge", "touch", "issue", "find", "mark", "user", "new user",
           "session", "revoke", "write", "reply"}
\* A verification that has found its nonce valid.
Past == {"mark", "user", "new user", "session"}

Tabs0 == Tabs \union {NoTab}
Wallets0 == Wallets \union {NoWallet}
Nonces0 == Nonces \union {NoNonce}
Tokens0 == Tokens \union {NoToken}
Names0 == Names \union {DefaultName, NoName}
Cookies == [token : Tokens0, expires : Int]
Profiles == [wallet : Wallets0, name : Names0]

NonceType == [owner : Wallets0, expires : Int, consumed : BOOLEAN]
SessionType == [wallet : Wallets0, nonce : Nonces0, expires : Int, revoked : BOOLEAN,
                row : BOOLEAN]
TabType == [user : Profiles,
            status : {"idle", "loading", "authenticated", "unauthenticated"},
            signing : {"no", "nonce", "sign", "verify"},
            account : Wallets0, nonce : Nonces0, busy : SUBSET {"comment", "save"}]
RequestType == [kind : Kinds, tab : Tabs0, token : Tokens0, user : Profiles,
                wallet : Wallets0, signer : Wallets0, nonce : Nonces0, name : Names0,
                cookie : Cookies, ok : BOOLEAN, aged : BOOLEAN, at : Stages]

TypeOK ==
  /\ now \in Nat
  /\ nonces \in [Nonces -> NonceType]
  /\ sessions \in [Tokens -> SessionType]
  /\ users \in [Wallets -> Names0]
  /\ jar \in Cookies
  /\ tab \in [Tabs -> TabType]
  /\ req \in [Requests -> RequestType]

\* What a request relies on: nonces that were issued or used, sessions that were
\* made or have ended, tabs whose wallet is known, the time.
World == [issued   |-> {n \in Nonces : nonces[n].owner # NoWallet},
          consumed |-> {n \in Nonces : nonces[n].consumed},
          minted   |-> {s \in Tokens : sessions[s].wallet # NoWallet},
          ended    |-> {s \in Tokens : ~Live(s) \/ s \in late},
          known    |-> {t \in Tabs : tab[t].account # NoWallet},
          now      |-> now]

Follows(v, w) ==
  /\ w.issued \subseteq v.issued /\ w.consumed \subseteq v.consumed
  /\ w.minted \subseteq v.minted /\ w.known \subseteq v.known
  /\ w.minted \intersect w.ended \subseteq v.ended
  /\ v.now = w.now

\* A request in world w: it holds what its stage needs.
RequestOK(q, w) ==
  /\ q.at # "free" => q.kind # "none"
  /\ q.at = "issue" => q.kind = "nonce"
  /\ q.at \in Past \union {"find"} => q.kind = "verify"
  /\ q.kind = "nonce" => q.wallet # NoWallet /\ q.tab \in w.known
  /\ q.kind = "nonce" /\ q.ok => q.nonce \in w.issued
  /\ q.kind = "verify" => q.nonce \in w.issued /\ q.wallet # NoWallet
  /\ q.at \in Past \ {"mark"} => q.nonce \in w.consumed
  /\ q.user # Nobody => q.user.wallet # NoWallet
  /\ q.at \in {"session", "write"} => q.user # Nobody
  /\ q.at = "write" => q.kind \in {"comment", "save"}
  /\ q.token # NoToken => q.token \in w.minted
  /\ q.cookie.token # NoToken => q.cookie.token \in w.minted
  /\ q.at \in {"purge", "touch", "revoke"} => q.token # NoToken
  /\ q.at = "purge" => q.token \in w.ended
  /\ q.at = "touch" => q.cookie.expires + (IF q.aged THEN 1 ELSE 0) >= w.now + SessionTTL
  /\ q.tab = NoTab => q.kind \in {"none", "verify"}

TabOK(v, w) ==
  /\ v.signing = "sign" => v.nonce # NoNonce
  /\ v.nonce # NoNonce => v.nonce \in w.issued /\ v.account # NoWallet

BasicInv ==
  /\ TypeOK
  /\ \A r \in Requests : RequestOK(req[r], World)
  /\ \A t \in Tabs : TabOK(tab[t], World)
  /\ jar.token # NoToken => jar.token \in World.minted
  /\ \A s \in Tokens : sessions[s].nonce # NoNonce => sessions[s].nonce \in World.consumed
  /\ World.consumed \subseteq World.issued

\* q is a verification of n in flight.
Verifies(q, n) == q.at # "free" /\ q.kind = "verify" /\ q.nonce = n

OnceOK(n) ==
  /\ \A r1, r2 \in Requests : Verifies(req[r1], n) /\ Verifies(req[r2], n) => r1 = r2
  /\ \A r \in Requests, s \in Tokens :
       Verifies(req[r], n) /\ sessions[s].nonce = n => req[r].at \notin Past
  /\ \A s1, s2 \in Tokens : sessions[s1].nonce = n /\ sessions[s2].nonce = n => s1 = s2

NonceInv == \A n \in Nonces \ twice : OnceOK(n)

-----------------------------------------------------------------------------
(* Requests as records. *)

LEMMA Constants ==
  /\ NoTab \notin Tabs /\ NoWallet \notin Wallets /\ NoNonce \notin Nonces
  /\ NoToken \notin Tokens /\ NonceTTL \in Nat /\ SessionTTL \in Nat /\ SessionTTL > 1
BY SessionsAssumption

LEMMA FreeIs ==
  /\ Free \in RequestType /\ Nobody \in Profiles /\ NoCookie \in Cookies /\ Keep \in Cookies
  /\ Nobody.wallet = NoWallet /\ NoCookie.token = NoToken /\ Keep.token = NoToken
  /\ Free.kind = "none" /\ Free.at = "free" /\ Free.token = NoToken /\ Free.tab = NoTab
  /\ Free.user = Nobody /\ Free.cookie = Keep /\ Free.nonce = NoNonce /\ Free.aged = FALSE
  /\ Free.ok = FALSE
  /\ NoCookie.expires = 0
BY DEF Free, Nobody, NoCookie, Keep, RequestType, Profiles, Cookies, Kinds, Stages, Tabs0,
   Wallets0, Nonces0, Tokens0, Names0

\* What a request keeps from its sending to its reply.
Same(p, q) ==
  /\ p.kind = q.kind /\ p.tab = q.tab /\ p.token = q.token /\ p.wallet = q.wallet
  /\ p.signer = q.signer /\ p.name = q.name /\ p.aged = q.aged

LEMMA StageNames ==
  /\ "free" \in Stages /\ "hook" \in Stages /\ "purge" \in Stages /\ "touch" \in Stages
  /\ "issue" \in Stages /\ "find" \in Stages /\ "mark" \in Stages /\ "user" \in Stages
  /\ "new user" \in Stages /\ "session" \in Stages /\ "revoke" \in Stages
  /\ "write" \in Stages /\ "reply" \in Stages
BY DEF Stages

LEMMA AtChanges ==
  ASSUME NEW q \in RequestType, NEW a \in Stages,
         NEW p, p = [q EXCEPT !.at = a]
  PROVE  /\ p \in RequestType /\ Same(p, q) /\ p.at = a /\ p.user = q.user
         /\ p.cookie = q.cookie /\ p.ok = q.ok /\ p.nonce = q.nonce
BY DEF RequestType, Same

LEMMA AtOkChanges ==
  ASSUME NEW q \in RequestType, NEW a \in Stages, NEW o \in BOOLEAN,
         NEW p, p = [q EXCEPT !.at = a, !.ok = o]
  PROVE  /\ p \in RequestType /\ Same(p, q) /\ p.at = a /\ p.user = q.user
         /\ p.cookie = q.cookie /\ p.ok = o /\ p.nonce = q.nonce
BY DEF RequestType, Same

LEMMA CookieChanges ==
  ASSUME NEW q \in RequestType, NEW k \in Cookies,
         NEW p, p = [q EXCEPT !.cookie = k]
  PROVE  /\ p \in RequestType /\ Same(p, q) /\ p.at = q.at /\ p.user = q.user
         /\ p.cookie = k /\ p.ok = q.ok /\ p.nonce = q.nonce
BY DEF RequestType, Same

LEMMA UserChanges ==
  ASSUME NEW q \in RequestType, NEW u \in Profiles,
         NEW p, p = [q EXCEPT !.user = u]
  PROVE  /\ p \in RequestType /\ Same(p, q) /\ p.at = q.at /\ p.user = u
         /\ p.cookie = q.cookie /\ p.ok = q.ok /\ p.nonce = q.nonce
BY DEF RequestType, Same

LEMMA RequestIs ==
  ASSUME NEW q \in RequestType
  PROVE  /\ q.kind \in Kinds /\ q.at \in Stages /\ q.user \in Profiles /\ q.cookie \in Cookies
         /\ q.token \in Tokens0 /\ q.wallet \in Wallets0 /\ q.nonce \in Nonces0
         /\ q.tab \in Tabs0 /\ q.name \in Names0 /\ q.ok \in BOOLEAN /\ q.aged \in BOOLEAN
BY DEF RequestType

(* A request that is still in good order in a later world.                  *)
LEMMA Later ==
  ASSUME NEW q, NEW w, NEW v, RequestOK(q, w), Follows(v, w)
  PROVE  RequestOK(q, v)
BY DEF RequestOK, Follows

\* What the handler of request q may count on.
Ready(q, w) ==
  /\ q.kind # "none"
  /\ q.kind = "nonce" => q.wallet # NoWallet /\ q.tab \in w.known
  /\ q.kind = "nonce" /\ q.ok => q.nonce \in w.issued
  /\ q.kind = "verify" => q.nonce \in w.issued /\ q.wallet # NoWallet
  /\ q.user # Nobody => q.user.wallet # NoWallet
  /\ q.token # NoToken => q.token \in w.minted
  /\ q.cookie.token # NoToken => q.cookie.token \in w.minted
  /\ q.tab = NoTab => q.kind \in {"none", "verify"}

LEMMA ReadyOnce ==
  ASSUME NEW q, NEW w, RequestOK(q, w), q.at # "free", NEW p, Same(p, q),
         p.nonce = q.nonce, p.ok = q.ok, p.user # Nobody => p.user.wallet # NoWallet,
         p.cookie.token # NoToken => p.cookie.token \in w.minted
  PROVE  Ready(p, w)
BY DEF Ready, RequestOK, Same

(* The handler starts with what the hook found.                             *)
LEMMA HandlerStarts ==
  ASSUME NEW w, NEW q \in RequestType,
         Ready(q, w), NEW p, p = HandlerOf(q)
  PROVE  /\ p \in RequestType /\ Same(p, q) /\ p.user = q.user /\ p.cookie = q.cookie
         /\ p.nonce = q.nonce
         /\ p.at \in {"reply", "issue", "find", "revoke", "write"}
         /\ RequestOK(p, w)
<1>1. q.kind \in Kinds
  BY RequestIs
<1>2. CASE q.kind = "me"
  <2>1. p = [q EXCEPT !.at = "reply", !.ok = (q.user # Nobody)]
    BY <1>2 DEF HandlerOf
  <2>2. (q.user # Nobody) \in BOOLEAN
    BY Zenon
  <2>3. /\ p \in RequestType /\ Same(p, q) /\ p.user = q.user /\ p.cookie = q.cookie
        /\ p.nonce = q.nonce /\ p.at = "reply"
    BY <2>1, <2>2 DEF RequestType, Same, Stages
  <2>4. QED
    BY <1>2, <2>3 DEF RequestOK, Ready, Same, Past
<1>3. CASE q.kind = "nonce"
  <2>1. p = [q EXCEPT !.at = "issue"]
    BY <1>3 DEF HandlerOf
  <2>2. /\ p \in RequestType /\ Same(p, q) /\ p.user = q.user /\ p.cookie = q.cookie
        /\ p.nonce = q.nonce /\ p.at = "issue" /\ p.ok = q.ok
    BY <2>1 DEF RequestType, Same, Stages
  <2>3. QED
    BY <1>3, <2>2 DEF RequestOK, Ready, Same, Past
<1>4. CASE q.kind = "verify"
  <2>1. p = [q EXCEPT !.at = "find"]
    BY <1>4 DEF HandlerOf
  <2>2. /\ p \in RequestType /\ Same(p, q) /\ p.user = q.user /\ p.cookie = q.cookie
        /\ p.nonce = q.nonce /\ p.at = "find"
    BY <2>1 DEF RequestType, Same, Stages
  <2>3. QED
    BY <1>4, <2>2 DEF RequestOK, Ready, Same, Past
<1>5. CASE q.kind = "logout"
  <2> DEFINE a == IF q.token = NoToken THEN "reply" ELSE "revoke"
  <2>1. p = [q EXCEPT !.at = a, !.ok = TRUE]
    BY <1>5 DEF HandlerOf
  <2>2. a \in Stages /\ TRUE \in BOOLEAN
    BY DEF Stages
  <2>3. /\ p \in RequestType /\ Same(p, q) /\ p.user = q.user /\ p.cookie = q.cookie
        /\ p.nonce = q.nonce /\ p.at = a
    BY <2>1 DEF RequestType, Same, Stages
  <2>4. QED
    BY <1>5, <2>3 DEF RequestOK, Ready, Same, Past
<1>6. CASE q.kind \in {"comment", "save"}
  <2> DEFINE a == IF q.user = Nobody THEN "reply" ELSE "write"
  <2>1. p = [q EXCEPT !.at = a]
    BY <1>6 DEF HandlerOf
  <2>2. a \in Stages
    BY DEF Stages
  <2>3. /\ p \in RequestType /\ Same(p, q) /\ p.user = q.user /\ p.cookie = q.cookie
        /\ p.nonce = q.nonce /\ p.at = a
    BY <2>1, <2>2, AtChanges
  <2>4. QED
    BY <1>6, <2>3 DEF RequestOK, Ready, Same, Past
<1>7. QED
  BY <1>1, <1>2, <1>3, <1>4, <1>5, <1>6 DEF Kinds, Ready

-----------------------------------------------------------------------------
(* What a step has to show. *)

LEMMA NowIs ==
  ASSUME BasicInv, NEW r \in Requests
  PROVE  /\ req[r] \in RequestType /\ req \in [Requests -> RequestType]
         /\ RequestOK(req[r], World)
BY DEF BasicInv, TypeOK

LEMMA SameWorld ==
  ASSUME UNCHANGED <<now, nonces, sessions, late, tab>>
  PROVE  World' = World
BY DEF World, Live, Expired

LEMMA WorldIs ==
  /\ World.issued = {n \in Nonces : nonces[n].owner # NoWallet}
  /\ World.consumed = {n \in Nonces : nonces[n].consumed}
  /\ World.minted = {s \in Tokens : sessions[s].wallet # NoWallet}
  /\ World.ended = {s \in Tokens : ~Live(s) \/ s \in late}
  /\ World.known = {t \in Tabs : tab[t].account # NoWallet}
  /\ World.now = now
BY DEF World

LEMMA FollowsSelf == \A w : Follows(w, w)
BY DEF Follows

(* One request becomes W; the world may have changed behind it.              *)
LEMMA RequestMoves ==
  ASSUME BasicInv, NEW r \in Requests, NEW W \in RequestType, req' = [req EXCEPT ![r] = W],
         RequestOK(W, World'), Follows(World', World)
  PROVE  /\ req' \in [Requests -> RequestType]
         /\ \A d \in Requests : RequestOK(req'[d], World')
<1>1. req \in [Requests -> RequestType]
  BY NowIs
<1>2. \A d \in Requests : req'[d] = IF d = r THEN W ELSE req[d]
  BY <1>1
<1>3. \A d \in Requests : RequestOK(req[d], World')
  BY NowIs, Later
<1>4. QED
  BY <1>1, <1>2, <1>3

(* A step of the API: it changes neither the browser nor the clock.          *)
LEMMA ApiMoves ==
  ASSUME BasicInv, NEW r \in Requests, NEW W \in RequestType, req' = [req EXCEPT ![r] = W],
         RequestOK(W, World'), Follows(World', World),
         UNCHANGED <<now, jar, tab>>, users' \in [Wallets -> Names0],
         nonces' \in [Nonces -> NonceType], sessions' \in [Tokens -> SessionType],
         \A s \in Tokens : sessions'[s].nonce # NoNonce => sessions'[s].nonce \in World'.consumed,
         World'.consumed \subseteq World'.issued
  PROVE  BasicInv'
<1>1. req' \in [Requests -> RequestType] /\ \A d \in Requests : RequestOK(req'[d], World')
  BY RequestMoves
<1>2. TypeOK'
  BY <1>1 DEF BasicInv, TypeOK
<1>3. \A t \in Tabs : TabOK(tab'[t], World')
  BY DEF BasicInv, TabOK, Follows
<1>4. jar'.token # NoToken => jar'.token \in World'.minted
  BY DEF BasicInv, Follows
<1>5. QED
  BY <1>1, <1>2, <1>3, <1>4 DEF BasicInv

(* A step of the API that only reads.                                       *)
LEMMA ReadMoves ==
  ASSUME BasicInv, NEW r \in Requests, NEW W \in RequestType, req' = [req EXCEPT ![r] = W],
         RequestOK(W, World), UNCHANGED <<now, jar, tab, users, nonces, sessions, late>>
  PROVE  BasicInv'
<1>1. World' = World
  BY SameWorld
<1>2. /\ RequestOK(W, World') /\ Follows(World', World)
      /\ World'.consumed \subseteq World'.issued
      /\ \A s \in Tokens : sessions'[s].nonce # NoNonce => sessions'[s].nonce \in World'.consumed
  BY <1>1, FollowsSelf DEF BasicInv
<1>3. /\ users' \in [Wallets -> Names0] /\ nonces' \in [Nonces -> NonceType]
      /\ sessions' \in [Tokens -> SessionType]
  BY DEF BasicInv, TypeOK
<1>4. QED
  BY <1>2, <1>3, ApiMoves

(* A request becomes W, which verifies nothing that it did not before, and    *)
(* no session changes its nonce.                                            *)
LEMMA OnceMoves ==
  ASSUME BasicInv, NonceInv, NEW r \in Requests, NEW W, req' = [req EXCEPT ![r] = W],
         \A s \in Tokens : sessions'[s].nonce = sessions[s].nonce,
         twice \subseteq twice',
         \A n \in Nonces : Verifies(W, n) =>
            /\ Verifies(req[r], n)
            /\ W.at \in Past => req[r].at \in Past \/ \A s \in Tokens : sessions[s].nonce # n
  PROVE  NonceInv'
<1>1. \A d \in Requests : req'[d] = IF d = r THEN W ELSE req[d]
  BY NowIs
<1>2. ASSUME NEW n \in Nonces \ twice'
      PROVE  OnceOK(n)'
  <2>1. OnceOK(n)
    BY DEF NonceInv
  <2>2. \A d \in Requests : Verifies(req'[d], n) => Verifies(req[d], n)
    BY <1>1
  <2>3. \A r1, r2 \in Requests : Verifies(req'[r1], n) /\ Verifies(req'[r2], n) => r1 = r2
    BY <2>1, <2>2 DEF OnceOK
  <2>4. \A d \in Requests, s \in Tokens :
          Verifies(req'[d], n) /\ sessions'[s].nonce = n => req'[d].at \notin Past
    BY <1>1, <2>1 DEF OnceOK
  <2>5. QED
    BY <2>1, <2>3, <2>4 DEF OnceOK
<1>3. QED
  BY <1>2 DEF NonceInv

-----------------------------------------------------------------------------
(* The steps of the API. *)

\* What is left of q where it ends or starts its handler.
Ends(W, q) == Same(W, q) /\ W.nonce = q.nonce /\ W.user = q.user /\ W.at = "reply" /\ ~W.ok

LEMMA NotOkEnds ==
  ASSUME NEW q \in RequestType, NEW W, W = NotOk(q)
  PROVE  W \in RequestType /\ Ends(W, q) /\ W.cookie = q.cookie
BY DEF NotOk, RequestType, Same, Stages, Ends

LEMMA EndsOK ==
  ASSUME NEW w, NEW q, NEW W, RequestOK(q, w), Ends(W, q), q.at # "free",
         W.cookie.token # NoToken => W.cookie.token \in w.minted
  PROVE  RequestOK(W, w)
BY DEF RequestOK, Ends, Same, Past

LEMMA ReadSession ==
  ASSUME BasicInv, NEW q \in RequestType, RequestOK(q, World), q.at = "hook",
         q.token # NoToken, NEW W, W = SessionRead(q)
  PROVE  /\ W \in RequestType /\ Same(W, q) /\ W.nonce = q.nonce
         /\ W.at \notin Past /\ W.at # "free" /\ RequestOK(W, World)
<1> DEFINE s == sessions[q.token]
           u == [wallet |-> s.wallet, name |-> users[s.wallet]]
           bare == [q EXCEPT !.cookie = NoCookie]
           known == [q EXCEPT !.user = u]
<1>1. q.token \in Tokens /\ s.wallet # NoWallet /\ s \in SessionType
  BY WorldIs DEF RequestOK, BasicInv, TypeOK
<1>2. u \in Profiles /\ u.wallet # NoWallet
  BY <1>1 DEF BasicInv, TypeOK, SessionType, Wallets0, Profiles
<1>3. /\ bare \in RequestType /\ Same(bare, q) /\ bare.at = "hook" /\ bare.user = q.user
      /\ bare.cookie = NoCookie /\ bare.ok = q.ok /\ bare.nonce = q.nonce
  BY FreeIs, CookieChanges
<1> HIDE DEF u
<1>4. /\ known \in RequestType /\ Same(known, q) /\ known.at = "hook" /\ known.user = u
      /\ known.cookie = q.cookie /\ known.ok = q.ok /\ known.nonce = q.nonce
  BY <1>2, UserChanges
<1> HIDE DEF bare, known, s
<1>5. CASE W = HandlerOf(bare)
  <2>1. q.user # Nobody => q.user.wallet # NoWallet
    BY DEF RequestOK
  <2>2. Ready(bare, World)
    BY <1>3, <2>1, FreeIs, ReadyOnce
  <2>3. /\ W \in RequestType /\ Same(W, bare) /\ W.nonce = bare.nonce /\ RequestOK(W, World)
        /\ W.at \in {"reply", "issue", "find", "revoke", "write"}
    BY <1>3, <1>5, <2>2, HandlerStarts
  <2>4. QED
    BY <1>3, <2>3 DEF Same, Past
<1>6. CASE W = HandlerOf(known)
  <2>1. q.cookie.token # NoToken => q.cookie.token \in World.minted
    BY DEF RequestOK
  <2>2. Ready(known, World)
    BY <1>2, <1>4, <2>1, ReadyOnce
  <2>3. /\ W \in RequestType /\ Same(W, known) /\ W.nonce = known.nonce /\ RequestOK(W, World)
        /\ W.at \in {"reply", "issue", "find", "revoke", "write"}
    BY <1>4, <1>6, <2>2, HandlerStarts
  <2>4. QED
    BY <1>4, <2>3 DEF Same, Past
<1>7. CASE ~Live(q.token) /\ W = [q EXCEPT !.cookie = NoCookie, !.at = "purge"]
  <2>1. W = [bare EXCEPT !.at = "purge"]
    BY <1>7 DEF bare
  <2>2. W \in RequestType /\ Same(W, q) /\ W.nonce = q.nonce /\ W.at = "purge"
        /\ W.user = q.user /\ W.cookie = NoCookie /\ W.ok = q.ok
    BY <1>3, <2>1 DEF RequestType, Same, Stages
  <2>3. q.token \in World.ended
    BY <1>1, <1>7, WorldIs
  <2>4. QED
    BY <2>2, <2>3, FreeIs DEF RequestOK, Same, Past
<1>8. CASE W = [known EXCEPT !.cookie = [token |-> q.token, expires |-> now + SessionTTL],
                             !.at = "touch"]
  <2> DEFINE k == [token |-> q.token, expires |-> now + SessionTTL]
  <2>1. k \in Cookies /\ k.token = q.token /\ k.expires = now + SessionTTL
    BY <1>1, Constants DEF BasicInv, TypeOK, Cookies, Tokens0
  <2> HIDE DEF k
  <2>2. W = [known EXCEPT !.cookie = k, !.at = "touch"]
    BY <1>8 DEF k
  <2>3. W \in RequestType /\ Same(W, q) /\ W.nonce = q.nonce /\ W.at = "touch"
        /\ W.user = u /\ W.cookie = k /\ W.ok = q.ok
    BY <1>4, <2>1, <2>2 DEF RequestType, Same, Stages
  <2>4. W.cookie.expires + (IF W.aged THEN 1 ELSE 0) >= World.now + SessionTTL
    <3>1. World.now + SessionTTL \in Nat /\ k.expires = World.now + SessionTTL
      BY <2>1, Constants, WorldIs DEF BasicInv, TypeOK
    <3>2. QED
      BY <2>3, <3>1
  <2>5. QED
    BY <1>1, <1>2, <2>1, <2>3, <2>4, WorldIs DEF RequestOK, Same, Past
<1>9. QED
  BY <1>5, <1>6, <1>7, <1>8 DEF SessionRead, bare, known, u, s

LEMMA HookKeeps ==
  ASSUME BasicInv, NonceInv, NEW r \in Requests, Hook(r)
  PROVE  BasicInv' /\ NonceInv'
<1> DEFINE q == req[r]
           bare == [q EXCEPT !.cookie = NoCookie]
<1>1. q.at = "hook" /\ q \in RequestType /\ RequestOK(q, World)
  BY NowIs DEF Hook
<1>2. /\ UNCHANGED <<now, jar, tab, users, nonces, sessions, late, twice>>
      /\ \/ req' = [req EXCEPT ![r] = IF q.token = NoToken THEN HandlerOf(q) ELSE SessionRead(q)]
         \/ req' = [req EXCEPT ![r] = HandlerOf(bare)]
  BY DEF Hook, Moves, data
<1>3. /\ bare \in RequestType /\ Same(bare, q) /\ bare.user = q.user
      /\ bare.cookie = NoCookie /\ bare.ok = q.ok /\ bare.nonce = q.nonce
  BY <1>1, FreeIs, CookieChanges
<1> HIDE DEF q, bare
<1>4. Ready(bare, World) /\ Ready(q, World)
  <2>1. /\ q.user # Nobody => q.user.wallet # NoWallet
        /\ q.cookie.token # NoToken => q.cookie.token \in World.minted
    BY <1>1 DEF RequestOK
  <2>2. QED
    BY <1>1, <1>3, <2>1, FreeIs, ReadyOnce DEF Same
<1>5. ASSUME NEW W, req' = [req EXCEPT ![r] = W], W \in RequestType, Same(W, q),
             W.nonce = q.nonce, W.at \notin Past, RequestOK(W, World)
      PROVE  BasicInv' /\ NonceInv'
  <2>1. BasicInv'
    BY <1>2, <1>5, ReadMoves
  <2>2. \A n \in Nonces : Verifies(W, n) => Verifies(q, n)
    BY <1>1, <1>5 DEF Verifies, Same
  <2>3. NonceInv'
    BY <1>2, <1>5, <2>2, OnceMoves DEF q
  <2>4. QED
    BY <2>1, <2>3
<1>6. CASE req' = [req EXCEPT ![r] = HandlerOf(bare)]
  <2> DEFINE W == HandlerOf(bare)
  <2>1. /\ W \in RequestType /\ Same(W, bare) /\ W.nonce = bare.nonce /\ RequestOK(W, World)
        /\ W.at \in {"reply", "issue", "find", "revoke", "write"}
    BY <1>3, <1>4, HandlerStarts
  <2> HIDE DEF W
  <2>2. Same(W, q) /\ W.at \notin Past
    BY <1>3, <2>1 DEF Same, Past
  <2>3. QED
    BY <1>3, <1>5, <1>6, <2>1, <2>2 DEF W
<1>7. CASE q.token = NoToken /\ req' = [req EXCEPT ![r] = HandlerOf(q)]
  <2> DEFINE W == HandlerOf(q)
  <2>1. /\ W \in RequestType /\ Same(W, q) /\ W.nonce = q.nonce /\ RequestOK(W, World)
        /\ W.at \in {"reply", "issue", "find", "revoke", "write"}
    BY <1>1, <1>4, HandlerStarts
  <2> HIDE DEF W
  <2>2. W.at \notin Past
    BY <2>1 DEF Past
  <2>3. QED
    BY <1>5, <1>7, <2>1, <2>2 DEF W
<1>8. CASE q.token # NoToken /\ req' = [req EXCEPT ![r] = SessionRead(q)]
  <2> DEFINE W == SessionRead(q)
  <2>1. /\ W \in RequestType /\ Same(W, q) /\ W.nonce = q.nonce
        /\ W.at \notin Past /\ RequestOK(W, World)
    BY <1>1, <1>8, ReadSession
  <2> HIDE DEF W
  <2>2. QED
    BY <1>5, <1>8, <2>1 DEF W
<1>9. QED
  BY <1>2, <1>6, <1>7, <1>8

(* Steps of the hook on a session: they keep its wallet and its nonce, and    *)
(* what has ended stays ended unless it is extended late.                   *)
LEMMA SessionMoves ==
  ASSUME BasicInv, UNCHANGED <<now, nonces, tab>>, sessions' \in [Tokens -> SessionType],
         late \subseteq late',
         \A s \in Tokens : /\ sessions'[s].wallet = sessions[s].wallet
                           /\ sessions'[s].nonce = sessions[s].nonce
                           /\ ~Live(s) => ~Live(s)' \/ s \in late'
  PROVE  /\ Follows(World', World) /\ World'.issued = World.issued
         /\ World'.consumed = World.consumed /\ World'.minted = World.minted
         /\ \A s \in Tokens :
              sessions'[s].nonce # NoNonce => sessions'[s].nonce \in World'.consumed
         /\ World'.consumed \subseteq World'.issued
<1>1. /\ World'.issued = World.issued /\ World'.consumed = World.consumed
      /\ World'.minted = World.minted /\ World'.known = World.known
      /\ World'.now = World.now /\ World.ended \subseteq World'.ended
  BY DEF World
<1>2. QED
  BY <1>1 DEF Follows, BasicInv

(* The handler starts after the session was purged, extended or neither.     *)
LEMMA HandlerMoves ==
  ASSUME BasicInv, NonceInv, NEW r \in Requests, req[r].at \in {"purge", "touch"},
         req' = [req EXCEPT ![r] = HandlerOf(req[r])],
         UNCHANGED <<now, jar, tab, users, nonces, twice>>,
         sessions' \in [Tokens -> SessionType], late \subseteq late',
         \A s \in Tokens : /\ sessions'[s].wallet = sessions[s].wallet
                           /\ sessions'[s].nonce = sessions[s].nonce
                           /\ ~Live(s) => ~Live(s)' \/ s \in late'
  PROVE  BasicInv' /\ NonceInv'
<1> DEFINE q == req[r]
           W == HandlerOf(q)
<1>1. q \in RequestType /\ RequestOK(q, World)
  BY NowIs
<1>2. Ready(q, World)
  <2>1. /\ q.user # Nobody => q.user.wallet # NoWallet
        /\ q.cookie.token # NoToken => q.cookie.token \in World.minted
    BY <1>1 DEF RequestOK
  <2>2. QED
    BY <1>1, <2>1, ReadyOnce DEF Same
<1> HIDE DEF q
<1>3. /\ W \in RequestType /\ Same(W, q) /\ W.nonce = q.nonce /\ RequestOK(W, World)
      /\ W.at \in {"reply", "issue", "find", "revoke", "write"}
  BY <1>1, <1>2, HandlerStarts
<1>4. req' = [req EXCEPT ![r] = W]
  BY DEF q
<1> HIDE DEF W
<1>5. /\ Follows(World', World)
      /\ \A s \in Tokens :
              sessions'[s].nonce # NoNonce => sessions'[s].nonce \in World'.consumed
      /\ World'.consumed \subseteq World'.issued
  BY SessionMoves
<1>6. RequestOK(W, World')
  BY <1>3, <1>5, Later
<1>7. users' \in [Wallets -> Names0] /\ nonces' \in [Nonces -> NonceType]
  BY DEF BasicInv, TypeOK
<1>8. BasicInv'
  BY <1>3, <1>4, <1>5, <1>6, <1>7, ApiMoves
<1>9. \A n \in Nonces : Verifies(W, n) => Verifies(q, n) /\ W.at \notin Past
  BY <1>3 DEF Verifies, Same, Past, q
<1>10. NonceInv'
  BY <1>3, <1>4, <1>9, OnceMoves DEF q
<1>11. QED
  BY <1>8, <1>10

LEMMA SessionsAre ==
  ASSUME BasicInv
  PROVE  /\ sessions \in [Tokens -> SessionType] /\ now \in Nat
         /\ \A s \in Tokens : sessions[s] \in SessionType /\ sessions[s].expires \in Int
BY DEF BasicInv, TypeOK, SessionType

LEMMA PurgeKeeps ==
  ASSUME BasicInv, NonceInv, NEW r \in Requests, Purge(r)
  PROVE  BasicInv' /\ NonceInv'
<1> DEFINE q == req[r]
<1>1. /\ q.at = "purge" /\ req' = [req EXCEPT ![r] = HandlerOf(q)]
      /\ UNCHANGED <<now, jar, tab, users, nonces, twice, late>>
      /\ sessions' \in {sessions, [sessions EXCEPT ![q.token].row = FALSE]}
  BY DEF Purge, Moves
<1>2. /\ sessions' \in [Tokens -> SessionType]
      /\ \A s \in Tokens : /\ sessions'[s].wallet = sessions[s].wallet
                           /\ sessions'[s].nonce = sessions[s].nonce
                           /\ ~Live(s) => ~Live(s)' \/ s \in late'
  <2>1. CASE sessions' = sessions
    BY <1>1, <2>1, SessionsAre DEF Live, Expired
  <2>2. CASE sessions' = [sessions EXCEPT ![q.token].row = FALSE]
    <3>1. \A s \in Tokens : sessions'[s] \in SessionType
      BY <2>2, SessionsAre DEF SessionType
    <3>2. \A s \in Tokens :
             /\ sessions'[s].wallet = sessions[s].wallet /\ sessions'[s].nonce = sessions[s].nonce
             /\ sessions'[s].revoked = sessions[s].revoked
             /\ sessions'[s].expires = sessions[s].expires
             /\ sessions'[s].row => sessions[s].row
      BY <2>2, SessionsAre DEF SessionType
    <3>3. sessions' \in [Tokens -> SessionType]
      BY <2>2, <3>1, SessionsAre
    <3>4. QED
      BY <1>1, <3>2, <3>3 DEF Live, Expired
  <2>3. QED
    BY <1>1, <2>1, <2>2
<1> HIDE DEF q
<1>3. QED
  BY <1>1, <1>2, HandlerMoves DEF q

LEMMA RefreshKeeps ==
  ASSUME BasicInv, NonceInv, NEW r \in Requests, Refresh(r)
  PROVE  BasicInv' /\ NonceInv'
<1> DEFINE q == req[r]
           e == IF sessions[q.token].row THEN q.cookie.expires ELSE sessions[q.token].expires
<1>1. /\ q.at = "touch" /\ req' = [req EXCEPT ![r] = HandlerOf(q)]
      /\ UNCHANGED <<now, jar, tab, users, nonces, twice>>
      /\ \/ UNCHANGED <<sessions, late>>
         \/ /\ sessions' = [sessions EXCEPT ![q.token].expires = e]
            /\ late' = IF Expired(q.token) THEN late \union {q.token} ELSE late
  BY DEF Refresh, Moves
<1>2. q.token \in Tokens /\ e \in Int
  <2>1. q \in RequestType /\ RequestOK(q, World)
    BY NowIs
  <2>2. q.token \in Tokens /\ q.cookie.expires \in Int
    BY <1>1, <2>1 DEF RequestOK, RequestType, Cookies, Tokens0
  <2>3. QED
    BY <2>2, SessionsAre
<1> HIDE DEF e
<1>3. /\ sessions' \in [Tokens -> SessionType] /\ late \subseteq late'
      /\ \A s \in Tokens : /\ sessions'[s].wallet = sessions[s].wallet
                           /\ sessions'[s].nonce = sessions[s].nonce
                           /\ ~Live(s) => ~Live(s)' \/ s \in late'
  <2>1. CASE UNCHANGED <<sessions, late>>
    BY <1>1, <2>1, SessionsAre DEF Live, Expired
  <2>2. CASE /\ sessions' = [sessions EXCEPT ![q.token].expires = e]
             /\ late' = IF Expired(q.token) THEN late \union {q.token} ELSE late
    <3>1. \A s \in Tokens : sessions'[s] \in SessionType
      BY <1>2, <2>2, SessionsAre DEF SessionType
    <3>2. \A s \in Tokens :
             /\ sessions'[s].wallet = sessions[s].wallet /\ sessions'[s].nonce = sessions[s].nonce
             /\ sessions'[s].revoked = sessions[s].revoked
             /\ sessions'[s].row = sessions[s].row
             /\ s # q.token => sessions'[s].expires = sessions[s].expires
      BY <2>2, SessionsAre DEF SessionType
    <3>3. sessions' \in [Tokens -> SessionType]
      BY <2>2, <3>1, SessionsAre
    <3>4. ASSUME NEW s \in Tokens, ~Live(s)
          PROVE  ~Live(s)' \/ s \in late'
      <4>1. CASE s = q.token /\ Expired(s)
        BY <2>2, <4>1
      <4>2. CASE s = q.token /\ ~Expired(s)
        BY <3>2, <3>4, <4>2 DEF Live
      <4>3. CASE s # q.token
        BY <1>1, <3>2, <3>4, <4>3 DEF Live, Expired
      <4>4. QED
        BY <4>1, <4>2, <4>3
    <3>5. QED
      BY <2>2, <3>2, <3>3, <3>4
  <2>3. QED
    BY <1>1, <2>1, <2>2
<1> HIDE DEF q
<1>4. QED
  BY <1>1, <1>3, HandlerMoves DEF q

(* A step of the API that only reads, and leaves the nonce it verifies.      *)
LEMMA PlainKeeps ==
  ASSUME BasicInv, NonceInv, NEW r \in Requests, NEW W \in RequestType,
         req' = [req EXCEPT ![r] = W], RequestOK(W, World), req[r].at # "free",
         UNCHANGED <<now, jar, tab, users, nonces, sessions, late, twice>>,
         Same(W, req[r]), W.kind = "verify" => W.nonce = req[r].nonce,
         W.at \in Past => req[r].at \in Past
  PROVE  BasicInv' /\ NonceInv'
<1>1. BasicInv'
  BY ReadMoves
<1>2. \A n \in Nonces : Verifies(W, n) => Verifies(req[r], n)
  BY DEF Verifies, Same
<1>3. NonceInv'
  BY <1>2, OnceMoves
<1>4. QED
  BY <1>1, <1>3

LEMMA FailKeeps ==
  ASSUME BasicInv, NonceInv, NEW r \in Requests, req[r].at # "free",
         req' = [req EXCEPT ![r] = NotOk(req[r])],
         UNCHANGED <<now, jar, tab, users, nonces, sessions, late, twice>>
  PROVE  BasicInv' /\ NonceInv'
<1> DEFINE W == NotOk(req[r])
<1>1. req[r] \in RequestType /\ RequestOK(req[r], World)
  BY NowIs
<1>2. W \in RequestType /\ Ends(W, req[r]) /\ W.cookie = req[r].cookie
  BY <1>1, NotOkEnds
<1>3. req' = [req EXCEPT ![r] = W]
  OBVIOUS
<1> HIDE DEF W
<1>4. req[r].cookie.token # NoToken => req[r].cookie.token \in World.minted
  BY <1>1 DEF RequestOK
<1>5. RequestOK(W, World)
  BY <1>1, <1>2, <1>4, EndsOK
<1>6. W.at \notin Past
  BY <1>2 DEF Ends, Past
<1>7. QED
  BY <1>2, <1>3, <1>5, <1>6, PlainKeeps DEF Ends

(* A step after which sessions are the same and nonces only go forward.      *)
LEMMA NonceMoves ==
  ASSUME BasicInv, UNCHANGED <<now, sessions, tab, late>>,
         nonces' \in [Nonces -> NonceType],
         World.issued \subseteq World'.issued, World.consumed \subseteq World'.consumed,
         World'.consumed \subseteq World'.issued
  PROVE  /\ Follows(World', World)
         /\ \A s \in Tokens :
              sessions'[s].nonce # NoNonce => sessions'[s].nonce \in World'.consumed
<1>1. World'.minted = World.minted /\ World'.known = World.known
      /\ World'.now = World.now /\ World'.ended = World.ended
  BY DEF World, Live, Expired
<1>2. QED
  BY <1>1 DEF Follows, BasicInv

LEMMA NoncesAre ==
  ASSUME BasicInv
  PROVE  /\ nonces \in [Nonces -> NonceType] /\ now \in Nat
         /\ \A n \in Nonces : nonces[n] \in NonceType
         /\ users \in [Wallets -> Names0]
BY DEF BasicInv, TypeOK

LEMMA IssueNonceKeeps ==
  ASSUME BasicInv, NonceInv, NEW r \in Requests, IssueNonce(r)
  PROVE  BasicInv' /\ NonceInv'
<1> DEFINE q == req[r]
<1>1. /\ q.at = "issue" /\ UNCHANGED <<now, jar, tab, users, sessions, late, twice>>
      /\ q \in RequestType /\ RequestOK(q, World)
  BY NowIs DEF IssueNonce, Moves
<1>2. q.kind = "nonce" /\ q.wallet # NoWallet /\ q.wallet \in Wallets0
  BY <1>1, RequestIs DEF RequestOK
<1>3. CASE req' = [req EXCEPT ![r] = NotOk(q)] /\ UNCHANGED nonces
  BY <1>1, <1>3, FailKeeps
<1>4. ASSUME NEW n \in Unissued,
             nonces' = [nonces EXCEPT ![n] = [owner |-> q.wallet, consumed |-> FALSE,
                                              expires |-> now + NonceTTL]],
             req' = [req EXCEPT ![r] = [q EXCEPT !.at = "reply", !.ok = TRUE, !.nonce = n]]
      PROVE  BasicInv' /\ NonceInv'
  <2> DEFINE W == [q EXCEPT !.at = "reply", !.ok = TRUE, !.nonce = n]
             N == [owner |-> q.wallet, consumed |-> FALSE, expires |-> now + NonceTTL]
  <2>1. n \in Nonces /\ nonces[n].owner = NoWallet
    BY DEF Unissued
  <2> HIDE DEF q
  <2>2. /\ W \in RequestType /\ Same(W, q) /\ W.nonce = n /\ W.at = "reply"
        /\ W.user = q.user /\ W.cookie = q.cookie
    BY <1>1, <2>1 DEF RequestType, Same, Stages, Nonces0
  <2>3. N \in NonceType /\ N.owner # NoWallet /\ ~N.consumed
    <3>1. now + NonceTTL \in Int
      BY NoncesAre, Constants
    <3>2. QED
      BY <1>2, <3>1 DEF NonceType
  <2>4. req' = [req EXCEPT ![r] = W] /\ nonces' = [nonces EXCEPT ![n] = N]
    BY <1>4
  <2> HIDE DEF W, N
  <2>5. /\ nonces' \in [Nonces -> NonceType]
        /\ \A m \in Nonces : nonces'[m] = IF m = n THEN N ELSE nonces[m]
    BY <2>1, <2>3, <2>4, NoncesAre
  <2>6. World'.issued = World.issued \union {n} /\ n \notin World.issued
    BY <2>1, <2>3, <2>5 DEF World
  <2>7. World'.consumed = World.consumed \ {n}
    BY <2>3, <2>5 DEF World
  <2>8. World.consumed \subseteq World.issued
    BY DEF BasicInv
  <2>9. /\ Follows(World', World)
        /\ \A s \in Tokens :
              sessions'[s].nonce # NoNonce => sessions'[s].nonce \in World'.consumed
    BY <1>1, <2>5, <2>6, <2>7, <2>8, NonceMoves
  <2>10. RequestOK(W, World')
    <3>1. RequestOK(q, World')
      BY <1>1, <2>9, Later
    <3>2. QED
      BY <1>2, <2>2, <2>6, <3>1 DEF RequestOK, Same, Past
  <2>11. BasicInv'
    <3>1. World'.consumed \subseteq World'.issued
      BY <2>6, <2>7, <2>8
    <3>2. users' \in [Wallets -> Names0] /\ sessions' \in [Tokens -> SessionType]
      BY <1>1, NoncesAre, SessionsAre
    <3>3. QED
      BY <1>1, <2>2, <2>4, <2>5, <2>9, <2>10, <3>1, <3>2, ApiMoves
  <2>12. \A m \in Nonces : ~Verifies(W, m)
    BY <1>2, <2>2 DEF Verifies, Same
  <2>13. QED
    BY <1>1, <2>2, <2>4, <2>11, <2>12, OnceMoves
<1>5. QED
  BY <1>3, <1>4 DEF IssueNonce, Moves

(* A nonce found valid was not used: no session was made from it.            *)
LEMMA FindValidNonceKeeps ==
  ASSUME BasicInv, NonceInv, NEW r \in Requests, FindValidNonce(r)
  PROVE  BasicInv' /\ NonceInv'
<1> DEFINE q == req[r]
<1>1. /\ q.at = "find"
      /\ UNCHANGED <<now, jar, tab, users, nonces, sessions, late, twice>>
      /\ q \in RequestType /\ RequestOK(q, World)
  BY NowIs DEF FindValidNonce, Moves, data
<1>2. CASE req' = [req EXCEPT ![r] = NotOk(q)]
  BY <1>1, <1>2, FailKeeps
<1>3. CASE NonceValid(q.nonce, q.wallet) /\ req' = [req EXCEPT ![r] = [q EXCEPT !.at = "mark"]]
  <2> DEFINE W == [q EXCEPT !.at = "mark"]
  <2>1. q.kind = "verify" /\ q.nonce \in Nonces
    BY <1>1, WorldIs DEF RequestOK
  <2>2. q.nonce \notin World.consumed
    BY <1>3, WorldIs DEF NonceValid
  <2> HIDE DEF q
  <2>3. /\ W \in RequestType /\ Same(W, q) /\ W.nonce = q.nonce /\ W.at = "mark"
        /\ W.user = q.user /\ W.cookie = q.cookie /\ W.ok = q.ok
    BY <1>1 DEF RequestType, Same, Stages
  <2>4. req' = [req EXCEPT ![r] = W]
    BY <1>3
  <2> HIDE DEF W
  <2>5. RequestOK(W, World)
    BY <1>1, <2>1, <2>3 DEF RequestOK, Same, Past
  <2>6. BasicInv'
    BY <1>1, <2>3, <2>4, <2>5, ReadMoves
  <2>7. \A s \in Tokens : sessions[s].nonce # q.nonce
    BY <2>1, <2>2, Constants DEF BasicInv
  <2>8. \A n \in Nonces : Verifies(W, n) =>
           Verifies(q, n) /\ \A s \in Tokens : sessions[s].nonce # n
    BY <1>1, <2>3, <2>7 DEF Verifies, Same
  <2>9. NonceInv'
    BY <1>1, <2>3, <2>4, <2>8, OnceMoves DEF q
  <2>10. QED
    BY <2>6, <2>9
<1>4. QED
  BY <1>2, <1>3 DEF FindValidNonce, Moves

LEMMA MarkNonceConsumedKeeps ==
  ASSUME BasicInv, NonceInv, NEW r \in Requests, MarkNonceConsumed(r)
  PROVE  BasicInv' /\ NonceInv'
<1> DEFINE q == req[r]
<1>1. /\ q.at = "mark" /\ UNCHANGED <<now, jar, tab, users, sessions, late, twice>>
      /\ q \in RequestType /\ RequestOK(q, World)
  BY NowIs DEF MarkNonceConsumed, Moves
<1>2. CASE req' = [req EXCEPT ![r] = NotOk(q)] /\ UNCHANGED nonces
  BY <1>1, <1>2, FailKeeps
<1>3. CASE /\ nonces' = [nonces EXCEPT ![q.nonce].consumed = TRUE]
           /\ req' = [req EXCEPT ![r] = [q EXCEPT !.at = "user"]]
  <2> DEFINE W == [q EXCEPT !.at = "user"]
             n == q.nonce
  <2>1. q.kind = "verify" /\ n \in World.issued /\ n \in Nonces
    BY <1>1, WorldIs DEF RequestOK, Past
  <2> HIDE DEF q
  <2>2. /\ W \in RequestType /\ Same(W, q) /\ W.nonce = n /\ W.at = "user"
        /\ W.user = q.user /\ W.cookie = q.cookie /\ W.ok = q.ok
    BY <1>1 DEF RequestType, Same, Stages
  <2>3. req' = [req EXCEPT ![r] = W] /\ nonces' = [nonces EXCEPT ![n].consumed = TRUE]
    BY <1>3
  <2> HIDE DEF W, n
  <2>4. /\ nonces' \in [Nonces -> NonceType]
        /\ \A m \in Nonces : nonces'[m].owner = nonces[m].owner
        /\ \A m \in Nonces : nonces'[m].consumed <=> (nonces[m].consumed \/ m = n)
    <3>1. \A m \in Nonces : nonces'[m] \in NonceType
      BY <2>1, <2>3, NoncesAre DEF NonceType
    <3>2. nonces' \in [Nonces -> NonceType]
      BY <2>3, <3>1, NoncesAre
    <3>3. \A m \in Nonces \ {n} : nonces'[m] = nonces[m]
      BY <2>3, NoncesAre
    <3>4. nonces'[n].owner = nonces[n].owner /\ nonces'[n].consumed = TRUE
      BY <2>1, <2>3, NoncesAre DEF NonceType
    <3>5. QED
      BY <3>2, <3>3, <3>4
  <2>5. World'.issued = World.issued
    BY <2>4 DEF World
  <2>6. World'.consumed = World.consumed \union {n}
    BY <2>1, <2>4 DEF World
  <2>7. World.consumed \subseteq World.issued
    BY DEF BasicInv
  <2>8. /\ Follows(World', World)
        /\ \A s \in Tokens :
              sessions'[s].nonce # NoNonce => sessions'[s].nonce \in World'.consumed
    BY <1>1, <2>1, <2>4, <2>5, <2>6, <2>7, NonceMoves
  <2>9. RequestOK(W, World')
    <3>1. RequestOK(q, World')
      BY <1>1, <2>8, Later
    <3>2. QED
      BY <1>1, <2>1, <2>2, <2>6, <3>1 DEF RequestOK, Same, Past, n
  <2>10. BasicInv'
    <3>1. World'.consumed \subseteq World'.issued
      BY <2>1, <2>5, <2>6, <2>7
    <3>2. users' \in [Wallets -> Names0] /\ sessions' \in [Tokens -> SessionType]
      BY <1>1, NoncesAre, SessionsAre
    <3>3. QED
      BY <1>1, <2>2, <2>3, <2>4, <2>8, <2>9, <3>1, <3>2, ApiMoves
  <2>11. \A m \in Nonces : Verifies(W, m) => Verifies(q, m)
    BY <1>1, <2>2 DEF Verifies, Same, n
  <2>12. q.at \in Past
    BY <1>1 DEF Past
  <2>13. NonceInv'
    BY <1>1, <2>2, <2>3, <2>11, <2>12, OnceMoves DEF q
  <2>14. QED
    BY <2>10, <2>13
<1>4. QED
  BY <1>2, <1>3 DEF MarkNonceConsumed, Moves

(* The user of the wallet is found or made; then the session is.             *)
LEMMA UserFound ==
  ASSUME BasicInv, NonceInv, NEW r \in Requests, req[r].at \in {"user", "new user"},
         NEW name \in Names0, users' \in [Wallets -> Names0],
         req' = [req EXCEPT ![r] = [req[r] EXCEPT !.at = "session",
                    !.user = [wallet |-> req[r].wallet, name |-> name]]],
         UNCHANGED <<now, jar, tab, nonces, sessions, late, twice>>
  PROVE  BasicInv' /\ NonceInv'
<1> DEFINE q == req[r]
           u == [wallet |-> q.wallet, name |-> name]
           W == [q EXCEPT !.at = "session", !.user = u]
<1>1. q \in RequestType /\ RequestOK(q, World) /\ q.at \in Past \ {"mark"}
  BY NowIs DEF Past
<1>2. q.kind = "verify" /\ q.wallet # NoWallet /\ q.wallet \in Wallets0
  BY <1>1, RequestIs DEF RequestOK
<1>3. req' = [req EXCEPT ![r] = W]
  OBVIOUS
<1> HIDE DEF q
<1>4. u \in Profiles /\ u.wallet # NoWallet /\ u # Nobody
  <2>1. u \in Profiles
    BY <1>2 DEF Profiles
  <2>2. u.wallet = q.wallet
    OBVIOUS
  <2> HIDE DEF u
  <2>3. QED
    BY <1>2, <2>1, <2>2, FreeIs
<1> HIDE DEF u
<1>5. /\ W \in RequestType /\ Same(W, q) /\ W.nonce = q.nonce /\ W.at = "session"
      /\ W.user = u /\ W.cookie = q.cookie /\ W.ok = q.ok
  BY <1>1, <1>4 DEF RequestType, Same, Stages
<1> HIDE DEF W
<1>6. RequestOK(W, World)
  BY <1>1, <1>2, <1>4, <1>5 DEF RequestOK, Same, Past
<1>7. World' = World
  BY SameWorld
<1>8. BasicInv'
  <2>1. /\ RequestOK(W, World') /\ Follows(World', World)
        /\ World'.consumed \subseteq World'.issued
        /\ \A s \in Tokens : sessions'[s].nonce # NoNonce => sessions'[s].nonce \in World'.consumed
    BY <1>6, <1>7, FollowsSelf DEF BasicInv
  <2>2. nonces' \in [Nonces -> NonceType] /\ sessions' \in [Tokens -> SessionType]
    BY DEF BasicInv, TypeOK
  <2>3. QED
    BY <1>3, <1>5, <2>1, <2>2, ApiMoves
<1>9. \A n \in Nonces : Verifies(W, n) => Verifies(q, n)
  BY <1>1, <1>5 DEF Verifies, Same, Past
<1>10. NonceInv'
  BY <1>1, <1>3, <1>5, <1>9, OnceMoves DEF q
<1>11. QED
  BY <1>8, <1>10

LEMMA FindUserKeeps ==
  ASSUME BasicInv, NonceInv, NEW r \in Requests, FindUser(r)
  PROVE  BasicInv' /\ NonceInv'
<1> DEFINE q == req[r]
<1>1. /\ q.at = "user"
      /\ UNCHANGED <<now, jar, tab, users, nonces, sessions, late, twice>>
      /\ q \in RequestType /\ RequestOK(q, World)
  BY NowIs DEF FindUser, Moves, data
<1>2. q.wallet \in Wallets
  BY <1>1, RequestIs DEF RequestOK, Past, Wallets0
<1>3. CASE req' = [req EXCEPT ![r] = [q EXCEPT !.at = "new user"]]
  <2> DEFINE W == [q EXCEPT !.at = "new user"]
  <2>1. req' = [req EXCEPT ![r] = W]
    BY <1>3
  <2> HIDE DEF q
  <2>2. /\ W \in RequestType /\ Same(W, q) /\ W.nonce = q.nonce /\ W.at = "new user"
        /\ W.user = q.user /\ W.cookie = q.cookie /\ W.ok = q.ok
    BY <1>1 DEF RequestType, Same, Stages
  <2> HIDE DEF W
  <2>3. RequestOK(W, World) /\ q.at \in Past
    BY <1>1, <2>2 DEF RequestOK, Same, Past
  <2>4. QED
    BY <1>1, <2>1, <2>2, <2>3, PlainKeeps DEF q
<1>4. CASE req' = [req EXCEPT ![r] = [q EXCEPT !.at = "session",
                             !.user = [wallet |-> q.wallet, name |-> users[q.wallet]]]]
  <2>1. users[q.wallet] \in Names0 /\ users' \in [Wallets -> Names0]
    BY <1>1, <1>2, NoncesAre
  <2>2. QED
    BY <1>1, <1>4, <2>1, UserFound
<1>5. QED
  BY <1>3, <1>4 DEF FindUser, Moves

LEMMA CreateUserKeeps ==
  ASSUME BasicInv, NonceInv, NEW r \in Requests, CreateUser(r)
  PROVE  BasicInv' /\ NonceInv'
<1> DEFINE q == req[r]
<1>1. /\ q.at = "new user" /\ UNCHANGED <<now, jar, tab, nonces, sessions, late, twice>>
      /\ q \in RequestType
  BY NowIs DEF CreateUser, Moves
<1>2. CASE req' = [req EXCEPT ![r] = NotOk(q)] /\ UNCHANGED users
  BY <1>1, <1>2, FailKeeps
<1>3. CASE /\ users' = [users EXCEPT ![q.wallet] = DefaultName]
           /\ req' = [req EXCEPT ![r] = [q EXCEPT !.at = "session",
                              !.user = [wallet |-> q.wallet, name |-> DefaultName]]]
  <2>1. DefaultName \in Names0
    BY DEF Names0
  <2>2. users' \in [Wallets -> Names0]
    BY <1>3, <2>1, NoncesAre
  <2>3. QED
    BY <1>1, <1>3, <2>1, <2>2, UserFound
<1>4. QED
  BY <1>2, <1>3 DEF CreateUser, Moves

(* The first session of a nonce: no other verification can be about to make  *)
(* one, and none was made.                                                  *)
LEMMA CreateSessionKeeps ==
  ASSUME BasicInv, NonceInv, NEW r \in Requests, CreateSession(r)
  PROVE  BasicInv' /\ NonceInv'
<1> DEFINE q == req[r]
<1>1. /\ q.at = "session" /\ UNCHANGED <<now, jar, tab, nonces, users, late, twice>>
      /\ q \in RequestType /\ RequestOK(q, World)
  BY NowIs DEF CreateSession, Moves
<1>2. CASE req' = [req EXCEPT ![r] = NotOk(q)] /\ UNCHANGED sessions
  BY <1>1, <1>2, FailKeeps
<1>3. ASSUME NEW s \in Unminted,
             sessions' = [sessions EXCEPT ![s] =
                  [wallet |-> q.user.wallet, nonce |-> q.nonce, expires |-> now + SessionTTL,
                   revoked |-> FALSE, row |-> TRUE]],
             req' = [req EXCEPT ![r] = [q EXCEPT !.at = "reply", !.ok = TRUE,
                                   !.cookie = [token |-> s, expires |-> now + SessionTTL]]]
      PROVE  BasicInv' /\ NonceInv'
  <2> DEFINE k == [token |-> s, expires |-> now + SessionTTL]
             W == [q EXCEPT !.at = "reply", !.ok = TRUE, !.cookie = k]
             S == [wallet |-> q.user.wallet, nonce |-> q.nonce, expires |-> now + SessionTTL,
                   revoked |-> FALSE, row |-> TRUE]
  <2>1. s \in Tokens /\ sessions[s].wallet = NoWallet /\ now + SessionTTL \in Int
    BY Constants, SessionsAre DEF Unminted
  <2>2. /\ q.user.wallet # NoWallet /\ q.user.wallet \in Wallets0
        /\ q.kind = "verify" /\ q.nonce \in World.consumed /\ q.nonce \in Nonces
    BY <1>1, RequestIs, WorldIs DEF RequestOK, Past, Profiles
  <2> HIDE DEF q
  <2>3. k \in Cookies /\ k.token = s
    BY <2>1 DEF Cookies, Tokens0
  <2>4. req' = [req EXCEPT ![r] = W] /\ sessions' = [sessions EXCEPT ![s] = S]
    BY <1>3
  <2> HIDE DEF k
  <2>5. /\ W \in RequestType /\ Same(W, q) /\ W.nonce = q.nonce /\ W.at = "reply"
        /\ W.user = q.user /\ W.cookie = k
    BY <1>1, <2>3 DEF RequestType, Same, Stages
  <2>6. S \in SessionType /\ S.wallet # NoWallet /\ S.nonce = q.nonce
    BY <2>1, <2>2 DEF SessionType, Nonces0
  <2> HIDE DEF W, S
  <2>7. /\ sessions' \in [Tokens -> SessionType] /\ sessions'[s] = S
        /\ \A x \in Tokens \ {s} : sessions'[x] = sessions[x]
    BY <2>1, <2>4, <2>6, SessionsAre
  <2>8. /\ World'.issued = World.issued /\ World'.consumed = World.consumed
        /\ World'.known = World.known /\ World'.now = World.now
    BY <1>1 DEF World
  <2>9. World'.minted = World.minted \union {s} /\ s \notin World.minted
    BY <2>1, <2>6, <2>7 DEF World
  <2>10. \A x \in Tokens \ {s} : Live(x)' = Live(x)
    BY <1>1, <2>7 DEF Live, Expired
  <2>11. Follows(World', World)
    <3>1. \A x \in Tokens \ {s} : x \in World.ended => x \in World'.ended
      BY <1>1, <2>10, WorldIs DEF World
    <3>2. World.minted \intersect World.ended \subseteq World'.ended
      BY <2>9, <3>1, WorldIs
    <3>3. QED
      BY <2>8, <2>9, <3>2 DEF Follows
  <2>12. RequestOK(W, World')
    <3>1. RequestOK(q, World')
      BY <1>1, <2>11, Later
    <3>2. QED
      BY <1>1, <2>2, <2>3, <2>5, <2>9, <3>1 DEF RequestOK, Same, Past
  <2>13. \A x \in Tokens :
           sessions'[x].nonce # NoNonce => sessions'[x].nonce \in World'.consumed
    BY <2>2, <2>6, <2>7, <2>8 DEF BasicInv
  <2>14. BasicInv'
    <3>1. World'.consumed \subseteq World'.issued
      BY <2>8 DEF BasicInv
    <3>2. users' \in [Wallets -> Names0] /\ nonces' \in [Nonces -> NonceType]
      BY <1>1, NoncesAre
    <3>3. QED
      BY <1>1, <2>4, <2>5, <2>7, <2>11, <2>12, <2>13, <3>1, <3>2, ApiMoves
  <2>15. \A d \in Requests : req'[d] = IF d = r THEN W ELSE req[d]
    BY <2>4, NowIs
  <2>16. ASSUME NEW n \in Nonces \ twice'
         PROVE  OnceOK(n)'
    <3>1. OnceOK(n)
      BY <1>1 DEF NonceInv
    <3>2. \A d \in Requests : Verifies(req'[d], n) => Verifies(req[d], n)
      BY <1>1, <2>5, <2>15 DEF Verifies, Same, q
    <3>3. \A r1, r2 \in Requests : Verifies(req'[r1], n) /\ Verifies(req'[r2], n) => r1 = r2
      BY <3>1, <3>2 DEF OnceOK
    <3>4. CASE n = q.nonce
      <4>1. Verifies(req[r], n) /\ req[r].at \in Past
        BY <1>1, <2>2, <3>4 DEF Verifies, q, Past
      <4>2. \A x \in Tokens : sessions[x].nonce # n
        BY <3>1, <4>1 DEF OnceOK
      <4>3. \A x \in Tokens : sessions'[x].nonce = n => x = s
        BY <2>7, <4>2
      <4>4. \A d \in Requests : Verifies(req'[d], n) => d = r
        BY <3>1, <3>2, <4>1 DEF OnceOK
      <4>5. req'[r].at \notin Past
        BY <2>5, <2>15 DEF Past
      <4>6. QED
        BY <3>3, <4>3, <4>4, <4>5 DEF OnceOK
    <3>5. CASE n # q.nonce
      <4>1. \A x \in Tokens : sessions'[x].nonce = n => sessions[x].nonce = n
        BY <2>6, <2>7, <3>5
      <4>2. \A d \in Requests, x \in Tokens :
              Verifies(req'[d], n) /\ sessions'[x].nonce = n => req'[d].at \notin Past
        <5>1. W.at \notin Past
          BY <2>5 DEF Past
        <5>2. QED
          BY <2>15, <3>1, <3>2, <4>1, <5>1 DEF OnceOK
      <4>3. QED
        BY <3>1, <3>3, <4>1, <4>2 DEF OnceOK
    <3>6. QED
      BY <3>4, <3>5
  <2>17. QED
    BY <2>14, <2>16 DEF NonceInv
<1>4. QED
  BY <1>2, <1>3 DEF CreateSession, Moves

LEMMA RevokeKeeps ==
  ASSUME BasicInv, NonceInv, NEW r \in Requests, RevokeSession(r)
  PROVE  BasicInv' /\ NonceInv'
<1> DEFINE q == req[r]
           W == LoggedOut(q)
<1>1. /\ q.at = "revoke" /\ req' = [req EXCEPT ![r] = W]
      /\ UNCHANGED <<now, jar, tab, users, nonces, late, twice>>
      /\ \/ UNCHANGED sessions
         \/ sessions' = [s \in Tokens |-> [sessions[s] EXCEPT !.revoked = @ \/ s \in Revoked(q.token)]]
      /\ q \in RequestType /\ RequestOK(q, World)
  BY NowIs DEF RevokeSession, Moves
<1> HIDE DEF q
<1>2. /\ W \in RequestType /\ Same(W, q) /\ W.nonce = q.nonce /\ W.user = q.user
      /\ W.at = "reply" /\ W.cookie = NoCookie /\ W.ok = q.ok
  BY <1>1, FreeIs DEF LoggedOut, RequestType, Same, Stages
<1> HIDE DEF W
<1>3. /\ sessions' \in [Tokens -> SessionType]
      /\ \A s \in Tokens : /\ sessions'[s].wallet = sessions[s].wallet
                           /\ sessions'[s].nonce = sessions[s].nonce
                           /\ ~Live(s) => ~Live(s)' \/ s \in late'
  <2>1. CASE UNCHANGED sessions
    BY <1>1, <2>1, SessionsAre DEF Live, Expired
  <2>2. CASE sessions' = [s \in Tokens |->
                [sessions[s] EXCEPT !.revoked = @ \/ s \in Revoked(q.token)]]
    <3>1. \A s \in Tokens :
             sessions'[s] = [sessions[s] EXCEPT !.revoked = @ \/ s \in Revoked(q.token)]
      BY <2>2
    <3>2. \A s \in Tokens : (sessions[s].revoked \/ s \in Revoked(q.token)) \in BOOLEAN
      BY Zenon
    <3>3. ASSUME NEW s \in Tokens, NEW b \in BOOLEAN, b = (sessions[s].revoked \/ s \in Revoked(q.token)),
                 sessions'[s] = [sessions[s] EXCEPT !.revoked = b]
          PROVE  /\ sessions'[s] \in SessionType
                 /\ sessions'[s].wallet = sessions[s].wallet
                 /\ sessions'[s].nonce = sessions[s].nonce
                 /\ sessions'[s].row = sessions[s].row
                 /\ sessions'[s].expires = sessions[s].expires
                 /\ sessions'[s].revoked = b
      BY <3>3, SessionsAre DEF SessionType
    <3>4. \A s \in Tokens :
             /\ sessions'[s] \in SessionType
             /\ sessions'[s].wallet = sessions[s].wallet
             /\ sessions'[s].nonce = sessions[s].nonce
             /\ sessions'[s].row = sessions[s].row
             /\ sessions'[s].expires = sessions[s].expires
             /\ sessions[s].revoked => sessions'[s].revoked
      BY <3>1, <3>2, <3>3
    <3>5. sessions' \in [Tokens -> SessionType]
      BY <2>2, <3>4
    <3>6. QED
      BY <1>1, <3>4, <3>5 DEF Live, Expired
  <2>3. QED
    BY <1>1, <2>1, <2>2
<1>4. /\ Follows(World', World)
      /\ \A s \in Tokens :
              sessions'[s].nonce # NoNonce => sessions'[s].nonce \in World'.consumed
      /\ World'.consumed \subseteq World'.issued
  BY <1>1, <1>3, SessionMoves
<1>5. RequestOK(W, World')
  <2>1. RequestOK(q, World')
    BY <1>1, <1>4, Later
  <2>2. QED
    BY <1>1, <1>2, <2>1, FreeIs DEF RequestOK, Same, Past
<1>6. BasicInv'
  BY <1>1, <1>2, <1>3, <1>4, <1>5, NoncesAre, ApiMoves
<1>7. \A n \in Nonces : Verifies(W, n) => Verifies(q, n) /\ W.at \notin Past
  BY <1>1, <1>2 DEF Verifies, Same, Past
<1>8. NonceInv'
  BY <1>1, <1>2, <1>3, <1>7, OnceMoves DEF q
<1>9. QED
  BY <1>6, <1>8

(* A comment or a profile; the profile's name is typed by the tab.           *)
LEMMA WriteKeeps ==
  ASSUME BasicInv, NonceInv, NEW r \in Requests, WriteComment(r) \/ WriteProfile(r)
  PROVE  BasicInv' /\ NonceInv'
<1> DEFINE q == req[r]
           W == [q EXCEPT !.at = "reply", !.ok = TRUE]
<1>1. /\ q.at = "write" /\ UNCHANGED <<now, jar, tab, nonces, sessions, late, twice>>
      /\ q \in RequestType /\ RequestOK(q, World)
      /\ UNCHANGED users \/ users' = [users EXCEPT ![q.user.wallet] = q.name]
      /\ \/ req' = [req EXCEPT ![r] = NotOk(q)] /\ UNCHANGED users
         \/ req' = [req EXCEPT ![r] = W]
  BY NowIs DEF WriteComment, WriteProfile, Moves
<1>2. users' \in [Wallets -> Names0]
  BY <1>1, NoncesAre, RequestIs
<1>3. CASE req' = [req EXCEPT ![r] = NotOk(q)] /\ UNCHANGED users
  BY <1>1, <1>3, FailKeeps
<1>4. CASE req' = [req EXCEPT ![r] = W]
  <2> HIDE DEF q
  <2>1. /\ W \in RequestType /\ Same(W, q) /\ W.nonce = q.nonce /\ W.at = "reply"
        /\ W.user = q.user /\ W.cookie = q.cookie
    BY <1>1 DEF RequestType, Same, Stages
  <2> HIDE DEF W
  <2>2. W.kind \in {"comment", "save"}
    BY <1>1, <2>1 DEF RequestOK, Same
  <2>3. RequestOK(W, World)
    BY <1>1, <2>1, <2>2 DEF RequestOK, Same, Past
  <2>4. World' = World
    BY <1>1, SameWorld
  <2>5. BasicInv'
    <3>1. /\ RequestOK(W, World') /\ Follows(World', World)
          /\ World'.consumed \subseteq World'.issued
          /\ \A s \in Tokens :
               sessions'[s].nonce # NoNonce => sessions'[s].nonce \in World'.consumed
      BY <1>1, <2>3, <2>4, FollowsSelf DEF BasicInv
    <3>2. nonces' \in [Nonces -> NonceType] /\ sessions' \in [Tokens -> SessionType]
      BY <1>1, NoncesAre, SessionsAre
    <3>3. QED
      BY <1>1, <1>2, <1>4, <2>1, <3>1, <3>2, ApiMoves
  <2>6. \A n \in Nonces : ~Verifies(W, n)
    BY <2>2 DEF Verifies
  <2>7. NonceInv'
    BY <1>1, <1>4, <2>1, <2>6, OnceMoves
  <2>8. QED
    BY <2>5, <2>7
<1>5. QED
  BY <1>1, <1>3, <1>4

-----------------------------------------------------------------------------
(* Steps of the browser: they change no row. *)

LEMMA TabsAre ==
  ASSUME BasicInv, NEW t \in Tabs
  PROVE  tab[t] \in TabType /\ tab \in [Tabs -> TabType] /\ TabOK(tab[t], World)
BY DEF BasicInv, TypeOK

(* One tab and one request change, and perhaps the cookie.                   *)
LEMMA BrowserMoves ==
  ASSUME BasicInv, NEW t \in Tabs, NEW V \in TabType, tab' = [tab EXCEPT ![t] = V],
         TabOK(V, World), tab[t].account # NoWallet => V.account # NoWallet,
         NEW r \in Requests, NEW W \in RequestType, req' = [req EXCEPT ![r] = W],
         W.kind # "nonce" => RequestOK(W, World),
         W.kind = "nonce" => RequestOK(W, [World EXCEPT !.known = @ \union {t}])
                             /\ V.account # NoWallet,
         jar' \in Cookies, jar'.token # NoToken => jar'.token \in World.minted,
         UNCHANGED <<now, data, late>>
  PROVE  BasicInv'
<1>1. /\ World'.issued = World.issued /\ World'.consumed = World.consumed
      /\ World'.minted = World.minted /\ World'.ended = World.ended /\ World'.now = World.now
  BY DEF World, data, Live, Expired
<1>2. /\ tab' \in [Tabs -> TabType]
      /\ \A u \in Tabs : tab'[u] = IF u = t THEN V ELSE tab[u]
  BY TabsAre
<1>3. /\ World.known \subseteq World'.known
      /\ V.account # NoWallet => World.known \union {t} \subseteq World'.known
  BY <1>2 DEF World
<1>4. Follows(World', World)
  BY <1>1, <1>3 DEF Follows
<1>5. RequestOK(W, World')
  <2>1. CASE W.kind # "nonce"
    BY <1>4, <2>1, Later
  <2>2. CASE W.kind = "nonce"
    <3> DEFINE w == [World EXCEPT !.known = @ \union {t}]
    <3>1. /\ w.issued = World.issued /\ w.consumed = World.consumed /\ w.minted = World.minted
          /\ w.ended = World.ended /\ w.now = World.now /\ w.known = World.known \union {t}
      BY DEF World
    <3>2. RequestOK(W, w)
      BY <2>2
    <3> HIDE DEF w
    <3>3. Follows(World', w)
      BY <1>1, <1>3, <2>2, <3>1 DEF Follows
    <3>4. QED
      BY <3>2, <3>3, Later
  <2>3. QED
    BY <2>1, <2>2
<1>6. req' \in [Requests -> RequestType] /\ \A d \in Requests : RequestOK(req'[d], World')
  BY <1>4, <1>5, RequestMoves
<1>7. TypeOK'
  BY <1>2, <1>6 DEF BasicInv, TypeOK, data
<1>8. \A u \in Tabs : TabOK(tab'[u], World')
  BY <1>1, <1>2, TabsAre DEF TabOK
<1>9. QED
  BY <1>1, <1>6, <1>7, <1>8 DEF BasicInv, data

(* A request that verifies nothing.                                         *)
LEMMA NoVerification ==
  ASSUME BasicInv, NonceInv, NEW r \in Requests, NEW W, req' = [req EXCEPT ![r] = W],
         W.at = "free" \/ W.kind # "verify", UNCHANGED sessions, twice \subseteq twice'
  PROVE  NonceInv'
<1>1. \A n \in Nonces : ~Verifies(W, n)
  BY DEF Verifies
<1>2. QED
  BY <1>1, OnceMoves

LEMMA SentCookieIs ==
  ASSUME BasicInv
  PROVE  SentCookie \in Tokens0 /\ (SentCookie # NoToken => SentCookie \in World.minted)
BY DEF SentCookie, BasicInv, TypeOK, Cookies, Tokens0

LEMMA KindNames ==
  /\ "me" \in Kinds /\ "nonce" \in Kinds /\ "verify" \in Kinds /\ "logout" \in Kinds
  /\ "comment" \in Kinds /\ "save" \in Kinds
BY DEF Kinds

LEMMA PlainRequestOK ==
  ASSUME BasicInv, NEW t \in Tabs, NEW W, W.at = "hook", W.tab = t,
         W.kind \in {"me", "logout", "comment", "save"}, W.token = SentCookie,
         W.user = Nobody, W.cookie = Keep
  PROVE  RequestOK(W, World)
BY SentCookieIs, FreeIs, Constants DEF RequestOK, Past

(* A tab sends a request about its user: nothing else changes.               *)
LEMMA PlainSends ==
  ASSUME BasicInv, NonceInv, NEW t \in Tabs, NEW V \in TabType, tab' = [tab EXCEPT ![t] = V],
         V.signing = tab[t].signing, V.nonce = tab[t].nonce, V.account = tab[t].account,
         NEW W \in RequestType, W.at = "hook", W.tab = t,
         W.kind \in {"me", "logout", "comment", "save"}, W.token = SentCookie,
         W.user = Nobody, W.cookie = Keep,
         Sends(W), UNCHANGED twice
  PROVE  BasicInv' /\ NonceInv'
<1>1. PICK r \in Requests : req' = [req EXCEPT ![r] = W]
  BY DEF Sends
<1>2. UNCHANGED <<now, data, jar, late>>
  BY DEF Sends
<1>3. RequestOK(W, World)
  BY PlainRequestOK
<1>4. TabOK(V, World)
  BY TabsAre DEF TabOK
<1>5. jar' \in Cookies /\ (jar'.token # NoToken => jar'.token \in World.minted)
  BY <1>2 DEF BasicInv, TypeOK
<1>6. BasicInv'
  BY <1>1, <1>2, <1>3, <1>4, <1>5, BrowserMoves
<1>7. NonceInv'
  BY <1>1, <1>2, NoVerification DEF data
<1>8. QED
  BY <1>6, <1>7

LEMMA LoadMeKeeps ==
  ASSUME BasicInv, NonceInv, NEW t \in Tabs, LoadMe(t)
  PROVE  BasicInv' /\ NonceInv'
<1> DEFINE V == [tab[t] EXCEPT !.status = "loading"]
           W == Request(t, "me")
<1>1. V \in TabType /\ V.signing = tab[t].signing /\ V.nonce = tab[t].nonce
      /\ V.account = tab[t].account
  BY TabsAre DEF TabType
<1>2. tab' = [tab EXCEPT ![t] = V] /\ Sends(W) /\ UNCHANGED twice
  BY TabsAre DEF LoadMe
<1>3. /\ W \in RequestType /\ W.at = "hook" /\ W.tab = t /\ W.kind = "me"
      /\ W.token = SentCookie /\ W.user = Nobody /\ W.cookie = Keep
  BY SentCookieIs, FreeIs, KindNames, StageNames DEF Request, RequestType, Tabs0
<1> HIDE DEF V, W
<1>4. QED
  BY <1>1, <1>2, <1>3, PlainSends

LEMMA SignOutKeeps ==
  ASSUME BasicInv, NonceInv, NEW t \in Tabs, SignOut(t)
  PROVE  BasicInv' /\ NonceInv'
<1> DEFINE V == tab[t]
           W == Request(t, "logout")
<1>1. V \in TabType
  BY TabsAre
<1>2. tab' = [tab EXCEPT ![t] = V] /\ Sends(W) /\ UNCHANGED twice
  BY TabsAre DEF SignOut
<1>3. /\ W \in RequestType /\ W.at = "hook" /\ W.tab = t /\ W.kind = "logout"
      /\ W.token = SentCookie /\ W.user = Nobody /\ W.cookie = Keep
  BY SentCookieIs, FreeIs, KindNames, StageNames DEF Request, RequestType, Tabs0
<1> HIDE DEF W
<1>4. QED
  BY <1>1, <1>2, <1>3, PlainSends

LEMMA PostCommentKeeps ==
  ASSUME BasicInv, NonceInv, NEW t \in Tabs, PostComment(t)
  PROVE  BasicInv' /\ NonceInv'
<1> DEFINE V == [tab[t] EXCEPT !.busy = @ \union {"comment"}]
           W == Request(t, "comment")
<1>1. V \in TabType /\ V.signing = tab[t].signing /\ V.nonce = tab[t].nonce
      /\ V.account = tab[t].account
  BY TabsAre DEF TabType
<1>2. tab' = [tab EXCEPT ![t] = V] /\ Sends(W) /\ UNCHANGED twice
  BY TabsAre DEF PostComment
<1>3. /\ W \in RequestType /\ W.at = "hook" /\ W.tab = t /\ W.kind = "comment"
      /\ W.token = SentCookie /\ W.user = Nobody /\ W.cookie = Keep
  BY SentCookieIs, FreeIs, KindNames, StageNames DEF Request, RequestType, Tabs0
<1> HIDE DEF V, W
<1>4. QED
  BY <1>1, <1>2, <1>3, PlainSends

LEMMA SaveProfileKeeps ==
  ASSUME BasicInv, NonceInv, NEW t \in Tabs, NEW name \in Names, SaveProfile(t, name)
  PROVE  BasicInv' /\ NonceInv'
<1> DEFINE V == [tab[t] EXCEPT !.busy = @ \union {"save"}]
           Q == Request(t, "save")
           W == [Q EXCEPT !.name = name]
<1>1. V \in TabType /\ V.signing = tab[t].signing /\ V.nonce = tab[t].nonce
      /\ V.account = tab[t].account
  BY TabsAre DEF TabType
<1>2. tab' = [tab EXCEPT ![t] = V] /\ Sends(W) /\ UNCHANGED twice
  BY TabsAre DEF SaveProfile
<1>3. /\ Q \in RequestType /\ Q.at = "hook" /\ Q.tab = t /\ Q.kind = "save"
      /\ Q.token = SentCookie /\ Q.user = Nobody /\ Q.cookie = Keep
  BY SentCookieIs, FreeIs, KindNames, StageNames DEF Request, RequestType, Tabs0
<1> HIDE DEF Q
<1>4. /\ W \in RequestType /\ W.at = "hook" /\ W.tab = t /\ W.kind = "save"
      /\ W.token = SentCookie /\ W.user = Nobody /\ W.cookie = Keep
  BY <1>3 DEF RequestType, Names0
<1> HIDE DEF V, W
<1>5. QED
  BY <1>1, <1>2, <1>4, PlainSends

LEMMA SignInKeeps ==
  ASSUME BasicInv, NonceInv, NEW t \in Tabs, NEW x \in Wallets, SignIn(t, x)
  PROVE  BasicInv' /\ NonceInv'
<1> DEFINE V == [tab[t] EXCEPT !.signing = "nonce", !.account = x]
           Q == Request(t, "nonce")
           W == [Q EXCEPT !.wallet = x]
           w == [World EXCEPT !.known = @ \union {t}]
<1>1. /\ V \in TabType /\ V.signing = "nonce" /\ V.nonce = tab[t].nonce /\ V.account = x
      /\ x # NoWallet
  BY TabsAre, Constants DEF TabType, Wallets0
<1>2. tab' = [tab EXCEPT ![t] = V] /\ Sends(W) /\ UNCHANGED twice
  BY TabsAre DEF SignIn
<1>3. /\ Q \in RequestType /\ Q.at = "hook" /\ Q.tab = t /\ Q.kind = "nonce"
      /\ Q.token = SentCookie /\ Q.user = Nobody /\ Q.cookie = Keep /\ Q.ok = FALSE
  BY SentCookieIs, FreeIs, KindNames, StageNames DEF Request, RequestType, Tabs0
<1> HIDE DEF Q
<1>4. /\ W \in RequestType /\ W.at = "hook" /\ W.tab = t /\ W.kind = "nonce" /\ W.wallet = x
      /\ W.token = SentCookie /\ W.user = Nobody /\ W.cookie = Keep /\ W.ok = FALSE
  BY <1>3 DEF RequestType, Wallets0
<1> HIDE DEF V, W
<1>5. /\ w.minted = World.minted /\ t \in w.known
  BY DEF World
<1> HIDE DEF w
<1>6. RequestOK(W, w)
  BY <1>1, <1>4, <1>5, SentCookieIs, FreeIs, Constants DEF RequestOK, Past
<1>7. TabOK(V, World)
  BY <1>1, TabsAre DEF TabOK
<1>8. PICK r \in Requests : req' = [req EXCEPT ![r] = W]
  BY <1>2 DEF Sends
<1>9. UNCHANGED <<now, data, jar, late>>
  BY <1>2 DEF Sends
<1>10. jar' \in Cookies /\ (jar'.token # NoToken => jar'.token \in World.minted)
  BY <1>9 DEF BasicInv, TypeOK
<1>11. BasicInv'
  BY <1>1, <1>2, <1>4, <1>6, <1>7, <1>8, <1>9, <1>10, BrowserMoves DEF w
<1>12. NonceInv'
  BY <1>2, <1>4, <1>8, <1>9, NoVerification DEF data
<1>13. QED
  BY <1>11, <1>12
(* A verification is sent: of two in flight the nonce is in `twice`.           *)
LEMMA VerificationSent ==
  ASSUME BasicInv, NonceInv, NEW r \in Requests \ InFlight, NEW W, W.at = "hook",
         req' = [req EXCEPT ![r] = W], UNCHANGED sessions,
         twice' = twice \union Overlapping(W.nonce)
  PROVE  NonceInv'
<1> SUFFICES ASSUME NEW n \in Nonces \ twice' PROVE OnceOK(n)'
  BY DEF NonceInv
<1>1. OnceOK(n)
  BY DEF NonceInv
<1>2. \A d \in Requests : req'[d] = IF d = r THEN W ELSE req[d]
  BY NowIs DEF BasicInv, TypeOK
<1>3. "hook" \notin Past
  BY DEF Past
<1>4. Verifies(W, n) => \A d \in Requests : ~Verifies(req[d], n)
  BY DEF Verifies, Overlapping, InFlight
<1>5. \A d \in Requests \ {r} : Verifies(req[d], n)' = Verifies(req[d], n)
  BY <1>2 DEF Verifies
<1>6. \A r1, r2 \in Requests : Verifies(req'[r1], n) /\ Verifies(req'[r2], n) => r1 = r2
  BY <1>1, <1>2, <1>4 DEF OnceOK
<1>7. \A d \in Requests, s \in Tokens :
        Verifies(req'[d], n) /\ sessions'[s].nonce = n => req'[d].at \notin Past
  BY <1>1, <1>2, <1>3 DEF OnceOK
<1>8. QED
  BY <1>1, <1>6, <1>7 DEF OnceOK, Verifies

LEMMA SignMessageKeeps ==
  ASSUME BasicInv, NonceInv, NEW t \in Tabs, NEW x \in Wallets, SignMessage(t, x)
  PROVE  BasicInv' /\ NonceInv'
<1> DEFINE V == [tab[t] EXCEPT !.signing = "verify"]
           Q == Request(t, "verify")
           W == [Q EXCEPT !.wallet = tab[t].account, !.signer = x, !.nonce = tab[t].nonce]
<1>1. /\ V \in TabType /\ V.signing = "verify" /\ V.nonce = tab[t].nonce
      /\ V.account = tab[t].account
  BY TabsAre DEF TabType
<1>2. /\ tab' = [tab EXCEPT ![t] = V] /\ Sends(W)
      /\ twice' = twice \union Overlapping(tab[t].nonce) /\ tab[t].signing = "sign"
  BY TabsAre DEF SignMessage
<1>3. /\ Q \in RequestType /\ Q.at = "hook" /\ Q.tab = t /\ Q.kind = "verify"
      /\ Q.token = SentCookie /\ Q.user = Nobody /\ Q.cookie = Keep /\ Q.ok = FALSE
  BY SentCookieIs, FreeIs, KindNames, StageNames DEF Request, RequestType, Tabs0
<1> HIDE DEF Q
<1>4. tab[t].account \in Wallets0 /\ tab[t].nonce \in Nonces0 /\ x \in Wallets0
  BY TabsAre DEF TabType, Wallets0
<1>5. /\ W \in RequestType /\ W.at = "hook" /\ W.tab = t /\ W.kind = "verify"
      /\ W.wallet = tab[t].account /\ W.nonce = tab[t].nonce
      /\ W.token = SentCookie /\ W.user = Nobody /\ W.cookie = Keep /\ W.ok = FALSE
  BY <1>3, <1>4 DEF RequestType
<1> HIDE DEF V, W
<1>6. tab[t].nonce \in World.issued /\ tab[t].account # NoWallet
  BY <1>2, TabsAre DEF TabOK
<1>7. RequestOK(W, World)
  BY <1>5, <1>6, SentCookieIs, FreeIs, Constants DEF RequestOK, Past
<1>8. TabOK(V, World)
  BY <1>1, <1>6 DEF TabOK
<1>9. PICK r \in Requests \ InFlight : req' = [req EXCEPT ![r] = W]
  BY <1>2 DEF Sends
<1>10. UNCHANGED <<now, data, jar, late>>
  BY <1>2 DEF Sends
<1>11. jar' \in Cookies /\ (jar'.token # NoToken => jar'.token \in World.minted)
  BY <1>10 DEF BasicInv, TypeOK
<1>12. BasicInv'
  BY <1>1, <1>2, <1>5, <1>7, <1>8, <1>9, <1>10, <1>11, BrowserMoves
<1>13. twice' = twice \union Overlapping(W.nonce)
  BY <1>2, <1>5
<1>14. NonceInv'
  BY <1>5, <1>9, <1>10, <1>13, VerificationSent DEF data
<1>15. QED
  BY <1>12, <1>14

LEMMA VerifyAgainKeeps ==
  ASSUME BasicInv, NonceInv, NEW t \in Tabs, VerifyAgain(t)
  PROVE  BasicInv' /\ NonceInv'
<1> DEFINE W == [Free EXCEPT !.kind = "verify", !.wallet = tab[t].account,
                             !.signer = tab[t].account, !.nonce = tab[t].nonce, !.at = "hook"]
<1>1. /\ UNCHANGED <<now, data, jar, tab, late>> /\ tab[t].nonce # NoNonce
      /\ twice' = twice \union Overlapping(tab[t].nonce)
      /\ \E r \in Requests \ InFlight : req' = [req EXCEPT ![r] = W]
  BY DEF VerifyAgain
<1>2. tab[t].account \in Wallets0 /\ tab[t].nonce \in Nonces0
  BY TabsAre DEF TabType
<1>3. /\ W \in RequestType /\ W.at = "hook" /\ W.tab = NoTab /\ W.kind = "verify"
      /\ W.wallet = tab[t].account /\ W.nonce = tab[t].nonce
      /\ W.token = NoToken /\ W.user = Nobody /\ W.cookie = Keep /\ W.ok = FALSE
  BY <1>2, FreeIs, KindNames, StageNames DEF RequestType
<1> HIDE DEF W
<1>4. tab[t].nonce \in World.issued /\ tab[t].account # NoWallet
  BY <1>1, TabsAre DEF TabOK
<1>5. RequestOK(W, World)
  BY <1>3, <1>4, FreeIs, Constants DEF RequestOK, Past
<1>6. PICK r \in Requests \ InFlight : req' = [req EXCEPT ![r] = W]
  BY <1>1
<1>7. /\ tab' = [tab EXCEPT ![t] = tab[t]] /\ tab[t] \in TabType /\ TabOK(tab[t], World)
      /\ jar' \in Cookies /\ (jar'.token # NoToken => jar'.token \in World.minted)
  BY <1>1, TabsAre DEF BasicInv, TypeOK
<1>8. BasicInv'
  BY <1>1, <1>3, <1>5, <1>6, <1>7, BrowserMoves
<1>9. twice' = twice \union Overlapping(W.nonce)
  BY <1>1, <1>3
<1>10. NonceInv'
  BY <1>1, <1>3, <1>6, <1>9, VerificationSent DEF data
<1>11. QED
  BY <1>8, <1>10

LEMMA RejectSignatureKeeps ==
  ASSUME BasicInv, NonceInv, NEW t \in Tabs, RejectSignature(t)
  PROVE  BasicInv' /\ NonceInv'
<1> DEFINE V == [tab[t] EXCEPT !.signing = "no"]
<1>1. UNCHANGED <<now, data, jar, req, past>> /\ tab' = [tab EXCEPT ![t] = V]
  BY DEF RejectSignature
<1>2. /\ V \in TabType /\ V.signing = "no" /\ V.nonce = tab[t].nonce
      /\ V.account = tab[t].account
  BY TabsAre DEF TabType
<1> HIDE DEF V
<1>3. tab' \in [Tabs -> TabType] /\ \A u \in Tabs : tab'[u] = IF u = t THEN V ELSE tab[u]
  BY <1>1, <1>2, TabsAre
<1>4. World' = World
  <2>1. \A u \in Tabs : tab'[u].account = tab[u].account
    BY <1>2, <1>3
  <2>2. QED
    BY <1>1, <2>1 DEF World, data, past, Live, Expired
<1>5. \A u \in Tabs : TabOK(tab'[u], World)
  BY <1>2, <1>3, TabsAre DEF TabOK
<1>6. TypeOK'
  BY <1>1, <1>3 DEF BasicInv, TypeOK, data
<1>7. BasicInv'
  BY <1>1, <1>4, <1>5, <1>6 DEF BasicInv, data
<1>8. NonceInv'
  BY <1>1 DEF NonceInv, OnceOK, data, past
<1>9. QED
  BY <1>7, <1>8

-----------------------------------------------------------------------------
(* Replies, and the clock. *)

LEMMA TabAfterIs ==
  ASSUME BasicInv, NEW q \in RequestType, RequestOK(q, World), q.at = "reply", q.tab \in Tabs,
         NEW ok \in BOOLEAN, ok => q.ok, NEW V, V = TabAfter(q, ok)
  PROVE  V \in TabType /\ V.account = tab[q.tab].account /\ TabOK(V, World)
<1> DEFINE v == tab[q.tab]
<1>1. v \in TabType /\ TabOK(v, World)
  BY TabsAre
<1>2. q.kind \in Kinds \ {"none"} /\ q.user \in Profiles /\ q.nonce \in Nonces0
  BY RequestIs DEF RequestOK
<1>3. TabAfter(q, ok) =
        CASE q.kind = "me" -> AfterMe(v, q, ok)
          [] q.kind = "nonce" -> AfterNonce(v, q, ok)
          [] q.kind = "verify" -> AfterVerify(v, q, ok)
          [] q.kind = "logout" -> AfterLogout(v)
          [] q.kind = "comment" -> AfterComment(v)
          [] q.kind = "save" -> AfterSave(v, ok)
  BY DEF TabAfter
<1>4. q.tab \in World.known => v.account # NoWallet
  BY WorldIs
<1> HIDE DEF v
<1>5. ASSUME V.signing # "sign", V.nonce = v.nonce, V.account = v.account
      PROVE  TabOK(V, World)
  BY <1>1, <1>5 DEF TabOK
<1>6. CASE q.kind = "me"
  <2>1. V = [v EXCEPT !.user = IF ok THEN q.user ELSE Nobody,
                      !.status = IF ok THEN "authenticated" ELSE "unauthenticated"]
    BY <1>3, <1>6 DEF AfterMe
  <2>2. V \in TabType /\ V.account = v.account /\ V.nonce = v.nonce /\ V.signing = v.signing
    BY <1>1, <1>2, <2>1, FreeIs DEF TabType
  <2>3. QED
    BY <1>1, <2>2 DEF TabOK, v
<1>7. CASE q.kind = "nonce"
  <2>1. CASE ok
    <3>1. V = [v EXCEPT !.signing = "sign", !.nonce = q.nonce]
      BY <1>3, <1>7, <2>1 DEF AfterNonce
    <3>2. V \in TabType /\ V.account = v.account /\ V.nonce = q.nonce /\ V.signing = "sign"
      BY <1>1, <1>2, <3>1 DEF TabType
    <3>3. q.nonce \in World.issued /\ v.account # NoWallet
      BY <1>4, <1>7, <2>1 DEF RequestOK
    <3>4. q.nonce # NoNonce
      BY <3>3, WorldIs, Constants
    <3>5. QED
      BY <3>2, <3>3, <3>4 DEF TabOK, v
  <2>2. CASE ~ok
    <3>1. V = [v EXCEPT !.signing = "no"]
      BY <1>3, <1>7, <2>2 DEF AfterNonce
    <3>2. V \in TabType /\ V.account = v.account /\ V.nonce = v.nonce /\ V.signing = "no"
      BY <1>1, <3>1 DEF TabType
    <3>3. QED
      BY <1>5, <3>2 DEF v
  <2>3. QED
    BY <2>1, <2>2
<1>8. CASE q.kind = "verify"
  <2>1. V = IF ok THEN [v EXCEPT !.signing = "no", !.user = q.user, !.status = "authenticated"]
            ELSE [v EXCEPT !.signing = "no"]
    BY <1>3, <1>8 DEF AfterVerify
  <2>2. V \in TabType /\ V.account = v.account /\ V.nonce = v.nonce /\ V.signing = "no"
    BY <1>1, <1>2, <2>1 DEF TabType
  <2>3. QED
    BY <1>5, <2>2 DEF v
<1>9. CASE q.kind = "logout"
  <2>1. V = [v EXCEPT !.user = Nobody, !.status = "unauthenticated"]
    BY <1>3, <1>9 DEF AfterLogout
  <2>2. V \in TabType /\ V.account = v.account /\ V.nonce = v.nonce /\ V.signing = v.signing
    BY <1>1, <2>1, FreeIs DEF TabType
  <2>3. QED
    BY <1>1, <2>2 DEF TabOK, v
<1>10. CASE q.kind = "comment"
  <2>1. V = [v EXCEPT !.busy = @ \ {"comment"}]
    BY <1>3, <1>10 DEF AfterComment
  <2>2. V \in TabType /\ V.account = v.account /\ V.nonce = v.nonce /\ V.signing = v.signing
    BY <1>1, <2>1 DEF TabType
  <2>3. QED
    BY <1>1, <2>2 DEF TabOK, v
<1>11. CASE q.kind = "save"
  <2>1. V = [v EXCEPT !.busy = @ \ {"save"}, !.status = IF ok THEN "loading" ELSE @]
    BY <1>3, <1>11 DEF AfterSave
  <2>2. V \in TabType /\ V.account = v.account /\ V.nonce = v.nonce /\ V.signing = v.signing
    BY <1>1, <2>1 DEF TabType
  <2>3. QED
    BY <1>1, <2>2 DEF TabOK, v
<1>12. QED
  BY <1>2, <1>6, <1>7, <1>8, <1>9, <1>10, <1>11 DEF Kinds

LEMMA FreeOK ==
  ASSUME NEW w
  PROVE  RequestOK(Free, w)
BY FreeIs DEF RequestOK, Past

LEMMA CookieAfterIs ==
  ASSUME BasicInv, NEW q \in RequestType, RequestOK(q, World), NEW k, k = CookieAfter(q)
  PROVE  k \in Cookies /\ (k.token # NoToken => k.token \in World.minted)
<1>1. q.cookie \in Cookies /\ (q.cookie.token # NoToken => q.cookie.token \in World.minted)
  BY RequestIs DEF RequestOK
<1>2. jar \in Cookies /\ (jar.token # NoToken => jar.token \in World.minted)
  BY DEF BasicInv, TypeOK
<1>3. QED
  BY <1>1, <1>2 DEF CookieAfter

LEMMA FollowUpIs ==
  ASSUME BasicInv, NEW q \in RequestType, RequestOK(q, World), q.tab \in Tabs,
         NEW W, W = FollowUp(q)
  PROVE  W \in RequestType /\ RequestOK(W, World) /\ W.kind \in {"none", "me"}
<1> DEFINE k == CookieAfter(q)
           c == IF k.expires > now THEN k.token ELSE NoToken
<1>1. k \in Cookies /\ (k.token # NoToken => k.token \in World.minted)
  BY CookieAfterIs
<1>2. c \in Tokens0 /\ (c # NoToken => c \in World.minted)
  BY <1>1 DEF Cookies, Tokens0
<1>3. CASE q.kind = "save" /\ q.ok
  <2>1. W = [Free EXCEPT !.kind = "me", !.tab = q.tab, !.at = "hook", !.token = c]
    BY <1>3 DEF FollowUp
  <2> HIDE DEF c, k
  <2>2. PICK t \in Tabs, x \in Tokens0 : t = q.tab /\ x = c
    BY <1>2
  <2>3. W = [Free EXCEPT !.kind = "me", !.tab = t, !.at = "hook", !.token = x]
    BY <2>1, <2>2
  <2>4. /\ W \in RequestType /\ W.kind = "me" /\ W.tab = q.tab /\ W.at = "hook"
        /\ W.token = c /\ W.user = Nobody /\ W.cookie = Keep
    BY <2>2, <2>3, FreeIs, KindNames, StageNames DEF RequestType, Tabs0
  <2>5. RequestOK(W, World)
    BY <1>2, <2>4, FreeIs, Constants DEF RequestOK, Past
  <2>6. QED
    BY <2>4, <2>5
<1>4. CASE ~(q.kind = "save" /\ q.ok)
  BY <1>4, FreeIs, FreeOK DEF FollowUp
<1>5. QED
  BY <1>3, <1>4

LEMMA DeliverKeeps ==
  ASSUME BasicInv, NonceInv, NEW r \in Requests, Deliver(r)
  PROVE  BasicInv' /\ NonceInv'
<1> DEFINE q == req[r]
           V == TabAfter(q, q.ok)
           W == FollowUp(q)
<1>1. /\ q.at = "reply" /\ q.tab # NoTab /\ jar' = CookieAfter(q)
      /\ tab' = [tab EXCEPT ![q.tab] = V] /\ req' = [req EXCEPT ![r] = W]
      /\ UNCHANGED <<now, data, late, twice>>
  BY DEF Deliver
<1>2. q \in RequestType /\ RequestOK(q, World)
  BY NowIs
<1>3. q.tab \in Tabs /\ q.ok \in BOOLEAN
  BY <1>1, <1>2, RequestIs DEF Tabs0
<1>4. V \in TabType /\ V.account = tab[q.tab].account /\ TabOK(V, World)
  BY <1>1, <1>2, <1>3, TabAfterIs
<1>5. W \in RequestType /\ RequestOK(W, World) /\ W.kind \in {"none", "me"}
  BY <1>2, <1>3, FollowUpIs
<1>6. jar' \in Cookies /\ (jar'.token # NoToken => jar'.token \in World.minted)
  BY <1>1, <1>2, CookieAfterIs
<1> HIDE DEF q, V, W
<1>7. BasicInv'
  BY <1>1, <1>3, <1>4, <1>5, <1>6, BrowserMoves
<1>8. NonceInv'
  BY <1>1, <1>5, NoVerification DEF data
<1>9. QED
  BY <1>7, <1>8

LEMMA LoseKeeps ==
  ASSUME BasicInv, NonceInv, NEW r \in Requests, Lose(r)
  PROVE  BasicInv' /\ NonceInv'
<1> DEFINE q == req[r]
           V == TabAfter(q, FALSE)
<1>1. /\ q.at = "reply" /\ req' = [req EXCEPT ![r] = Free]
      /\ UNCHANGED <<now, data, jar, late, twice>>
  BY DEF Lose
<1>2. q \in RequestType /\ RequestOK(q, World)
  BY NowIs
<1>3. Free \in RequestType /\ RequestOK(Free, World)
  BY FreeIs, FreeOK
<1>4. CASE q.tab = NoTab
  <2>1. UNCHANGED tab
    BY <1>4 DEF Lose
  <2>2. QED
    BY <1>1, <1>3, <2>1, ReadMoves, NoVerification, FreeIs DEF data
<1>5. CASE q.tab # NoTab
  <2>1. tab' = [tab EXCEPT ![q.tab] = V]
    BY <1>5 DEF Lose
  <2>2. q.tab \in Tabs
    BY <1>2, <1>5, RequestIs DEF Tabs0
  <2>3. V \in TabType /\ V.account = tab[q.tab].account /\ TabOK(V, World)
    BY <1>1, <1>2, <2>2, TabAfterIs
  <2>4. jar' \in Cookies /\ (jar'.token # NoToken => jar'.token \in World.minted)
    BY <1>1 DEF BasicInv, TypeOK
  <2> HIDE DEF q, V
  <2>5. BasicInv'
    BY <1>1, <1>3, <2>1, <2>2, <2>3, <2>4, FreeIs, BrowserMoves
  <2>6. NonceInv'
    BY <1>1, FreeIs, NoVerification DEF data
  <2>7. QED
    BY <2>5, <2>6
<1>6. QED
  BY <1>4, <1>5

LEMMA TickKeeps ==
  ASSUME BasicInv, NonceInv, Tick
  PROVE  BasicInv' /\ NonceInv'
<1>1. /\ \A r \in InFlight : ~req[r].aged
      /\ now' = now + 1 /\ UNCHANGED <<data, jar, tab, past>>
      /\ req' = [r \in Requests |-> [req[r] EXCEPT !.aged = r \in InFlight]]
  BY DEF Tick
<1>2. ASSUME NEW r \in Requests
      PROVE  /\ req'[r] \in RequestType /\ Same([req'[r] EXCEPT !.aged = req[r].aged], req[r])
             /\ req'[r].aged = (r \in InFlight)
             /\ req'[r].at = req[r].at /\ req'[r].user = req[r].user
             /\ req'[r].cookie = req[r].cookie /\ req'[r].ok = req[r].ok
             /\ req'[r].nonce = req[r].nonce /\ req'[r].kind = req[r].kind
             /\ req'[r].tab = req[r].tab /\ req'[r].token = req[r].token
             /\ req'[r].wallet = req[r].wallet
  <2> DEFINE a == r \in InFlight
  <2>1. a \in BOOLEAN
    BY SMT
  <2>2. req[r] \in RequestType /\ req'[r] = [req[r] EXCEPT !.aged = a]
    BY <1>1, NowIs
  <2> HIDE DEF a
  <2>3. QED
    BY <2>1, <2>2 DEF RequestType, Same, a
<1>3. /\ World'.issued = World.issued /\ World'.consumed = World.consumed
      /\ World'.minted = World.minted /\ World'.known = World.known /\ World'.now = now + 1
      /\ World.now = now
  BY <1>1 DEF World, data
<1>4. World.minted \intersect World.ended \subseteq World'.ended
  <2>1. now \in Nat /\ \A s \in Tokens : sessions[s].expires \in Int
    BY SessionsAre DEF BasicInv, TypeOK, SessionType
  <2>2. \A s \in Tokens : Live(s)' => Live(s)
    BY <1>1, <2>1 DEF Live, Expired, data
  <2>3. QED
    BY <1>1, <2>2 DEF World, past
<1>5. ASSUME NEW r \in Requests
      PROVE  RequestOK(req'[r], World')
  <2>1. RequestOK(req[r], World) /\ req[r] \in RequestType
    BY NowIs
  <2>2. CASE req[r].at = "touch"
    <3>1. r \in InFlight /\ ~req[r].aged
      BY <1>1, <2>2 DEF InFlight
    <3>2. req[r].cookie.expires \in Int /\ now \in Nat /\ SessionTTL \in Nat
      BY <2>1, RequestIs, Constants DEF Cookies, BasicInv, TypeOK
    <3>3. req[r].cookie.expires >= now + SessionTTL
      BY <1>3, <2>1, <2>2, <3>1, <3>2 DEF RequestOK
    <3>4. req'[r].aged
      BY <1>2, <3>1, Zenon
    <3>5. req[r].cookie.expires + 1 >= (now + 1) + SessionTTL
      BY <3>2, <3>3
    <3>6. req'[r].cookie.expires + (IF req'[r].aged THEN 1 ELSE 0) >= World'.now + SessionTTL
      BY <1>2, <1>3, <3>4, <3>5
    <3>7. QED
      BY <1>2, <1>3, <2>1, <2>2, <3>6 DEF RequestOK, Past
  <2>3. CASE req[r].at # "touch"
    BY <1>2, <1>3, <1>4, <2>1, <2>3 DEF RequestOK
  <2>4. QED
    BY <2>2, <2>3
<1>6. req' \in [Requests -> RequestType]
  BY <1>1, <1>2
<1>7. TypeOK'
  BY <1>1, <1>6 DEF BasicInv, TypeOK, data
<1>8. \A t \in Tabs : TabOK(tab'[t], World')
  BY <1>1, <1>3, TabsAre DEF TabOK
<1>9. BasicInv'
  BY <1>1, <1>3, <1>5, <1>7, <1>8 DEF BasicInv, data
<1>10. NonceInv'
  <2>1. \A r \in Requests, n \in Nonces : Verifies(req'[r], n) = Verifies(req[r], n)
    BY <1>2 DEF Verifies
  <2>2. UNCHANGED <<sessions, twice>> /\ \A r \in Requests : req'[r].at = req[r].at
    BY <1>1, <1>2 DEF data, past
  <2>3. QED
    BY <2>1, <2>2 DEF NonceInv, OnceOK
<1>11. QED
  BY <1>9, <1>10

-----------------------------------------------------------------------------
(* The theorems. *)

LEMMA InitKeeps ==
  ASSUME Init
  PROVE  BasicInv /\ NonceInv
<1>1. \A r \in Requests : req[r] = Free
  BY DEF Init
<1>2. \A n \in Nonces : nonces[n].owner = NoWallet /\ nonces[n].consumed = FALSE
  BY DEF Init
<1>3. \A s \in Tokens : sessions[s].wallet = NoWallet /\ sessions[s].nonce = NoNonce
  BY DEF Init
<1>4. \A t \in Tabs : tab[t].signing = "no"
  BY DEF Init
<1>5. \A t \in Tabs : tab[t].nonce = NoNonce
  BY DEF Init
<1>6. TypeOK
  <2>1. now \in Nat /\ jar \in Cookies
    BY FreeIs DEF Init
  <2>2. nonces \in [Nonces -> NonceType]
    BY DEF Init, NonceType, Wallets0
  <2>3. sessions \in [Tokens -> SessionType]
    BY DEF Init, SessionType, Wallets0, Nonces0
  <2>4. users \in [Wallets -> Names0]
    BY DEF Init, Names0
  <2>5. tab \in [Tabs -> TabType]
    BY FreeIs DEF Init, TabType, Wallets0, Nonces0
  <2>6. req \in [Requests -> RequestType]
    BY FreeIs DEF Init
  <2>7. QED
    BY <2>1, <2>2, <2>3, <2>4, <2>5, <2>6 DEF TypeOK
<1>7. World.consumed \subseteq World.issued
  BY <1>2, WorldIs
<1>8. jar.token = NoToken
  BY FreeIs DEF Init
<1>9. \A t \in Tabs : TabOK(tab[t], World)
  BY <1>4, <1>5 DEF TabOK
<1>10. \A r \in Requests : RequestOK(req[r], World)
  BY <1>1, FreeOK
<1>11. BasicInv
  BY <1>3, <1>6, <1>7, <1>8, <1>9, <1>10 DEF BasicInv
<1>12. \A n \in Nonces : OnceOK(n)
  BY <1>1, <1>3, FreeIs, Constants DEF OnceOK, Verifies
<1>13. QED
  BY <1>11, <1>12 DEF NonceInv

LEMMA NextKeeps ==
  ASSUME BasicInv, NonceInv, [Next]_vars
  PROVE  BasicInv' /\ NonceInv'
<1>1. CASE UNCHANGED vars
  <2>1. World' = World
    BY <1>1, SameWorld DEF vars, data, past
  <2>2. BasicInv'
    BY <1>1, <2>1 DEF BasicInv, TypeOK, vars, data
  <2>3. NonceInv'
    BY <1>1 DEF NonceInv, OnceOK, vars, data, past
  <2>4. QED
    BY <2>2, <2>3
<1>2. CASE \E t \in Tabs : User(t)
  BY <1>2, LoadMeKeeps, RejectSignatureKeeps, SignOutKeeps, PostCommentKeeps, VerifyAgainKeeps,
     SignInKeeps, SignMessageKeeps, SaveProfileKeeps DEF User
<1>3. CASE \E r \in Requests : Api(r)
  BY <1>3, HookKeeps, PurgeKeeps, RefreshKeeps, IssueNonceKeeps, FindValidNonceKeeps,
     MarkNonceConsumedKeeps, FindUserKeeps, CreateUserKeeps, CreateSessionKeeps, RevokeKeeps,
     WriteKeeps DEF Api
<1>4. CASE \E r \in Requests : Deliver(r) \/ Lose(r)
  BY <1>4, DeliverKeeps, LoseKeeps
<1>5. CASE Tick
  BY <1>5, TickKeeps
<1>6. QED
  BY <1>1, <1>2, <1>3, <1>4, <1>5 DEF Next

LEMMA Invariant == Spec => [](BasicInv /\ NonceInv)
<1>1. Init => BasicInv /\ NonceInv
  BY InitKeeps
<1>2. BasicInv /\ NonceInv /\ [Next]_vars => (BasicInv /\ NonceInv)'
  BY NextKeeps
<1>3. QED
  BY <1>1, <1>2, PTL DEF Spec

(* The tables, the requests in flight and the tabs hold values of their kind. *)
(* (TypeOK: auth_nonces, user_sessions, users, AuthContext's state)          *)
THEOREM TypeCorrect == Spec => []TypeOK
<1>1. BasicInv /\ NonceInv => TypeOK
  BY DEF BasicInv
<1>2. QED
  BY <1>1, Invariant, PTL

(* However requests interleave, fail or are repeated, one signature signs in  *)
(* once: a nonce makes more than one session only if two verifications of it  *)
(* were in flight together (verifySignatureAndCreateSession).                *)
THEOREM NonceSignsInOnce == Spec => []NonceOnce
<1>1. ASSUME NonceInv
      PROVE  NonceOnce
  <2> SUFFICES ASSUME NEW n \in Nonces \ twice
               PROVE  Cardinality({s \in Tokens : sessions[s].nonce = n}) <= 1
    BY DEF NonceOnce
  <2> DEFINE S == {s \in Tokens : sessions[s].nonce = n}
  <2>1. \A x, y \in S : x = y
    BY <1>1 DEF NonceInv, OnceOK
  <2> HIDE DEF S
  <2>2. CASE S = {}
    BY <2>2, FS_EmptySet DEF S
  <2>3. CASE S # {}
    <3>1. PICK x \in S : TRUE
      BY <2>3
    <3>2. S = {x}
      BY <2>1, <3>1
    <3>3. Cardinality(S) = 1
      BY <3>2, FS_Singleton
    <3>4. QED
      BY <3>3 DEF S
  <2>4. QED
    BY <2>2, <2>3
<1>2. QED
  BY <1>1, Invariant, PTL

LEMMA LiveKept ==
  ASSUME BasicInv, [Next]_vars, NEW s \in Tokens, Live(s), ~Live(s)'
  PROVE  \/ now' # now
         \/ s \in late
         \/ \E r \in Requests :
              req[r].at = "revoke" /\ req[r].token = s /\ req'[r].at = "reply"
<1>1. CASE UNCHANGED <<now, sessions>>
  BY <1>1 DEF Live, Expired
<1>2. CASE Tick
  BY <1>2 DEF Tick, BasicInv, TypeOK
<1>3. ASSUME NEW r \in Requests, Purge(r), sessions' # sessions
      PROVE  s \in late
  <2>1. /\ req[r].at = "purge" /\ UNCHANGED now
        /\ sessions' = [sessions EXCEPT ![req[r].token].row = FALSE]
    BY <1>3 DEF Purge, Moves
  <2>2. req[r].token \in World.ended
    BY <2>1, NowIs DEF RequestOK
  <2>3. s # req[r].token => sessions'[s] = sessions[s]
    BY <2>1, SessionsAre
  <2>4. s = req[r].token
    BY <2>1, <2>3 DEF Live, Expired
  <2>5. QED
    BY <2>2, <2>4, WorldIs
<1>4. ASSUME NEW r \in Requests, Refresh(r), sessions' # sessions
      PROVE  FALSE
  <2> DEFINE q == req[r]
             e == IF sessions[q.token].row THEN q.cookie.expires ELSE sessions[q.token].expires
  <2>1. /\ q.at = "touch" /\ UNCHANGED now
        /\ sessions' = [sessions EXCEPT ![q.token].expires = e]
    BY <1>4 DEF Refresh, Moves
  <2>2. q \in RequestType /\ RequestOK(q, World)
    BY NowIs
  <2>3. q.cookie.expires \in Int /\ now \in Nat /\ World.now = now
    BY <2>2, RequestIs, WorldIs DEF Cookies, BasicInv, TypeOK
  <2>4. q.cookie.expires > now
    BY <2>1, <2>2, <2>3, Constants DEF RequestOK
  <2> HIDE DEF q
  <2>5. sessions[s] \in SessionType /\ sessions \in [Tokens -> SessionType]
    BY SessionsAre
  <2>6. s # q.token => sessions'[s] = sessions[s]
    BY <2>1, <2>5
  <2>7. s = q.token => e = q.cookie.expires
    BY DEF Live
  <2> HIDE DEF e
  <2>8. s = q.token => /\ sessions'[s].expires = e
                       /\ sessions'[s].row = sessions[s].row
                       /\ sessions'[s].revoked = sessions[s].revoked
    BY <2>1, <2>5 DEF SessionType
  <2>9. CASE s = q.token
    <3>1. ~(sessions'[s].expires <= now')
      BY <2>1, <2>3, <2>4, <2>7, <2>8, <2>9
    <3>2. QED
      BY <2>8, <2>9, <3>1 DEF Live, Expired
  <2>10. CASE s # q.token
    BY <2>1, <2>6, <2>10 DEF Live, Expired
  <2>11. QED
    BY <2>9, <2>10
<1>5. ASSUME NEW r \in Requests, CreateSession(r), sessions' # sessions
      PROVE  FALSE
  <2> DEFINE R == [wallet |-> req[r].user.wallet, nonce |-> req[r].nonce,
                   expires |-> now + SessionTTL, revoked |-> FALSE, row |-> TRUE]
  <2>1. PICK x \in Unminted : sessions' = [sessions EXCEPT ![x] = R]
    BY <1>5 DEF CreateSession
  <2>2. UNCHANGED now
    BY <1>5 DEF CreateSession, Moves
  <2>3. now \in Nat
    BY DEF BasicInv, TypeOK
  <2>4. R.expires = now + SessionTTL /\ R.revoked = FALSE /\ R.row = TRUE
    OBVIOUS
  <2> HIDE DEF R
  <2>5. sessions'[s] = IF s = x THEN R ELSE sessions[s]
    BY <2>1, SessionsAre
  <2>6. ~(now + SessionTTL <= now)
    BY <2>3, Constants
  <2>7. QED
    BY <2>2, <2>4, <2>5, <2>6 DEF Live, Expired
<1>6. ASSUME NEW r \in Requests, RevokeSession(r), sessions' # sessions
      PROVE  req[r].at = "revoke" /\ req[r].token = s /\ req'[r].at = "reply"
  <2> DEFINE q == req[r]
  <2>1. /\ q.at = "revoke" /\ UNCHANGED now /\ req' = [req EXCEPT ![r] = LoggedOut(q)]
        /\ sessions' = [x \in Tokens |->
             [sessions[x] EXCEPT !.revoked = @ \/ x \in Revoked(q.token)]]
    BY <1>6 DEF RevokeSession, Moves
  <2>2. q \in RequestType /\ req \in [Requests -> RequestType]
    BY NowIs
  <2>3. req'[r].at = "reply"
    BY <2>1, <2>2 DEF LoggedOut, RequestType
  <2> HIDE DEF q
  <2>4. sessions[s] \in SessionType
    BY SessionsAre
  <2>5. sessions'[s] = [sessions[s] EXCEPT !.revoked = @ \/ s \in {q.token}]
    BY <2>1 DEF Revoked
  <2>6. /\ sessions'[s].row = sessions[s].row /\ sessions'[s].expires = sessions[s].expires
        /\ s # q.token => ~sessions'[s].revoked
    BY <2>4, <2>5 DEF SessionType, Live
  <2>7. s = q.token
    BY <2>1, <2>6 DEF Live, Expired
  <2>8. QED
    BY <2>1, <2>3, <2>7 DEF q
<1>7. CASE \E t \in Tabs : User(t)
  <2>1. UNCHANGED <<now, sessions>>
    BY <1>7 DEF User, LoadMe, RejectSignature, SignOut, PostComment, VerifyAgain, SignIn,
       SignMessage, SaveProfile, Sends, data
  <2>2. QED
    BY <1>1, <2>1
<1>8. CASE \E r \in Requests : Api(r)
  <2>1. PICK r \in Requests : Api(r)
    BY <1>8
  <2>2. UNCHANGED now
    BY <2>1 DEF Api, Hook, Purge, Refresh, IssueNonce, FindValidNonce, MarkNonceConsumed,
       FindUser, CreateUser, CreateSession, RevokeSession, WriteComment, WriteProfile, Moves
  <2>3. \/ Purge(r) \/ Refresh(r) \/ CreateSession(r) \/ RevokeSession(r)
        \/ UNCHANGED sessions
    BY <2>1 DEF Api, Hook, IssueNonce, FindValidNonce, MarkNonceConsumed, FindUser, CreateUser,
       WriteComment, WriteProfile, data
  <2>4. QED
    BY <1>1, <1>3, <1>4, <1>5, <1>6, <2>2, <2>3
<1>9. CASE \E r \in Requests : Deliver(r) \/ Lose(r)
  BY <1>1, <1>9 DEF Deliver, Lose, data
<1>10. CASE UNCHANGED vars
  BY <1>1, <1>10 DEF vars, data
<1>11. QED
  BY <1>2, <1>7, <1>8, <1>9, <1>10 DEF Next

(* A session that the API accepts is accepted until its own logout or its    *)
(* expiry: no deletion, refresh or sign-in of another request ends it, except *)
(* the deletion of a row that was extended after it had expired.             *)
(* (getSessionFromToken, refreshSession, revokeSession)                      *)
THEOREM SessionsLast == Spec => SessionKept
<1>1. BasicInv /\ [Next]_vars =>
        [\A s \in Tokens : Live(s) /\ ~Live(s)' =>
           \/ now' # now
           \/ s \in late
           \/ \E r \in Requests :
                req[r].at = "revoke" /\ req[r].token = s /\ req'[r].at = "reply"]_vars
  BY LiveKept
<1>2. QED
  BY <1>1, Invariant, PTL DEF Spec, SessionKept

-----------------------------------------------------------------------------
(* Who is signed in, once a tab has asked alone.                            *)

\* What a request alone in flight finds: the table's sessions and names, the
\* browser's cookie, and what each tab shows.
Scene == [sessions |-> sessions, users |-> users, jar |-> jar, now |-> now, last |-> last,
          shown |-> [t \in Tabs |-> tab[t].user]]

Sent(k, w) == IF k.expires > w.now THEN k.token ELSE NoToken
TrueIn(k, w) ==
  Sent(k, w) # NoToken => w.sessions[k.token].row /\ ~w.sessions[k.token].revoked
Shows(u, k, w) ==
  k.token # NoToken /\ w.sessions[k.token].wallet = u.wallet /\ w.users[u.wallet] = u.name

\* Nothing is in flight: the cookie, the table and the screen of the tab that
\* learnt last agree.
Agree(w) ==
  w.last # NoTab =>
    /\ TrueIn(w.jar, w)
    /\ IF w.shown[w.last] = Nobody THEN Sent(w.jar, w) = NoToken
       ELSE Shows(w.shown[w.last], w.jar, w)

\* The browser's cookie when q's reply arrives.
AfterIn(q, w) == IF q.cookie = Keep THEN w.jar ELSE q.cookie

Made(q) == q.kind = "verify" /\ q.at = "reply" /\ q.ok
Saved(q) == q.kind = "save" /\ q.at = "reply" /\ q.ok

\* q was sent with the browser's cookie, by a tab that shows a user if need be.
Held(q, w) ==
  /\ q.tab # NoTab
  /\ IF q.token = NoToken THEN Sent(w.jar, w) = NoToken ELSE q.token = w.jar.token
  /\ q.kind \in {"comment", "save"} => w.shown[q.tab] # Nobody
\* The reply tells no tab who is signed in: the screen agrees as it is.
Carries(q, w) ==
  w.last # NoTab =>
    IF w.shown[w.last] = Nobody THEN q.token = NoToken ELSE Shows(w.shown[w.last], w.jar, w)
Carrying == {"nonce", "verify", "comment", "save"}

OwnCookie(q) == q.cookie \in {Keep, NoCookie} \/ (q.token # NoToken /\ q.cookie.token = q.token)
OwnUser(q, w) ==
  q.user # Nobody => /\ q.token # NoToken /\ q.cookie # NoCookie
                     /\ q.user.wallet = w.sessions[q.token].wallet
OwnName(q, w) == q.user # Nobody => q.user.name = w.users[q.user.wallet]
NoUser(q) == q.user = Nobody => q.cookie = NoCookie \/ (q.token = NoToken /\ q.cookie = Keep)

\* The hook is done with q.
Found(q, w) ==
  /\ Held(q, w) /\ TrueIn(AfterIn(q, w), w)
  /\ OwnCookie(q) /\ OwnUser(q, w) /\ OwnName(q, w) /\ NoUser(q)
  /\ q.kind \in Carrying => Carries(q, w)

Sound(q, w) ==
  /\ q.at # "free" /\ Held(q, w)
  /\ q.at \notin {"hook", "touch"} => TrueIn(AfterIn(q, w), w)
  /\ q.at = "hook" => q.cookie = Keep /\ q.user = Nobody
  /\ q.at = "purge" => q.cookie = NoCookie /\ q.user = Nobody
  /\ q.at = "touch" => /\ w.sessions[q.token].row /\ ~w.sessions[q.token].revoked
                       /\ q.cookie.token = q.token /\ q.user # Nobody
  /\ q.at = "revoke" => q.kind = "logout"
  /\ ~Made(q) => OwnCookie(q)
  /\ ~Made(q) /\ (q.kind = "logout" => q.at # "reply") /\ q.at # "session" =>
       OwnUser(q, w) /\ (~Saved(q) => OwnName(q, w))
  /\ q.at = "session" => OwnName(q, w)
  /\ Made(q) => /\ q.user # Nobody /\ q.cookie \notin {Keep, NoCookie}
                /\ Shows(q.user, q.cookie, w)
  /\ q.at = "reply" /\ q.kind = "me" => (q.ok <=> q.user # Nobody) /\ NoUser(q)
  /\ q.at = "reply" /\ q.kind = "logout" =>
       q.cookie = NoCookie \/ (q.token = NoToken /\ q.cookie = Keep)
  /\ q.kind \in Carrying /\ ~Saved(q) => Carries(q, w)

AloneInv ==
  /\ InFlight = {} => Agree(Scene)
  /\ quiet => \A r \in InFlight : InFlight = {r} /\ Sound(req[r], Scene)

\* Wherever a wallet is signed in it has a name.
Named(q, us) ==
  /\ q.kind = "save" => q.name \in Names
  /\ q.at = "session" => us[q.user.wallet] # NoName

NamesInv ==
  /\ \A s \in Tokens : sessions[s].wallet # NoWallet => users[sessions[s].wallet] # NoName
  /\ \A r \in Requests : Named(req[r], users)
  /\ last \in Tabs \union {NoTab}
  /\ \A c \in comments : c.sure => c.author = c.shown

SceneInv == NamesInv /\ AloneInv

LEMMA HandlerIs ==
  ASSUME NEW q \in RequestType, q.kind # "none", NEW W, W = HandlerOf(q)
  PROVE  /\ q.kind = "me" => W.at = "reply" /\ (W.ok <=> q.user # Nobody)
         /\ q.kind = "nonce" => W.at = "issue"
         /\ q.kind = "verify" => W.at = "find"
         /\ q.kind = "logout" => W.at = IF q.token = NoToken THEN "reply" ELSE "revoke"
         /\ q.kind \in {"comment", "save"} => W.at = "reply" \/ W.at = "write"
         /\ Same(W, q) /\ W.user = q.user /\ W.cookie = q.cookie
<1>1. CASE q.kind = "me"
  <2>1. W = [q EXCEPT !.at = "reply", !.ok = (q.user # Nobody)]
    BY <1>1 DEF HandlerOf
  <2>2. W.ok = (q.user # Nobody)
    BY <2>1 DEF RequestType
  <2>3. W.at = "reply" /\ Same(W, q) /\ W.user = q.user /\ W.cookie = q.cookie
    BY <2>1 DEF RequestType, Same
  <2>4. QED
    BY <1>1, <2>2, <2>3
<1>2. CASE q.kind = "nonce"
  <2>1. W = [q EXCEPT !.at = "issue"]
    BY <1>2 DEF HandlerOf
  <2>2. QED
    BY <1>2, <2>1 DEF RequestType, Same
<1>3. CASE q.kind = "verify"
  <2>1. W = [q EXCEPT !.at = "find"]
    BY <1>3 DEF HandlerOf
  <2>2. QED
    BY <1>3, <2>1 DEF RequestType, Same
<1>4. CASE q.kind = "logout"
  <2>1. W = [q EXCEPT !.at = IF q.token = NoToken THEN "reply" ELSE "revoke", !.ok = TRUE]
    BY <1>4 DEF HandlerOf
  <2>2. QED
    BY <1>4, <2>1 DEF RequestType, Same
<1>5. CASE q.kind \in {"comment", "save"}
  <2>1. W = [q EXCEPT !.at = IF q.user = Nobody THEN "reply" ELSE "write"]
    BY <1>5 DEF HandlerOf
  <2>2. QED
    BY <1>5, <2>1 DEF RequestType, Same
<1>6. QED
  BY <1>1, <1>2, <1>3, <1>4, <1>5, RequestIs DEF Kinds

(* The handler starts with what the hook found.                             *)
LEMMA HandlerSound ==
  ASSUME NEW w, NEW q \in RequestType, q.kind # "none", Found(q, w), NEW W, W = HandlerOf(q)
  PROVE  Sound(W, w)
<1>1. /\ Same(W, q) /\ W.user = q.user /\ W.cookie = q.cookie
      /\ q.kind = "me" => W.at = "reply" /\ (W.ok <=> q.user # Nobody)
      /\ q.kind = "logout" => W.at = IF q.token = NoToken THEN "reply" ELSE "revoke"
      /\ W.at \in {"reply", "issue", "find", "write", "revoke"}
      /\ W.at = "revoke" => q.kind = "logout"
      /\ ~Made(W)
  BY HandlerIs, RequestIs DEF Kinds, Made, Same
<1>2. /\ Held(W, w) /\ TrueIn(AfterIn(W, w), w) /\ OwnCookie(W) /\ OwnUser(W, w)
      /\ OwnName(W, w) /\ NoUser(W) /\ (W.kind \in Carrying => Carries(W, w))
  BY <1>1 DEF Found, Same, Held, AfterIn, OwnCookie, OwnUser, OwnName, NoUser, Carries
<1>3. W.at = "reply" /\ W.kind = "logout" =>
        W.cookie = NoCookie \/ (W.token = NoToken /\ W.cookie = Keep)
  BY <1>1, <1>2 DEF OwnCookie, Same
<1>4. QED
  BY <1>1, <1>2, <1>3 DEF Sound, Same

(* Between the hook and the reply a request keeps what was found.            *)
LEMMA StageSound ==
  ASSUME NEW w, NEW q, NEW W, Sound(q, w), Same(W, q), W.user = q.user, W.cookie = q.cookie,
         q.kind \in Carrying, q.at \in {"issue", "find", "mark", "user", "new user", "write"},
         W.at \in {"issue", "find", "mark", "user", "new user", "write", "reply"},
         ~Made(W)
  PROVE  Sound(W, w)
<1>1. ~Made(q) /\ ~Saved(q) /\ W.kind \in Carrying /\ W.kind # "me" /\ W.kind # "logout"
  BY DEF Made, Saved, Same, Carrying
<1>2. /\ Held(W, w) /\ TrueIn(AfterIn(W, w), w) /\ OwnCookie(W) /\ OwnUser(W, w)
      /\ OwnName(W, w) /\ Carries(W, w)
  BY <1>1 DEF Sound, Same, Held, AfterIn, OwnCookie, OwnUser, OwnName, Carries
<1>3. QED
  BY <1>1, <1>2 DEF Sound

LEMMA SceneIs ==
  /\ Scene.sessions = sessions /\ Scene.users = users /\ Scene.jar = jar /\ Scene.now = now
  /\ Scene.last = last /\ Scene.shown = [t \in Tabs |-> tab[t].user]
BY DEF Scene

LEMMA SceneIsThen ==
  /\ Scene'.sessions = sessions' /\ Scene'.users = users' /\ Scene'.jar = jar'
  /\ Scene'.now = now' /\ Scene'.last = last' /\ Scene'.shown = [t \in Tabs |-> tab'[t].user]
BY DEF Scene

(* A step of a request in flight, which may be alone.                        *)
LEMMA AloneMoves ==
  ASSUME BasicInv, AloneInv, NEW r \in Requests, req[r].at # "free", NEW W, W.at # "free",
         req' = [req EXCEPT ![r] = W], quiet' => quiet, quiet' => Sound(W, Scene')
  PROVE  AloneInv'
<1>1. \A d \in Requests : req'[d] = IF d = r THEN W ELSE req[d]
  BY NowIs
<1>2. InFlight' = InFlight /\ r \in InFlight
  BY <1>1 DEF InFlight
<1>3. ASSUME quiet', NEW d \in InFlight'
      PROVE  InFlight' = {d} /\ Sound(req'[d], Scene')
  <2>1. InFlight' = {r} /\ d = r
    BY <1>2, <1>3 DEF AloneInv
  <2>2. QED
    BY <1>1, <1>3, <2>1
<1>4. QED
  BY <1>2, <1>3 DEF AloneInv

LEMMA NamesMove ==
  ASSUME BasicInv, NamesInv, NEW r \in Requests, NEW W, req' = [req EXCEPT ![r] = W],
         Named(W, users'), \A x \in Wallets : users[x] # NoName => users'[x] # NoName,
         \A s \in Tokens : \/ sessions'[s].wallet = sessions[s].wallet
                           \/ users'[sessions'[s].wallet] # NoName,
         last' \in Tabs \union {NoTab},
         \A c \in comments' : c \in comments \/ (c.sure => c.author = c.shown)
  PROVE  NamesInv'
<1>1. \A d \in Requests : req'[d] = IF d = r THEN W ELSE req[d]
  BY NowIs
<1>2. \A s \in Tokens : sessions[s].wallet # NoWallet => sessions[s].wallet \in Wallets
  BY DEF BasicInv, TypeOK, SessionType, Wallets0
<1>3. \A s \in Tokens : sessions'[s].wallet # NoWallet => users'[sessions'[s].wallet] # NoName
  BY <1>2 DEF NamesInv
<1>4. ASSUME NEW d \in Requests
      PROVE  Named(req[d], users')
  <2>1. req[d].user \in Profiles /\ RequestOK(req[d], World) /\ Named(req[d], users)
    BY NowIs, RequestIs DEF BasicInv, TypeOK, NamesInv
  <2>2. req[d].at = "session" => req[d].user.wallet \in Wallets
    BY <2>1 DEF RequestOK, Profiles, Wallets0
  <2>3. QED
    BY <2>1, <2>2 DEF Named
<1>5. \A d \in Requests : Named(req'[d], users')
  BY <1>1, <1>4
<1>6. \A c \in comments' : c.sure => c.author = c.shown
  BY DEF NamesInv
<1>7. QED
  BY <1>3, <1>5, <1>6 DEF NamesInv

(* A step of request r that signs in nobody.                                 *)
LEMMA SceneMoves ==
  ASSUME BasicInv, SceneInv, NEW r \in Requests, req[r].at # "free",
         NEW W, Same(W, req[r]), W.at \notin {"session", "free"}, req' = [req EXCEPT ![r] = W],
         \A x \in Wallets : users[x] # NoName => users'[x] # NoName,
         \A s \in Tokens : \/ sessions'[s].wallet = sessions[s].wallet
                           \/ users'[sessions'[s].wallet] # NoName,
         UNCHANGED last,
         \A c \in comments' : c \in comments \/ (c.sure => c.author = c.shown),
         quiet' => quiet, quiet' => Sound(W, Scene')
  PROVE  SceneInv'
<1>1. AloneInv'
  BY AloneMoves DEF SceneInv
<1>2. Named(W, users')
  BY DEF SceneInv, NamesInv, Named, Same
<1>3. last' \in Tabs \union {NoTab} /\ NamesInv
  BY DEF SceneInv, NamesInv
<1>4. NamesInv'
  BY <1>2, <1>3, NamesMove
<1>5. QED
  BY <1>1, <1>4 DEF SceneInv

LEMMA AloneIs ==
  ASSUME BasicInv, SceneInv, NEW r \in Requests, req[r].at # "free", quiet
  PROVE  Sound(req[r], Scene)
BY DEF SceneInv, AloneInv, InFlight

(* A browser whose cookie is cleared sends none.                             *)
LEMMA ClearedIsTrue ==
  ASSUME NEW w, NEW q, q.cookie = NoCookie
  PROVE  TrueIn(AfterIn(q, w), w) /\ Sent(NoCookie, w) = NoToken
<1>1. NoCookie # Keep
  BY FreeIs DEF NoCookie, Keep
<1>2. Sent(NoCookie, w) = NoToken
  BY FreeIs DEF Sent
<1>3. QED
  BY <1>1, <1>2 DEF TrueIn, AfterIn

(* What the hook reads of a session is what the browser was given.           *)
LEMMA ReadSound ==
  ASSUME BasicInv, NEW q \in RequestType, RequestOK(q, World), q.at = "hook",
         Sound(q, Scene), q.token # NoToken, NEW W, W = SessionRead(q)
  PROVE  Sound(W, Scene)
<1> DEFINE s == sessions[q.token]
           u == [wallet |-> s.wallet, name |-> users[s.wallet]]
           bare == [q EXCEPT !.cookie = NoCookie]
           known == [q EXCEPT !.user = u]
           w == Scene
<1>1. q.token \in Tokens /\ s.wallet # NoWallet /\ s \in SessionType
  BY WorldIs DEF RequestOK, BasicInv, TypeOK
<1>2. /\ u \in Profiles /\ u # Nobody /\ u.wallet = w.sessions[q.token].wallet
      /\ u.name = w.users[u.wallet]
  BY <1>1, FreeIs, SceneIs DEF BasicInv, TypeOK, SessionType, Wallets0, Profiles
<1>3. /\ bare \in RequestType /\ Same(bare, q) /\ bare.user = q.user
      /\ bare.cookie = NoCookie /\ bare.at = "hook"
  BY FreeIs, CookieChanges
<1> HIDE DEF u
<1>4. /\ known \in RequestType /\ Same(known, q) /\ known.user = u
      /\ known.cookie = q.cookie /\ known.at = "hook"
  BY <1>2, UserChanges
<1>5. /\ q.cookie = Keep /\ q.user = Nobody /\ q.kind # "none" /\ Held(q, w)
      /\ (q.kind \in Carrying => Carries(q, w))
  BY DEF Sound, RequestOK, Saved
<1>6. NoCookie # Keep
  BY FreeIs DEF NoCookie, Keep
<1> HIDE DEF bare, known, w
<1>7. CASE W = HandlerOf(bare)
  <2>1. Found(bare, w)
    BY <1>3, <1>5, <1>6, ClearedIsTrue DEF Found, Same, Held, Carries, OwnCookie, OwnUser,
       OwnName, NoUser
  <2>2. QED
    BY <1>3, <1>5, <1>7, <2>1, HandlerSound DEF Same, w
<1>8. CASE Live(q.token) /\ W = HandlerOf(known)
  <2>1. Found(known, w)
    <3>1. w.jar.token = q.token /\ AfterIn(known, w) = w.jar
      BY <1>4, <1>5 DEF Held, AfterIn
    <3>2. w.sessions[q.token].row /\ ~w.sessions[q.token].revoked
      BY <1>8, SceneIs DEF Live, w
    <3>3. QED
      BY <1>2, <1>4, <1>5, <1>6, <3>1, <3>2 DEF Found, Same, Held, Carries, TrueIn, OwnCookie,
         OwnUser, OwnName, NoUser
  <2>2. QED
    BY <1>4, <1>5, <1>8, <2>1, HandlerSound DEF Same, w
<1>9. CASE W = [q EXCEPT !.cookie = NoCookie, !.at = "purge"]
  <2>1. W = [bare EXCEPT !.at = "purge"]
    BY <1>9 DEF bare
  <2>2. Same(W, q) /\ W.user = Nobody /\ W.cookie = NoCookie /\ W.at = "purge"
    BY <1>3, <1>5, <2>1 DEF RequestType, Same
  <2>3. QED
    BY <1>5, <1>6, <2>2, ClearedIsTrue DEF Sound, w, Same, Held, Carries, OwnCookie, OwnUser,
       OwnName, Made
<1>10. CASE /\ Live(q.token)
            /\ W = [known EXCEPT !.cookie = [token |-> q.token, expires |-> now + SessionTTL],
                                 !.at = "touch"]
  <2>1. /\ Same(W, q) /\ W.user = u /\ W.at = "touch"
        /\ W.cookie = [token |-> q.token, expires |-> now + SessionTTL]
    BY <1>4, <1>10 DEF RequestType, Same
  <2>2. W.cookie.token = q.token /\ W.cookie # NoCookie
    BY <2>1, FreeIs
  <2>3. w.sessions[q.token].row /\ ~w.sessions[q.token].revoked
    BY <1>10, SceneIs DEF Live, w
  <2>4. /\ Held(W, w) /\ (W.kind \in Carrying => Carries(W, w)) /\ ~Made(W)
        /\ OwnCookie(W) /\ OwnUser(W, w) /\ OwnName(W, w)
    BY <1>2, <1>5, <2>1, <2>2 DEF Same, Held, Carries, OwnCookie, OwnUser, OwnName, Made
  <2>5. QED
    BY <1>2, <2>1, <2>2, <2>3, <2>4 DEF Sound, w, Same
<1>11. QED
  <2>1. CASE ~sessions[q.token].row
    BY <1>7, <2>1 DEF SessionRead, bare
  <2>2. CASE sessions[q.token].row /\ ~Live(q.token)
    BY <1>9, <2>2 DEF SessionRead
  <2>3. CASE sessions[q.token].row /\ Live(q.token) /\ NeedsRefresh(q.token)
    BY <1>10, <2>3 DEF SessionRead, known, u, s
  <2>4. CASE sessions[q.token].row /\ Live(q.token) /\ ~NeedsRefresh(q.token)
    BY <1>8, <2>4 DEF SessionRead, known, u, s
  <2>5. QED
    BY <2>1, <2>2, <2>3, <2>4

LEMMA SameScene ==
  ASSUME UNCHANGED <<now, sessions, users, jar, last, tab>>
  PROVE  Scene' = Scene
BY DEF Scene

LEMMA InStep ==
  ASSUME BasicInv, NEW r \in Requests, NEW q, q = req[r]
  PROVE  q \in RequestType /\ RequestOK(q, World) /\ (q.at # "free" => q.kind # "none")
BY NowIs DEF RequestOK

(* A step of request r that changes neither sessions nor names.              *)
LEMMA StageMoves ==
  ASSUME BasicInv, SceneInv, NEW r \in Requests, req[r].at # "free",
         NEW W, Same(W, req[r]), W.at \notin {"session", "free"}, req' = [req EXCEPT ![r] = W],
         UNCHANGED <<now, sessions, users, jar, last, tab>>,
         \A c \in comments' : c \in comments \/ (c.sure => c.author = c.shown),
         quiet' => quiet /\ Sound(W, Scene)
  PROVE  SceneInv'
<1>1. Scene' = Scene
  BY SameScene
<1>2. \A s \in Tokens : sessions'[s].wallet = sessions[s].wallet
  OBVIOUS
<1>3. \A x \in Wallets : users[x] # NoName => users'[x] # NoName
  OBVIOUS
<1>4. quiet' => Sound(W, Scene')
  BY <1>1
<1>5. QED
  BY <1>2, <1>3, <1>4, SceneMoves

LEMMA HookScene ==
  ASSUME BasicInv, SceneInv, NEW r \in Requests, Hook(r)
  PROVE  SceneInv'
<1>1. PICK q : q = req[r]
  OBVIOUS
<1>2. q \in RequestType /\ RequestOK(q, World) /\ q.kind # "none" /\ q.at = "hook"
  BY <1>1, InStep DEF Hook
<1>3. UNCHANGED <<now, sessions, users, comments, jar, last, tab>>
  BY DEF Hook, Moves, data
<1>4. CASE Works /\ q.token = NoToken /\ Moves(r, HandlerOf(q))
  <2>1. PICK W : W = HandlerOf(q)
    OBVIOUS
  <2>2. req' = [req EXCEPT ![r] = W] /\ UNCHANGED quiet
    BY <1>4, <2>1 DEF Moves, Works
  <2>3. Same(W, q) /\ W.at \notin {"session", "free"}
    BY <1>2, <2>1, HandlerIs, RequestIs DEF Kinds
  <2>4. ASSUME quiet
        PROVE  Sound(W, Scene)
    <3>1. Sound(q, Scene)
      BY <1>1, <1>2, <2>4, AloneIs
    <3>2. TrueIn(AfterIn(q, Scene), Scene)
      BY <1>2, <1>4, <3>1 DEF Sound, Held, AfterIn, TrueIn
    <3>3. Found(q, Scene)
      BY <1>2, <1>4, <3>1, <3>2 DEF Found, Sound, Saved, OwnCookie, OwnUser, OwnName, NoUser
    <3>4. QED
      BY <1>2, <2>1, <3>3, HandlerSound
  <2>5. QED
    BY <1>1, <1>2, <1>3, <2>2, <2>3, <2>4, StageMoves
<1>5. CASE Works /\ q.token # NoToken /\ Moves(r, SessionRead(q))
  <2>1. PICK W : W = SessionRead(q)
    OBVIOUS
  <2>2. UNCHANGED quiet /\ req' = [req EXCEPT ![r] = W]
    BY <1>5, <2>1 DEF Moves, Works
  <2>3. Same(W, q) /\ W.at \notin {"session", "free"}
    BY <1>2, <1>5, <2>1, ReadSession DEF Past
  <2>4. quiet => Sound(W, Scene)
    BY <1>1, <1>2, <1>5, <2>1, AloneIs, ReadSound
  <2>5. QED
    BY <1>1, <1>2, <1>3, <2>2, <2>3, <2>4, StageMoves
<1>6. CASE Fails /\ Moves(r, HandlerOf([q EXCEPT !.cookie = NoCookie]))
  <2>1. PICK b : b = [q EXCEPT !.cookie = NoCookie]
    OBVIOUS
  <2>2. PICK W : W = HandlerOf(b)
    OBVIOUS
  <2>3. b \in RequestType /\ Same(b, q)
    BY <1>2, <2>1, FreeIs, CookieChanges
  <2>4. b.kind # "none" /\ b.kind \in Kinds
    BY <1>2, <2>3, RequestIs DEF Same
  <2>5. Same(W, b) /\ W.at \notin {"session", "free"}
    BY <2>2, <2>3, <2>4, HandlerIs DEF Kinds
  <2>6. Same(W, q)
    BY <2>3, <2>5 DEF Same
  <2>7. req' = [req EXCEPT ![r] = W] /\ ~quiet'
    BY <1>6, <2>1, <2>2 DEF Fails, Moves
  <2>8. QED
    BY <1>1, <1>2, <1>3, <2>5, <2>6, <2>7, StageMoves
<1>7. QED
  BY <1>1, <1>4, <1>5, <1>6 DEF Hook

(* What was sent with the cookie, and what is on the screen, in a scene of    *)
(* later sessions and names.                                                *)
LEMMA HeldOn ==
  ASSUME NEW q, Held(q, Scene), UNCHANGED <<now, jar, tab>>
  PROVE  Held(q, Scene')
BY SceneIs, SceneIsThen DEF Held, Sent

LEMMA CarriesOn ==
  ASSUME BasicInv, NEW q, Carries(q, Scene), UNCHANGED <<jar, last, tab>>,
         \A s \in Tokens : sessions[s].wallet # NoWallet =>
            /\ sessions'[s].wallet = sessions[s].wallet
            /\ users'[sessions[s].wallet] = users[sessions[s].wallet]
  PROVE  Carries(q, Scene')
<1>1. jar.token # NoToken => jar.token \in Tokens /\ sessions[jar.token].wallet # NoWallet
  BY WorldIs DEF BasicInv
<1>2. ASSUME NEW u, Shows(u, jar, Scene)
      PROVE  Shows(u, jar, Scene')
  BY <1>1, <1>2, SceneIs, SceneIsThen DEF Shows
<1>3. Scene'.last = Scene.last /\ Scene'.shown = Scene.shown /\ Scene'.jar = Scene.jar
      /\ Scene.jar = jar
  BY SceneIs, SceneIsThen
<1>4. QED
  BY <1>2, <1>3 DEF Carries

LEMMA PurgeScene ==
  ASSUME BasicInv, SceneInv, NEW r \in Requests, Purge(r)
  PROVE  SceneInv'
<1>1. PICK q : q = req[r]
  OBVIOUS
<1>2. PICK W : W = HandlerOf(q)
  OBVIOUS
<1>3. /\ q \in RequestType /\ RequestOK(q, World) /\ q.kind # "none" /\ q.at = "purge"
      /\ q.token \in Tokens
  BY <1>1, InStep, RequestIs DEF Purge, RequestOK, Tokens0
<1>4. /\ UNCHANGED <<now, users, comments, jar, last, tab>> /\ req' = [req EXCEPT ![r] = W]
      /\ \/ quiet' = quiet /\ sessions' = [sessions EXCEPT ![q.token].row = FALSE]
         \/ quiet' = FALSE /\ UNCHANGED sessions
  BY <1>1, <1>2 DEF Purge, Moves, Works, Fails
<1>5. \A s \in Tokens : sessions'[s].wallet = sessions[s].wallet
  BY <1>4, SessionsAre DEF SessionType
<1>6. Same(W, q) /\ W.at \notin {"session", "free"}
  BY <1>2, <1>3, HandlerIs, RequestIs DEF Kinds
<1>7. ASSUME quiet'
      PROVE  quiet /\ Sound(W, Scene')
  <2>1. quiet /\ Sound(q, Scene)
    BY <1>1, <1>3, <1>4, <1>7, AloneIs
  <2>2. q.cookie = NoCookie /\ q.user = Nobody /\ NoCookie # Keep
    BY <1>3, <2>1, FreeIs DEF Sound, NoCookie, Keep
  <2>3. Held(q, Scene')
    BY <1>4, <2>1, HeldOn DEF Sound
  <2>4. q.kind \in Carrying => Carries(q, Scene')
    BY <1>3, <1>4, <1>5, <2>1, CarriesOn DEF Sound, Saved
  <2>5. Found(q, Scene')
    BY <2>2, <2>3, <2>4, ClearedIsTrue DEF Found, OwnCookie, OwnUser, OwnName, NoUser
  <2>6. QED
    BY <1>2, <1>3, <2>1, <2>5, HandlerSound
<1>8. QED
  BY <1>1, <1>3, <1>4, <1>5, <1>6, <1>7, SceneMoves

LEMMA RefreshScene ==
  ASSUME BasicInv, SceneInv, NEW r \in Requests, Refresh(r)
  PROVE  SceneInv'
<1>1. PICK q : q = req[r]
  OBVIOUS
<1>2. PICK W : W = HandlerOf(q)
  OBVIOUS
<1>3. /\ q \in RequestType /\ RequestOK(q, World) /\ q.kind # "none" /\ q.at = "touch"
      /\ q.token \in Tokens /\ q.token # NoToken
  BY <1>1, InStep, RequestIs DEF Refresh, RequestOK, Tokens0
<1>4. /\ UNCHANGED <<now, users, comments, jar, last, tab>> /\ req' = [req EXCEPT ![r] = W]
      /\ \/ /\ quiet' = quiet
            /\ sessions' = [sessions EXCEPT ![q.token].expires =
                              IF sessions[q.token].row THEN q.cookie.expires ELSE @]
         \/ quiet' = FALSE /\ UNCHANGED sessions
  BY <1>1, <1>2 DEF Refresh, Moves, Works, Fails
<1>5. \A s \in Tokens : /\ sessions'[s].wallet = sessions[s].wallet
                        /\ sessions'[s].row = sessions[s].row
                        /\ sessions'[s].revoked = sessions[s].revoked
  BY <1>4, SessionsAre DEF SessionType
<1>6. Same(W, q) /\ W.at \notin {"session", "free"}
  BY <1>2, <1>3, HandlerIs, RequestIs DEF Kinds
<1>7. ASSUME quiet'
      PROVE  quiet /\ Sound(W, Scene')
  <2>1. quiet /\ Sound(q, Scene)
    BY <1>1, <1>3, <1>4, <1>7, AloneIs
  <2>2. /\ sessions[q.token].row /\ ~sessions[q.token].revoked /\ q.cookie.token = q.token
        /\ q.user # Nobody
    BY <1>3, <2>1, SceneIs DEF Sound
  <2>3. sessions'[q.token].expires = q.cookie.expires
    BY <1>3, <1>4, <1>7, <2>2, SessionsAre DEF SessionType
  <2>4. q.cookie # Keep /\ q.cookie # NoCookie
    BY <1>3, <2>2, FreeIs
  <2>5. TrueIn(AfterIn(q, Scene'), Scene')
    BY <1>3, <1>5, <2>2, <2>3, <2>4, SceneIsThen DEF AfterIn, TrueIn
  <2>6. Held(q, Scene')
    BY <1>4, <2>1, HeldOn DEF Sound
  <2>7. q.kind \in Carrying => Carries(q, Scene')
    BY <1>3, <1>4, <1>5, <2>1, CarriesOn DEF Sound, Saved
  <2>8. OwnCookie(q) /\ NoUser(q)
    BY <1>3, <2>2 DEF OwnCookie, NoUser
  <2>9. OwnUser(q, Scene) /\ OwnName(q, Scene)
    BY <1>3, <2>1 DEF Sound, Made, Saved
  <2>10. OwnUser(q, Scene') /\ OwnName(q, Scene')
    BY <1>3, <1>4, <1>5, <2>9, SceneIs, SceneIsThen DEF OwnUser, OwnName
  <2>11. Found(q, Scene')
    BY <2>5, <2>6, <2>7, <2>8, <2>10 DEF Found
  <2>12. QED
    BY <1>2, <1>3, <2>1, <2>11, HandlerSound
<1>8. QED
  BY <1>1, <1>3, <1>4, <1>5, <1>6, <1>7, SceneMoves

(* A step of a handler that goes on with what was found, or answers.         *)
LEMMA HandlerMovesOn ==
  ASSUME BasicInv, SceneInv, NEW r \in Requests, NEW q, q = req[r],
         q.at \in {"issue", "find", "mark", "user", "new user", "write"},
         NEW W, Same(W, q), W.user = q.user, W.cookie = q.cookie,
         W.at \in {"mark", "user", "new user", "reply"}, ~Made(W), req' = [req EXCEPT ![r] = W],
         UNCHANGED <<now, sessions, users, jar, last, tab>>,
         \A c \in comments' : c \in comments \/ (c.sure => c.author = c.shown),
         quiet' => quiet
  PROVE  SceneInv'
<1>1. RequestOK(q, World) /\ q.at # "free"
  BY InStep
<1>2. q.kind \in Carrying
  BY <1>1 DEF RequestOK, Past, Carrying
<1>3. quiet' => quiet /\ Sound(W, Scene)
  BY <1>1, <1>2, AloneIs, StageSound
<1>4. QED
  BY <1>1, <1>3, StageMoves

\* A step of r is undone by an error: whatever the request, nothing is alone.
LEMMA FailScene ==
  ASSUME BasicInv, SceneInv, NEW r \in Requests, req[r].at # "free",
         req' = [req EXCEPT ![r] = NotOk(req[r])], Fails,
         UNCHANGED <<now, sessions, users, comments, jar, last, tab>>
  PROVE  SceneInv'
<1>1. PICK W : W = NotOk(req[r])
  OBVIOUS
<1>2. Same(W, req[r]) /\ W.at \notin {"session", "free"} /\ ~quiet'
  BY <1>1, NowIs DEF NotOk, Same, RequestType, Fails
<1>3. QED
  BY <1>1, <1>2, StageMoves

LEMMA NotOkIs ==
  ASSUME NEW q \in RequestType, NEW W, W = NotOk(q)
  PROVE  Same(W, q) /\ W.user = q.user /\ W.cookie = q.cookie /\ W.at = "reply" /\ ~Made(W)
BY DEF NotOk, Same, RequestType, Made

LEMMA IssueNonceScene ==
  ASSUME BasicInv, SceneInv, NEW r \in Requests, IssueNonce(r)
  PROVE  SceneInv'
<1>1. PICK q : q = req[r]
  OBVIOUS
<1>2. q \in RequestType /\ RequestOK(q, World) /\ q.at = "issue"
  BY <1>1, InStep DEF IssueNonce
<1>3. UNCHANGED <<now, sessions, users, comments, jar, last, tab>>
  BY DEF IssueNonce, Moves
<1>4. CASE Fails /\ Moves(r, NotOk(q))
  BY <1>1, <1>2, <1>3, <1>4, FailScene DEF Moves
<1>5. ASSUME NEW n \in Nonces, Works, Moves(r, [q EXCEPT !.at = "reply", !.ok = TRUE, !.nonce = n])
      PROVE  SceneInv'
  <2>1. PICK W : W = [q EXCEPT !.at = "reply", !.ok = TRUE, !.nonce = n]
    OBVIOUS
  <2>2. Same(W, q) /\ W.user = q.user /\ W.cookie = q.cookie /\ W.at = "reply"
    BY <1>2, <2>1 DEF RequestType, Same
  <2>3. ~Made(W)
    BY <1>2, <2>2 DEF Made, RequestOK, Same
  <2>4. req' = [req EXCEPT ![r] = W] /\ quiet' = quiet
    BY <1>5, <2>1 DEF Moves, Works
  <2>5. QED
    BY <1>1, <1>2, <1>3, <2>2, <2>3, <2>4, HandlerMovesOn
<1>6. QED
  BY <1>1, <1>4, <1>5 DEF IssueNonce, Unissued

LEMMA VerifyScene ==
  ASSUME BasicInv, SceneInv, NEW r \in Requests, FindValidNonce(r) \/ MarkNonceConsumed(r)
  PROVE  SceneInv'
<1>1. PICK q : q = req[r]
  OBVIOUS
<1>2. q \in RequestType /\ q.at \in {"find", "mark"}
  BY <1>1, InStep DEF FindValidNonce, MarkNonceConsumed
<1>3. UNCHANGED <<now, sessions, users, comments, jar, last, tab>>
  BY DEF FindValidNonce, MarkNonceConsumed, Moves, data
<1>4. PICK W : /\ req' = [req EXCEPT ![r] = W] /\ (quiet' => quiet)
               /\ W = [q EXCEPT !.at = "mark"] \/ W = [q EXCEPT !.at = "user"] \/ W = NotOk(q)
  BY <1>1 DEF FindValidNonce, MarkNonceConsumed, Moves, Works, Fails
<1>5. /\ Same(W, q) /\ W.user = q.user /\ W.cookie = q.cookie
      /\ W.at \in {"mark", "user", "reply"} /\ ~Made(W)
  <2>1. CASE W = NotOk(q)
    BY <1>2, <2>1, NotOkIs
  <2>2. CASE W = [q EXCEPT !.at = "mark"]
    BY <1>2, <2>2 DEF RequestType, Same, Made
  <2>3. CASE W = [q EXCEPT !.at = "user"]
    BY <1>2, <2>3 DEF RequestType, Same, Made
  <2>4. QED
    BY <1>4, <2>1, <2>2, <2>3
<1>6. QED
  BY <1>1, <1>2, <1>3, <1>4, <1>5, HandlerMovesOn

LEMMA WriteCommentScene ==
  ASSUME BasicInv, SceneInv, NEW r \in Requests, WriteComment(r)
  PROVE  SceneInv'
<1>1. PICK q : q = req[r]
  OBVIOUS
<1>2. /\ q \in RequestType /\ RequestOK(q, World) /\ q.at = "write" /\ q.kind = "comment"
      /\ UNCHANGED <<now, sessions, users, jar, last, tab>>
  BY <1>1, InStep DEF WriteComment, Moves
<1>3. CASE Fails /\ Moves(r, NotOk(q)) /\ UNCHANGED comments
  BY <1>1, <1>2, <1>3, FailScene DEF Moves
<1>4. CASE /\ Works
           /\ comments' = comments \union
                {[author |-> q.user.wallet, shown |-> tab[q.tab].user.wallet,
                  sure |-> quiet /\ last = q.tab]}
           /\ Moves(r, [q EXCEPT !.at = "reply", !.ok = TRUE])
  <2>1. PICK W : W = [q EXCEPT !.at = "reply", !.ok = TRUE]
    OBVIOUS
  <2>2. /\ Same(W, q) /\ W.user = q.user /\ W.cookie = q.cookie /\ W.at = "reply" /\ ~Made(W)
    BY <1>2, <2>1 DEF RequestType, Same, Made
  <2>3. ASSUME quiet, last = q.tab
        PROVE  q.user.wallet = tab[q.tab].user.wallet
    <3>1. Sound(q, Scene)
      BY <1>1, <1>2, <2>3, AloneIs
    <3>2. q.tab \in Tabs /\ tab[q.tab].user # Nobody /\ Scene.shown[last] = tab[q.tab].user
      BY <1>2, <2>3, <3>1, RequestIs, SceneIs DEF Sound, Held, Tabs0
    <3>3. Shows(tab[q.tab].user, jar, Scene)
      BY <1>2, <2>3, <3>1, <3>2, SceneIs, Constants DEF Sound, Carries, Saved, Carrying
    <3>4. q.user # Nobody /\ OwnUser(q, Scene) /\ Held(q, Scene)
      BY <1>2, <3>1 DEF Sound, RequestOK, Made
    <3>5. QED
      BY <3>3, <3>4, SceneIs DEF Shows, OwnUser, Held
  <2>4. \A c \in comments' : c \in comments \/ (c.sure => c.author = c.shown)
    <3>1. PICK b : b = (quiet /\ last = q.tab)
      OBVIOUS
    <3>2. PICK c : c = [author |-> q.user.wallet, shown |-> tab[q.tab].user.wallet, sure |-> b]
      OBVIOUS
    <3>3. comments' = comments \union {c}
      BY <1>4, <3>1, <3>2
    <3>4. c.sure => c.author = c.shown
      BY <2>3, <3>1, <3>2
    <3>5. QED
      BY <3>3, <3>4
  <2>5. req' = [req EXCEPT ![r] = W] /\ quiet' = quiet
    BY <1>4, <2>1 DEF Moves, Works
  <2>6. QED
    BY <1>1, <1>2, <2>2, <2>4, <2>5, HandlerMovesOn
<1>5. QED
  BY <1>1, <1>3, <1>4 DEF WriteComment

LEMMA TrueOn ==
  ASSUME NEW q, TrueIn(AfterIn(q, Scene), Scene), UNCHANGED <<now, sessions, jar>>
  PROVE  TrueIn(AfterIn(q, Scene'), Scene')
BY SceneIs, SceneIsThen DEF TrueIn, AfterIn, Sent

LEMMA WriteProfileScene ==
  ASSUME BasicInv, SceneInv, NEW r \in Requests, WriteProfile(r)
  PROVE  SceneInv'
<1>1. PICK q : q = req[r]
  OBVIOUS
<1>2. /\ q \in RequestType /\ RequestOK(q, World) /\ q.at = "write" /\ q.kind = "save"
      /\ UNCHANGED <<now, sessions, comments, jar, last, tab>>
  BY <1>1, InStep DEF WriteProfile, Moves
<1>3. CASE Fails /\ Moves(r, NotOk(q)) /\ UNCHANGED users
  BY <1>1, <1>2, <1>3, FailScene DEF Moves
<1>4. CASE /\ Works /\ users' = [users EXCEPT ![q.user.wallet] = q.name]
           /\ Moves(r, [q EXCEPT !.at = "reply", !.ok = TRUE])
  <2>1. PICK W : W = [q EXCEPT !.at = "reply", !.ok = TRUE]
    OBVIOUS
  <2>2. /\ Same(W, q) /\ W.user = q.user /\ W.cookie = q.cookie /\ W.at = "reply"
        /\ ~Made(W) /\ Saved(W)
    BY <1>2, <2>1 DEF RequestType, Same, Made, Saved
  <2>3. req' = [req EXCEPT ![r] = W] /\ quiet' = quiet
    BY <1>4, <2>1 DEF Moves, Works
  <2>4. q.name # NoName
    BY <1>1, <1>2, SessionsAssumption DEF SceneInv, NamesInv, Named
  <2>5. \A x \in Wallets : users[x] # NoName => users'[x] # NoName
    BY <1>4, <2>4, NoncesAre
  <2>6. ASSUME quiet
        PROVE  Sound(W, Scene')
    <3>1. Sound(q, Scene)
      BY <1>1, <1>2, <2>6, AloneIs
    <3>2. Held(q, Scene') /\ TrueIn(AfterIn(q, Scene'), Scene')
      BY <1>2, <3>1, HeldOn, TrueOn DEF Sound
    <3>3. OwnCookie(q) /\ OwnUser(q, Scene)
      BY <1>2, <3>1 DEF Sound, Made
    <3>4. OwnUser(q, Scene')
      BY <1>2, <3>3, SceneIs, SceneIsThen DEF OwnUser
    <3>5. /\ Held(W, Scene') /\ TrueIn(AfterIn(W, Scene'), Scene') /\ OwnCookie(W)
          /\ OwnUser(W, Scene')
      BY <2>2, <3>2, <3>3, <3>4 DEF Held, AfterIn, OwnCookie, OwnUser, Same
    <3>6. QED
      BY <1>2, <2>2, <3>5 DEF Sound, Same
  <2>7. QED
    BY <1>1, <1>2, <2>2, <2>3, <2>5, <2>6, SceneMoves
<1>5. QED
  BY <1>1, <1>3, <1>4 DEF WriteProfile

\* The user was found or created: the session is next.
LEMMA SessionSound ==
  ASSUME NEW w, NEW q, NEW W, Held(q, w), TrueIn(AfterIn(q, w), w), OwnCookie(q),
         Carries(q, w), q.kind = "verify", Same(W, q), W.cookie = q.cookie, W.at = "session",
         OwnName(W, w)
  PROVE  Sound(W, w)
<1>1. Held(W, w) /\ TrueIn(AfterIn(W, w), w) /\ OwnCookie(W) /\ Carries(W, w)
  BY DEF Held, AfterIn, OwnCookie, Carries, Same
<1>2. QED
  BY <1>1 DEF Sound, Same, Made

LEMMA FindUserScene ==
  ASSUME BasicInv, SceneInv, NEW r \in Requests, FindUser(r)
  PROVE  SceneInv'
<1>1. PICK q : q = req[r]
  OBVIOUS
<1>2. /\ q \in RequestType /\ RequestOK(q, World) /\ q.at = "user" /\ quiet' = quiet
      /\ UNCHANGED <<now, sessions, users, comments, jar, last, tab>>
  BY <1>1, InStep DEF FindUser, Moves, data, Works
<1>3. CASE users[q.wallet] = NoName /\ req' = [req EXCEPT ![r] = [q EXCEPT !.at = "new user"]]
  <2>1. PICK W : W = [q EXCEPT !.at = "new user"]
    OBVIOUS
  <2>2. /\ Same(W, q) /\ W.user = q.user /\ W.cookie = q.cookie /\ W.at = "new user" /\ ~Made(W)
    BY <1>2, <2>1 DEF RequestType, Same, Made
  <2>3. QED
    BY <1>1, <1>2, <1>3, <2>1, <2>2, HandlerMovesOn
<1>4. CASE /\ users[q.wallet] # NoName
           /\ req' = [req EXCEPT ![r] = [q EXCEPT !.at = "session",
                        !.user = [wallet |-> q.wallet, name |-> users[q.wallet]]]]
  <2>1. PICK W : W = [q EXCEPT !.at = "session",
                               !.user = [wallet |-> q.wallet, name |-> users[q.wallet]]]
    OBVIOUS
  <2>2. /\ Same(W, q) /\ W.cookie = q.cookie /\ W.at = "session"
        /\ W.user.wallet = q.wallet /\ W.user.name = users[q.wallet]
    BY <1>2, <2>1 DEF RequestType, Same
  <2>3. q.kind = "verify" /\ req' = [req EXCEPT ![r] = W]
    BY <1>2, <1>4, <2>1 DEF RequestOK, Past
  <2>4. Named(W, users')
    BY <1>2, <1>4, <2>2, <2>3 DEF Named, Same
  <2>5. ASSUME quiet
        PROVE  Sound(W, Scene')
    <3>1. Sound(q, Scene) /\ Scene' = Scene
      BY <1>1, <1>2, <2>5, AloneIs, SameScene
    <3>2. OwnName(W, Scene)
      BY <2>2, SceneIs DEF OwnName
    <3>3. Held(q, Scene) /\ TrueIn(AfterIn(q, Scene), Scene) /\ OwnCookie(q) /\ Carries(q, Scene)
      BY <1>2, <2>3, <3>1 DEF Sound, Made, Saved, Carrying
    <3>4. QED
      BY <2>2, <2>3, <3>1, <3>2, <3>3, SessionSound
  <2>6. AloneInv'
    BY <1>1, <1>2, <2>2, <2>3, <2>5, AloneMoves DEF SceneInv
  <2>7. NamesInv'
    BY <1>2, <2>3, <2>4, NamesMove DEF SceneInv, NamesInv
  <2>8. QED
    BY <2>6, <2>7 DEF SceneInv
<1>5. QED
  BY <1>1, <1>3, <1>4 DEF FindUser, Moves

LEMMA CreateUserScene ==
  ASSUME BasicInv, SceneInv, NEW r \in Requests, CreateUser(r)
  PROVE  SceneInv'
<1>1. PICK q : q = req[r]
  OBVIOUS
<1>2. /\ q \in RequestType /\ RequestOK(q, World) /\ q.at = "new user"
      /\ UNCHANGED <<now, sessions, comments, jar, last, tab>>
  BY <1>1, InStep DEF CreateUser, Moves
<1>3. q.kind = "verify" /\ q.wallet \in Wallets
  BY <1>2, RequestIs DEF RequestOK, Past, Wallets0
<1>4. CASE UNCHANGED users /\ (Works \/ Fails) /\ Moves(r, NotOk(q))
  <2>1. PICK W : W = NotOk(q)
    OBVIOUS
  <2>2. Same(W, q) /\ W.user = q.user /\ W.cookie = q.cookie /\ W.at = "reply" /\ ~Made(W)
    BY <1>2, <2>1, NotOkIs
  <2>3. req' = [req EXCEPT ![r] = W] /\ (quiet' => quiet) /\ UNCHANGED users
    BY <1>4, <2>1 DEF Works, Fails, Moves
  <2>4. QED
    BY <1>1, <1>2, <2>2, <2>3, HandlerMovesOn
<1>5. CASE /\ users[q.wallet] = NoName /\ Works
           /\ users' = [users EXCEPT ![q.wallet] = DefaultName]
           /\ Moves(r, [q EXCEPT !.at = "session",
                                 !.user = [wallet |-> q.wallet, name |-> DefaultName]])
  <2>1. PICK W : W = [q EXCEPT !.at = "session",
                               !.user = [wallet |-> q.wallet, name |-> DefaultName]]
    OBVIOUS
  <2>2. /\ Same(W, q) /\ W.cookie = q.cookie /\ W.at = "session"
        /\ W.user.wallet = q.wallet /\ W.user.name = DefaultName
    BY <1>2, <2>1 DEF RequestType, Same
  <2>3. req' = [req EXCEPT ![r] = W] /\ quiet' = quiet
    BY <1>5, <2>1 DEF Moves, Works
  <2>4. /\ DefaultName # NoName
        /\ \A x \in Wallets : users'[x] = IF x = q.wallet THEN DefaultName ELSE users[x]
    BY <1>3, <1>5, NoncesAre, SessionsAssumption
  <2>5. Named(W, users')
    BY <1>3, <2>2, <2>4 DEF Named, Same
  <2>6. \A x \in Wallets : users[x] # NoName => users'[x] # NoName
    BY <2>4
  <2>7. \A s \in Tokens : sessions[s].wallet # NoWallet =>
           /\ sessions'[s].wallet = sessions[s].wallet
           /\ users'[sessions[s].wallet] = users[sessions[s].wallet]
    <3>1. \A s \in Tokens : sessions[s].wallet # NoWallet =>
             sessions[s].wallet \in Wallets /\ users[sessions[s].wallet] # NoName
      BY DEF SceneInv, NamesInv, BasicInv, TypeOK, SessionType, Wallets0
    <3>2. QED
      BY <1>2, <1>5, <2>4, <3>1
  <2>8. ASSUME quiet
        PROVE  Sound(W, Scene')
    <3>1. Sound(q, Scene)
      BY <1>1, <1>2, <2>8, AloneIs
    <3>2. Held(q, Scene') /\ TrueIn(AfterIn(q, Scene'), Scene') /\ OwnCookie(q)
      BY <1>2, <3>1, HeldOn, TrueOn DEF Sound, Made
    <3>3. Carries(q, Scene)
      BY <1>2, <1>3, <3>1 DEF Sound, Saved, Carrying
    <3>4. Carries(q, Scene')
      BY <1>2, <2>7, <3>3, CarriesOn
    <3>5. OwnName(W, Scene')
      BY <1>3, <2>2, <2>4, SceneIsThen DEF OwnName
    <3>6. QED
      BY <1>3, <2>2, <3>2, <3>4, <3>5, SessionSound
  <2>9. AloneInv'
    BY <1>1, <1>2, <2>2, <2>3, <2>8, AloneMoves DEF SceneInv
  <2>10. NamesInv'
    BY <1>2, <2>3, <2>5, <2>6, NamesMove DEF SceneInv, NamesInv
  <2>11. QED
    BY <2>9, <2>10 DEF SceneInv
<1>6. QED
  BY <1>1, <1>4, <1>5 DEF CreateUser

LEMMA CreateSessionScene ==
  ASSUME BasicInv, SceneInv, NEW r \in Requests, CreateSession(r)
  PROVE  SceneInv'
<1>1. PICK q : q = req[r]
  OBVIOUS
<1>2. /\ q \in RequestType /\ RequestOK(q, World) /\ q.at = "session"
      /\ UNCHANGED <<now, users, comments, jar, last, tab>>
  BY <1>1, InStep DEF CreateSession, Moves
<1>3. q.kind = "verify" /\ q.user # Nobody /\ q.user.wallet \in Wallets
  BY <1>2, RequestIs DEF RequestOK, Past, Wallets0, Profiles
<1>4. CASE Fails /\ Moves(r, NotOk(q)) /\ UNCHANGED sessions
  BY <1>1, <1>2, <1>4, FailScene DEF Moves
<1>5. ASSUME NEW x \in Unminted, Works,
             sessions' = [sessions EXCEPT ![x] =
                  [wallet |-> q.user.wallet, nonce |-> q.nonce, expires |-> now + SessionTTL,
                   revoked |-> FALSE, row |-> TRUE]],
             Moves(r, [q EXCEPT !.at = "reply", !.ok = TRUE,
                                !.cookie = [token |-> x, expires |-> now + SessionTTL]])
      PROVE  SceneInv'
  <2>1. PICK k : k = [token |-> x, expires |-> now + SessionTTL]
    OBVIOUS
  <2>2. PICK W : W = [q EXCEPT !.at = "reply", !.ok = TRUE, !.cookie = k]
    OBVIOUS
  <2>3. PICK n : n = [wallet |-> q.user.wallet, nonce |-> q.nonce, expires |-> now + SessionTTL,
                      revoked |-> FALSE, row |-> TRUE]
    OBVIOUS
  <2>4. /\ Same(W, q) /\ W.user = q.user /\ W.cookie = k /\ W.at = "reply" /\ W.ok
    BY <1>2, <2>2 DEF RequestType, Same
  <2>5. req' = [req EXCEPT ![r] = W] /\ quiet' = quiet /\ sessions' = [sessions EXCEPT ![x] = n]
    BY <1>5, <2>1, <2>2, <2>3 DEF Moves, Works
  <2>6. /\ x \in Tokens /\ sessions[x].wallet = NoWallet
        /\ \A s \in Tokens : sessions'[s] = IF s = x THEN n ELSE sessions[s]
    BY <2>5, SessionsAre DEF Unminted
  <2>7. k.token = x /\ k # Keep /\ k # NoCookie /\ k.expires = now + SessionTTL
    BY <2>1, <2>6, FreeIs, Constants
  <2>8. users[q.user.wallet] # NoName
    BY <1>1, <1>2 DEF SceneInv, NamesInv, Named
  <2>9. \A s \in Tokens : \/ sessions'[s].wallet = sessions[s].wallet
                          \/ users'[sessions'[s].wallet] # NoName
    BY <1>2, <2>3, <2>6, <2>8
  <2>10. ASSUME quiet
         PROVE  Sound(W, Scene')
    <3>1. Sound(q, Scene)
      BY <1>1, <1>2, <2>10, AloneIs
    <3>2. Held(W, Scene')
      <4>1. Held(q, Scene')
        BY <1>2, <3>1, HeldOn DEF Sound
      <4>2. QED
        BY <2>4, <4>1 DEF Held, Same
    <3>3. Carries(W, Scene')
      <4>1. \A s \in Tokens : sessions[s].wallet # NoWallet =>
              /\ sessions'[s].wallet = sessions[s].wallet
              /\ users'[sessions[s].wallet] = users[sessions[s].wallet]
        BY <1>2, <2>6
      <4>2. Carries(q, Scene)
        BY <1>2, <1>3, <3>1 DEF Sound, Saved, Carrying
      <4>3. Carries(q, Scene')
        BY <1>2, <4>1, <4>2, CarriesOn
      <4>4. QED
        BY <2>4, <4>3 DEF Carries, Same
    <3>4. TrueIn(AfterIn(W, Scene'), Scene')
      BY <2>3, <2>4, <2>6, <2>7, SceneIsThen DEF TrueIn, AfterIn
    <3>5. OwnName(q, Scene)
      BY <1>2, <3>1 DEF Sound
    <3>6. Shows(W.user, W.cookie, Scene')
      BY <1>2, <1>3, <2>3, <2>4, <2>6, <2>7, <3>5, SceneIs, SceneIsThen, Constants
         DEF Shows, OwnName
    <3>7. Made(W) /\ W.kind = "verify" /\ W.user # Nobody
      BY <1>3, <2>4 DEF Made, Same
    <3>8. QED
      BY <2>4, <2>7, <3>2, <3>3, <3>4, <3>6, <3>7 DEF Sound
  <2>11. QED
    BY <1>1, <1>2, <2>4, <2>5, <2>9, <2>10, SceneMoves
<1>6. QED
  BY <1>1, <1>4, <1>5 DEF CreateSession

LEMMA RevokeScene ==
  ASSUME BasicInv, SceneInv, NEW r \in Requests, RevokeSession(r)
  PROVE  SceneInv'
<1>1. PICK q : q = req[r]
  OBVIOUS
<1>2. PICK W : W = LoggedOut(q)
  OBVIOUS
<1>3. /\ q \in RequestType /\ q.at = "revoke" /\ req' = [req EXCEPT ![r] = W]
      /\ UNCHANGED <<now, users, comments, jar, last, tab>>
      /\ \/ /\ quiet' = quiet
            /\ sessions' = [s \in Tokens |->
                 [sessions[s] EXCEPT !.revoked = @ \/ s \in Revoked(q.token)]]
         \/ quiet' = FALSE /\ UNCHANGED sessions
  BY <1>1, <1>2, InStep DEF RevokeSession, Moves, Works, Fails
<1>4. Same(W, q) /\ W.cookie = NoCookie /\ W.at = "reply"
  BY <1>2, <1>3 DEF LoggedOut, RequestType, Same
<1>5. \A s \in Tokens : sessions'[s].wallet = sessions[s].wallet
  BY <1>3, SessionsAre DEF SessionType
<1>6. ASSUME quiet
      PROVE  Sound(W, Scene')
  <2>1. Sound(q, Scene)
    BY <1>1, <1>3, <1>6, AloneIs
  <2>2. Held(q, Scene') /\ q.kind = "logout"
    BY <1>3, <2>1, HeldOn DEF Sound
  <2>3. Held(W, Scene') /\ W.kind = "logout"
    BY <1>4, <2>2 DEF Held, Same
  <2>4. NoCookie # Keep
    BY FreeIs DEF NoCookie, Keep
  <2>5. QED
    BY <1>4, <2>3, <2>4, ClearedIsTrue DEF Sound, OwnCookie, Made, Carrying
<1>7. Same(W, req[r]) /\ req[r].at # "free" /\ W.at \notin {"session", "free"}
  BY <1>1, <1>3, <1>4
<1>8. /\ \A x \in Wallets : users[x] # NoName => users'[x] # NoName
      /\ \A c \in comments' : c \in comments \/ (c.sure => c.author = c.shown)
  BY <1>3
<1>9. (quiet' => quiet) /\ UNCHANGED last /\ req' = [req EXCEPT ![r] = W]
  BY <1>3
<1>10. quiet' => Sound(W, Scene')
  BY <1>6, <1>9
<1>11. QED
  BY <1>5, <1>7, <1>8, <1>9, <1>10, SceneMoves

-----------------------------------------------------------------------------
(* What the browser sends.                                                  *)

LEMMA SentIs ==
  ASSUME BasicInv
  PROVE  Sent(Scene.jar, Scene) = SentCookie /\ SentCookie \in {jar.token, NoToken}
BY SceneIs DEF Sent, SentCookie

LEMMA SendsScene ==
  ASSUME BasicInv, SceneInv, NEW W, Sends(W), W.at = "hook", W.tab \in Tabs,
         W.token = SentCookie, W.user = Nobody, W.cookie = Keep,
         W.kind = "save" => W.name \in Names,
         W.kind \in {"comment", "save"} => tab[W.tab].user # Nobody,
         \A t \in Tabs : tab'[t].user = tab[t].user
  PROVE  SceneInv'
<1>1. PICK r \in Requests : r \notin InFlight /\ req' = [req EXCEPT ![r] = W]
  BY DEF Sends
<1>2. /\ UNCHANGED <<now, sessions, users, comments, jar, last>>
      /\ quiet' = (InFlight = {})
  BY DEF Sends, data
<1>3. Scene' = Scene
  BY <1>2 DEF Scene
<1>4. \A d \in Requests : req'[d] = IF d = r THEN W ELSE req[d]
  BY <1>1, NowIs
<1>5. NamesInv'
  <2>1. Named(W, users')
    BY DEF Named
  <2>2. last' \in Tabs \union {NoTab} /\ NamesInv
    BY <1>2 DEF SceneInv, NamesInv
  <2>3. /\ \A x \in Wallets : users[x] # NoName => users'[x] # NoName
        /\ \A s \in Tokens : sessions'[s].wallet = sessions[s].wallet
        /\ \A c \in comments' : c \in comments
    BY <1>2
  <2>4. QED
    BY <1>1, <2>1, <2>2, <2>3, NamesMove
<1>6. ASSUME quiet'
      PROVE  InFlight' = {r} /\ Sound(W, Scene')
  <2>1. InFlight = {} /\ Agree(Scene)
    BY <1>2, <1>6 DEF SceneInv, AloneInv
  <2>2. InFlight' = {r}
    BY <1>4, <2>1 DEF InFlight
  <2>3. Held(W, Scene)
    <3>1. W.tab # NoTab
      BY Constants
    <3>2. W.kind \in {"comment", "save"} => Scene.shown[W.tab] # Nobody
      BY SceneIs
    <3>3. QED
      BY <3>1, <3>2, SentIs, SceneIs DEF Held
  <2>4. Carries(W, Scene)
    BY <2>1, SentIs DEF Agree, Carries
  <2>5. Sound(W, Scene)
    BY <2>3, <2>4 DEF Sound, Made, OwnCookie, OwnUser, OwnName
  <2>6. QED
    BY <1>3, <2>2, <2>5
<1>7. r \in InFlight' /\ req'[r] = W
  BY <1>4 DEF InFlight
<1>8. QED
  BY <1>5, <1>6, <1>7 DEF SceneInv, AloneInv

(* A tab that sends a request keeps what it shows.                           *)
LEMMA RequestTo ==
  ASSUME BasicInv, NEW t \in Tabs, NEW k \in Kinds, NEW q, q = Request(t, k)
  PROVE  /\ q \in RequestType /\ q.kind = k /\ q.tab = t /\ q.token = SentCookie
         /\ q.at = "hook" /\ q.user = Nobody /\ q.cookie = Keep
<1>1. t \in Tabs0 /\ SentCookie \in Tokens0
  BY SentCookieIs DEF Tabs0
<1>2. q = [Free EXCEPT !.kind = k, !.tab = t, !.token = SentCookie, !.at = "hook"]
  BY DEF Request
<1>3. q.user = Free.user /\ q.cookie = Free.cookie
  BY <1>2, FreeIs DEF RequestType
<1>4. q \in RequestType
  <2>1. PICK c \in Tokens0 : c = SentCookie
    BY <1>1
  <2>2. PICK f : f = [Free EXCEPT !.kind = k, !.tab = t]
    OBVIOUS
  <2>3. f \in RequestType
    BY <1>1, <2>2, FreeIs DEF RequestType
  <2>4. q = [f EXCEPT !.token = c, !.at = "hook"]
    BY <1>2, <2>1, <2>2
  <2>5. "hook" \in Stages
    BY DEF Stages
  <2>6. QED
    BY <2>3, <2>4, <2>5 DEF RequestType
<1>5. q.kind = k /\ q.tab = t /\ q.token = SentCookie /\ q.at = "hook"
  BY <1>2, FreeIs DEF RequestType
<1>6. QED
  BY <1>3, <1>4, <1>5, FreeIs

LEMMA ShowsStill ==
  ASSUME BasicInv, NEW t \in Tabs, NEW V, V.user = tab[t].user, tab' = [tab EXCEPT ![t] = V]
  PROVE  \A x \in Tabs : tab'[x].user = tab[x].user
BY TabsAre

LEMMA UserScene ==
  ASSUME BasicInv, SceneInv, NEW t \in Tabs, User(t)
  PROVE  SceneInv'
<1>1. CASE LoadMe(t)
  <2>1. PICK q : q = Request(t, "me")
    OBVIOUS
  <2>2. PICK V : V = [tab[t] EXCEPT !.status = "loading"]
    OBVIOUS
  <2>3. V.user = tab[t].user
    BY <2>2, TabsAre DEF TabType
  <2>4. tab' = [tab EXCEPT ![t] = V] /\ Sends(q)
    BY <1>1, <2>1, <2>2 DEF LoadMe
  <2>5. \A x \in Tabs : tab'[x].user = tab[x].user
    BY <2>3, <2>4, ShowsStill
  <2>6. /\ q.kind = "me" /\ q.tab = t /\ q.token = SentCookie
        /\ q.at = "hook" /\ q.user = Nobody /\ q.cookie = Keep
    BY <2>1, RequestTo, KindNames
  <2>7. QED
    BY <2>4, <2>5, <2>6, SendsScene
<1>2. CASE SignOut(t)
  <2>1. PICK q : q = Request(t, "logout")
    OBVIOUS
  <2>2. Sends(q) /\ tab' = tab
    BY <1>2, <2>1 DEF SignOut
  <2>3. /\ q.kind = "logout" /\ q.tab = t /\ q.token = SentCookie
        /\ q.at = "hook" /\ q.user = Nobody /\ q.cookie = Keep
    BY <2>1, RequestTo, KindNames
  <2>4. QED
    BY <2>2, <2>3, SendsScene
<1>3. CASE PostComment(t)
  <2>1. PICK q : q = Request(t, "comment")
    OBVIOUS
  <2>2. PICK V : V = [tab[t] EXCEPT !.busy = @ \union {"comment"}]
    OBVIOUS
  <2>3. V.user = tab[t].user
    BY <2>2, TabsAre DEF TabType
  <2>4. tab' = [tab EXCEPT ![t] = V] /\ Sends(q) /\ tab[t].user # Nobody
    BY <1>3, <2>1, <2>2 DEF PostComment, MayComment
  <2>5. \A x \in Tabs : tab'[x].user = tab[x].user
    BY <2>3, <2>4, ShowsStill
  <2>6. /\ q.kind = "comment" /\ q.tab = t /\ q.token = SentCookie
        /\ q.at = "hook" /\ q.user = Nobody /\ q.cookie = Keep
    BY <2>1, RequestTo, KindNames
  <2>7. QED
    BY <2>4, <2>5, <2>6, SendsScene
<1>4. ASSUME NEW name \in Names, SaveProfile(t, name)
      PROVE  SceneInv'
  <2>1. PICK b : b = Request(t, "save")
    OBVIOUS
  <2>2. PICK q : q = [b EXCEPT !.name = name]
    OBVIOUS
  <2>3. PICK V : V = [tab[t] EXCEPT !.busy = @ \union {"save"}]
    OBVIOUS
  <2>4. V.user = tab[t].user
    BY <2>3, TabsAre DEF TabType
  <2>5. tab' = [tab EXCEPT ![t] = V] /\ Sends(q) /\ tab[t].user # Nobody
    BY <1>4, <2>1, <2>2, <2>3 DEF SaveProfile
  <2>6. \A x \in Tabs : tab'[x].user = tab[x].user
    BY <2>4, <2>5, ShowsStill
  <2>7. /\ b \in RequestType /\ b.kind = "save" /\ b.tab = t /\ b.token = SentCookie
        /\ b.at = "hook" /\ b.user = Nobody /\ b.cookie = Keep
    BY <2>1, RequestTo, KindNames
  <2>8. /\ q.kind = "save" /\ q.tab = t /\ q.token = SentCookie /\ q.name = name
        /\ q.at = "hook" /\ q.user = Nobody /\ q.cookie = Keep
    BY <2>2, <2>7 DEF RequestType
  <2>9. QED
    BY <1>4, <2>5, <2>6, <2>8, SendsScene
<1>5. ASSUME NEW x \in Wallets, SignIn(t, x)
      PROVE  SceneInv'
  <2>1. PICK b : b = Request(t, "nonce")
    OBVIOUS
  <2>2. PICK q : q = [b EXCEPT !.wallet = x]
    OBVIOUS
  <2>3. PICK V : V = [tab[t] EXCEPT !.signing = "nonce", !.account = x]
    OBVIOUS
  <2>4. V.user = tab[t].user
    BY <2>3, TabsAre DEF TabType
  <2>5. tab' = [tab EXCEPT ![t] = V]
    BY <1>5, <2>3, TabsAre DEF SignIn, TabType
  <2>6. Sends(q)
    BY <1>5, <2>1, <2>2 DEF SignIn
  <2>7. \A y \in Tabs : tab'[y].user = tab[y].user
    BY <2>4, <2>5, ShowsStill
  <2>8. /\ b \in RequestType /\ b.kind = "nonce" /\ b.tab = t /\ b.token = SentCookie
        /\ b.at = "hook" /\ b.user = Nobody /\ b.cookie = Keep
    BY <2>1, RequestTo, KindNames
  <2>9. /\ q.kind = "nonce" /\ q.tab = t /\ q.token = SentCookie
        /\ q.at = "hook" /\ q.user = Nobody /\ q.cookie = Keep
    BY <2>2, <2>8 DEF RequestType
  <2>10. QED
    BY <2>6, <2>7, <2>9, SendsScene
<1>6. ASSUME NEW x \in Wallets, SignMessage(t, x)
      PROVE  SceneInv'
  <2>1. PICK b : b = Request(t, "verify")
    OBVIOUS
  <2>2. PICK q : q = [b EXCEPT !.wallet = tab[t].account, !.signer = x, !.nonce = tab[t].nonce]
    OBVIOUS
  <2>3. PICK V : V = [tab[t] EXCEPT !.signing = "verify"]
    OBVIOUS
  <2>4. V.user = tab[t].user
    BY <2>3, TabsAre DEF TabType
  <2>5. tab' = [tab EXCEPT ![t] = V] /\ Sends(q)
    BY <1>6, <2>1, <2>2, <2>3 DEF SignMessage
  <2>6. \A y \in Tabs : tab'[y].user = tab[y].user
    BY <2>4, <2>5, ShowsStill
  <2>7. /\ b \in RequestType /\ b.kind = "verify" /\ b.tab = t /\ b.token = SentCookie
        /\ b.at = "hook" /\ b.user = Nobody /\ b.cookie = Keep
    BY <2>1, RequestTo, KindNames
  <2>8. /\ q.kind = "verify" /\ q.tab = t /\ q.token = SentCookie
        /\ q.at = "hook" /\ q.user = Nobody /\ q.cookie = Keep
    BY <2>2, <2>7 DEF RequestType
  <2>9. QED
    BY <2>5, <2>6, <2>8, SendsScene
<1>7. CASE RejectSignature(t)
  <2>1. PICK V : V = [tab[t] EXCEPT !.signing = "no"]
    OBVIOUS
  <2>2. V.user = tab[t].user
    BY <2>1, TabsAre DEF TabType
  <2>3. tab' = [tab EXCEPT ![t] = V] /\ UNCHANGED <<now, data, jar, req, left, past>>
    BY <1>7, <2>1 DEF RejectSignature
  <2>4. \A x \in Tabs : tab'[x].user = tab[x].user
    BY <2>2, <2>3, ShowsStill
  <2>5. Scene' = Scene
    BY <2>3, <2>4 DEF Scene, data, past
  <2>6. UNCHANGED <<req, quiet, sessions, users, last, comments>>
    BY <2>3 DEF data, past
  <2>7. InFlight' = InFlight
    BY <2>6 DEF InFlight
  <2>8. NamesInv'
    BY <2>6 DEF SceneInv, NamesInv
  <2>9. AloneInv'
    BY <2>5, <2>6, <2>7 DEF SceneInv, AloneInv
  <2>10. QED
    BY <2>8, <2>9 DEF SceneInv
<1>8. CASE VerifyAgain(t)
  <2>1. PICK W : W = [Free EXCEPT !.kind = "verify", !.wallet = tab[t].account,
                                  !.signer = tab[t].account, !.nonce = tab[t].nonce, !.at = "hook"]
    OBVIOUS
  <2>2. PICK r \in Requests \ InFlight : req' = [req EXCEPT ![r] = W]
    BY <1>8, <2>1 DEF VerifyAgain
  <2>3. UNCHANGED <<sessions, users, comments, last>> /\ ~quiet'
    BY <1>8 DEF VerifyAgain, data
  <2>4. W.kind = "verify" /\ W.at = "hook"
    BY <2>1, FreeIs DEF RequestType
  <2>5. Named(W, users')
    BY <2>4 DEF Named
  <2>6. NamesInv /\ last' \in Tabs \union {NoTab}
    BY <2>3 DEF SceneInv, NamesInv
  <2>7. NamesInv'
    BY <2>2, <2>3, <2>5, <2>6, NamesMove
  <2>8. r \in InFlight'
    BY <2>2, <2>4, NowIs DEF InFlight
  <2>9. QED
    BY <2>3, <2>7, <2>8 DEF SceneInv, AloneInv
<1>9. QED
  BY <1>1, <1>2, <1>3, <1>4, <1>5, <1>6, <1>7, <1>8 DEF User

(* What a reply leaves on the screen.                                        *)
LEMMA UserAfter ==
  ASSUME BasicInv, NEW q \in RequestType, q.tab \in Tabs, q.kind # "none",
         NEW ok \in BOOLEAN, NEW V, V = TabAfter(q, ok)
  PROVE  V.user = IF q.kind = "me" THEN IF ok THEN q.user ELSE Nobody
                  ELSE IF q.kind = "verify" /\ ok THEN q.user
                  ELSE IF q.kind = "logout" THEN Nobody
                  ELSE tab[q.tab].user
<1>1. PICK v : v = tab[q.tab]
  OBVIOUS
<1>2. v \in TabType
  BY <1>1, TabsAre
<1>3. CASE q.kind = "me"
  <2>1. V = AfterMe(v, q, ok)
    BY <1>1, <1>3 DEF TabAfter
  <2>2. QED
    BY <1>2, <1>3, <2>1 DEF AfterMe, TabType
<1>4. CASE q.kind = "nonce"
  <2>1. V = AfterNonce(v, q, ok)
    BY <1>1, <1>4 DEF TabAfter
  <2>2. V.user = v.user
    BY <1>2, <2>1 DEF AfterNonce, TabType
  <2>3. QED
    BY <1>1, <1>4, <2>2
<1>5. CASE q.kind = "verify"
  <2>1. V = AfterVerify(v, q, ok)
    BY <1>1, <1>5 DEF TabAfter
  <2>2. V.user = IF ok THEN q.user ELSE v.user
    BY <1>2, <2>1 DEF AfterVerify, TabType
  <2>3. QED
    BY <1>1, <1>5, <2>2
<1>6. CASE q.kind = "logout"
  <2>1. V = AfterLogout(v)
    BY <1>1, <1>6 DEF TabAfter
  <2>2. V.user = Nobody
    BY <1>2, <2>1 DEF AfterLogout, TabType
  <2>3. QED
    BY <1>6, <2>2
<1>7. CASE q.kind = "comment"
  <2>1. V = AfterComment(v)
    BY <1>1, <1>7 DEF TabAfter
  <2>2. V.user = v.user
    BY <1>2, <2>1 DEF AfterComment, TabType
  <2>3. QED
    BY <1>1, <1>7, <2>2
<1>8. CASE q.kind = "save"
  <2>1. V = AfterSave(v, ok)
    BY <1>1, <1>8 DEF TabAfter
  <2>2. V.user = v.user
    BY <1>2, <2>1 DEF AfterSave, TabType
  <2>3. QED
    BY <1>1, <1>8, <2>2
<1>9. QED
  BY <1>3, <1>4, <1>5, <1>6, <1>7, <1>8, RequestIs DEF Kinds

(* A reply that tells who is signed in, and one that does not.               *)
LEMMA ReplyTells ==
  ASSUME NEW w, NEW q \in RequestType, Sound(q, w), q.at = "reply", w.now \in Nat,
         q.kind \in {"me", "logout"} \/ (q.kind = "verify" /\ q.ok),
         NEW k, k = AfterIn(q, w),
         NEW u, u = IF q.kind = "me" THEN IF q.ok THEN q.user ELSE Nobody
                    ELSE IF q.kind = "verify" THEN q.user ELSE Nobody
  PROVE  IF u = Nobody THEN Sent(k, w) = NoToken ELSE Shows(u, k, w)
<1>1. Sent(NoCookie, w) = NoToken
  BY FreeIs DEF Sent
<1>2. ASSUME q.cookie = NoCookie \/ (q.token = NoToken /\ q.cookie = Keep)
      PROVE  Sent(k, w) = NoToken
  <2>1. NoCookie # Keep
    BY FreeIs DEF NoCookie, Keep
  <2>2. QED
    BY <1>1, <1>2, <2>1 DEF AfterIn, Sound, Held
<1>3. CASE q.kind = "me"
  <2>1. u = q.user /\ NoUser(q)
    BY <1>3 DEF Sound
  <2>2. CASE u = Nobody
    BY <1>2, <2>1, <2>2 DEF NoUser
  <2>3. CASE u # Nobody
    <3>1. OwnUser(q, w) /\ OwnName(q, w) /\ OwnCookie(q)
      BY <1>3 DEF Sound, Made, Saved
    <3>2. q.token # NoToken /\ k.token = q.token
      BY <2>1, <2>3, <3>1 DEF OwnUser, OwnCookie, AfterIn, Sound, Held
    <3>3. QED
      BY <2>1, <2>3, <3>1, <3>2 DEF Shows, OwnUser, OwnName
  <2>4. QED
    BY <2>2, <2>3
<1>4. CASE q.kind = "logout"
  BY <1>2, <1>4 DEF Sound
<1>5. CASE q.kind = "verify" /\ q.ok
  BY <1>5 DEF Sound, Made, AfterIn
<1>6. QED
  BY <1>3, <1>4, <1>5

LEMMA ReplyKeeps ==
  ASSUME NEW w, NEW q \in RequestType, Sound(q, w), q.kind \in Carrying, ~Made(q), ~Saved(q),
         w.last # NoTab, q.cookie # NoCookie, NEW k, k = AfterIn(q, w)
  PROVE  IF w.shown[w.last] = Nobody THEN Sent(k, w) = NoToken ELSE Shows(w.shown[w.last], k, w)
<1>1. OwnCookie(q) /\ Carries(q, w) /\ Held(q, w)
  BY DEF Sound
<1>2. CASE w.shown[w.last] = Nobody
  BY <1>1, <1>2 DEF OwnCookie, Carries, Held, AfterIn
<1>3. CASE w.shown[w.last] # Nobody
  <2>1. Shows(w.shown[w.last], w.jar, w)
    BY <1>1, <1>3 DEF Carries
  <2>2. k.token = w.jar.token
    BY <1>1 DEF OwnCookie, Held, AfterIn
  <2>3. QED
    BY <1>3, <2>1, <2>2 DEF Shows
<1>4. QED
  BY <1>2, <1>3

(* Replies.                                                                 *)
LEMMA FollowUpSound ==
  ASSUME BasicInv, NEW q \in RequestType, q.tab \in Tabs, q.kind = "save", q.ok,
         NEW W, W = FollowUp(q), NEW w, w.jar = CookieAfter(q), w.now = now
  PROVE  Sound(W, w)
<1>1. PICK c : c = IF CookieAfter(q).expires > now THEN CookieAfter(q).token ELSE NoToken
  OBVIOUS
<1>2. W = [Free EXCEPT !.kind = "me", !.tab = q.tab, !.at = "hook", !.token = c]
  BY <1>1 DEF FollowUp
<1>3. /\ W.kind = "me" /\ W.tab = q.tab /\ W.at = "hook" /\ W.token = c
      /\ W.user = Free.user /\ W.cookie = Free.cookie
  BY <1>2, FreeIs DEF RequestType
<1>4. W.user = Nobody /\ W.cookie = Keep
  BY <1>3, FreeIs
<1>5. Held(W, w)
  BY <1>1, <1>3, Constants DEF Held, Sent
<1>6. QED
  BY <1>3, <1>4, <1>5 DEF Sound, Made, Carrying, OwnCookie, OwnUser, OwnName

LEMMA DeliverScene ==
  ASSUME BasicInv, SceneInv, NEW r \in Requests, Deliver(r)
  PROVE  SceneInv'
<1>1. PICK q : q = req[r]
  OBVIOUS
<1>2. PICK V : V = TabAfter(q, q.ok)
  OBVIOUS
<1>3. PICK W : W = FollowUp(q)
  OBVIOUS
<1>4. /\ q \in RequestType /\ q.kind # "none" /\ q.at = "reply" /\ q.tab \in Tabs
      /\ q.ok \in BOOLEAN
  BY <1>1, InStep, RequestIs DEF Deliver, Tabs0
<1>5. /\ jar' = CookieAfter(q) /\ tab' = [tab EXCEPT ![q.tab] = V] /\ req' = [req EXCEPT ![r] = W]
      /\ last' = IF ~quiet THEN NoTab ELSE IF Tells(q) THEN q.tab
                 ELSE IF q.cookie = NoCookie THEN NoTab ELSE last
      /\ UNCHANGED <<now, sessions, users, comments, quiet>>
  BY <1>1, <1>2, <1>3 DEF Deliver, data
<1>6. NamesInv'
  <2>1. W.kind \in {"none", "me"}
    BY <1>1, <1>3, <1>4, InStep, FollowUpIs
  <2>2. W.at \in {"free", "hook"}
    BY <1>3, FreeIs DEF FollowUp, RequestType
  <2>3. Named(W, users')
    BY <2>1, <2>2 DEF Named
  <2>4. last' \in Tabs \union {NoTab} /\ NamesInv
    BY <1>4, <1>5 DEF SceneInv, NamesInv
  <2>5. /\ \A x \in Wallets : users[x] # NoName => users'[x] # NoName
        /\ \A s \in Tokens : sessions'[s].wallet = sessions[s].wallet
        /\ \A c \in comments' : c \in comments
    BY <1>5
  <2>6. QED
    BY <1>5, <2>3, <2>4, <2>5, NamesMove
<1>7. ASSUME quiet'
      PROVE  /\ InFlight' = {} => Agree(Scene)'
             /\ \A d \in InFlight' : InFlight' = {d} /\ Sound(req[d], Scene)'
  <2>1. quiet /\ Sound(q, Scene) /\ r \in InFlight /\ InFlight = {r}
    BY <1>1, <1>4, <1>5, <1>7, AloneIs DEF SceneInv, AloneInv, InFlight
  <2>2. \A d \in Requests : req'[d] = IF d = r THEN W ELSE req[d]
    BY <1>5, NowIs
  <2>3. InFlight' = IF W.at = "free" THEN {} ELSE {r}
    BY <2>1, <2>2 DEF InFlight
  <2>4. CookieAfter(q) = AfterIn(q, Scene)
    BY SceneIs DEF CookieAfter, AfterIn
  <2>5. TrueIn(jar', Scene')
    BY <1>4, <1>5, <2>1, <2>4, SceneIs, SceneIsThen DEF Sound, TrueIn, Sent
  <2>6. CASE W.at # "free"
    <3>1. q.kind = "save" /\ q.ok
      BY <1>3, <2>6, FreeIs DEF FollowUp
    <3>2. PICK w : w = Scene'
      OBVIOUS
    <3>3. Sound(W, w)
      BY <1>3, <1>4, <1>5, <3>1, <3>2, SceneIsThen, FollowUpSound
    <3>4. req'[r] = W
      BY <2>2
    <3>5. QED
      BY <2>3, <2>6, <3>2, <3>3, <3>4
  <2>7. CASE W.at = "free"
    <3>1. ~Saved(q)
      BY <1>3, <2>7, FreeIs DEF Saved, FollowUp, RequestType
    <3>2. \A t \in Tabs : tab'[t].user = IF t = q.tab THEN V.user ELSE tab[t].user
      BY <1>4, <1>5, TabsAre
    <3>3. PICK k : k = AfterIn(q, Scene)
      OBVIOUS
    <3>4. jar' = k /\ now \in Nat
      BY <1>5, <2>4, <3>3 DEF BasicInv, TypeOK
    <3>5. Sent(k, Scene') = Sent(k, Scene) /\ \A u : Shows(u, k, Scene') = Shows(u, k, Scene)
      BY <1>5, SceneIs, SceneIsThen DEF Sent, Shows
    <3>6. V.user = IF q.kind = "me" THEN IF q.ok THEN q.user ELSE Nobody
                   ELSE IF q.kind = "verify" /\ q.ok THEN q.user
                   ELSE IF q.kind = "logout" THEN Nobody
                   ELSE tab[q.tab].user
      BY <1>2, <1>4, UserAfter
    <3>7. last' # NoTab =>
            IF tab'[last'].user = Nobody THEN Sent(k, Scene) = NoToken
            ELSE Shows(tab'[last'].user, k, Scene)
      <4>1. CASE Tells(q)
        <5>1. last' = q.tab /\ tab'[q.tab].user = V.user
          BY <1>4, <1>5, <2>1, <3>2, <4>1
        <5>2. q.kind \in {"me", "logout"} \/ (q.kind = "verify" /\ q.ok)
          BY <4>1 DEF Tells
        <5>3. V.user = IF q.kind = "me" THEN IF q.ok THEN q.user ELSE Nobody
                       ELSE IF q.kind = "verify" THEN q.user ELSE Nobody
          BY <3>6, <5>2
        <5>4. Scene.now \in Nat
          BY <3>4, SceneIs
        <5>5. IF V.user = Nobody THEN Sent(k, Scene) = NoToken ELSE Shows(V.user, k, Scene)
          BY <1>4, <2>1, <3>3, <5>2, <5>3, <5>4, ReplyTells
        <5>6. QED
          BY <5>1, <5>5
      <4>2. CASE ~Tells(q) /\ q.cookie = NoCookie
        BY <1>5, <2>1, <4>2
      <4>3. CASE ~Tells(q) /\ q.cookie # NoCookie /\ last # NoTab
        <5>1. q.kind \in Carrying /\ ~Made(q)
          BY <1>4, <4>3, RequestIs DEF Tells, Carrying, Made, Kinds
        <5>2. last' = last /\ last \in Tabs
          BY <1>5, <2>1, <4>3 DEF SceneInv, NamesInv
        <5>3. V.user = tab[q.tab].user
          BY <3>6, <4>3 DEF Tells
        <5>4. tab'[last].user = tab[last].user
          BY <3>2, <5>2, <5>3
        <5>5. Scene.last = last /\ Scene.shown[last] = tab[last].user
          BY <5>2, SceneIs
        <5>6. IF Scene.shown[Scene.last] = Nobody THEN Sent(k, Scene) = NoToken
              ELSE Shows(Scene.shown[Scene.last], k, Scene)
          BY <1>4, <2>1, <3>1, <3>3, <4>3, <5>1, <5>5, ReplyKeeps
        <5>7. QED
          BY <5>2, <5>4, <5>5, <5>6
      <4>4. CASE last = NoTab /\ ~Tells(q)
        BY <1>5, <2>1, <4>4
      <4>5. QED
        BY <4>1, <4>2, <4>3, <4>4
    <3>8. last' # NoTab => Scene'.shown[last'] = tab'[last'].user
      BY <1>6, SceneIsThen DEF NamesInv
    <3>9. Scene'.last = last' /\ Scene'.jar = k
      BY <3>4, SceneIsThen
    <3>10. Agree(Scene')
      BY <2>5, <3>4, <3>5, <3>7, <3>8, <3>9 DEF Agree
    <3>11. QED
      BY <2>3, <2>7, <3>10
  <2>8. QED
    BY <2>6, <2>7
<1>8. ~quiet' => Agree(Scene)'
  BY <1>5, SceneIsThen DEF Agree
<1>9. QED
  BY <1>6, <1>7, <1>8 DEF SceneInv, AloneInv

LEMMA LoseScene ==
  ASSUME BasicInv, SceneInv, NEW r \in Requests, Lose(r)
  PROVE  SceneInv'
<1>1. PICK q : q = req[r]
  OBVIOUS
<1>2. /\ q.at = "reply" /\ req' = [req EXCEPT ![r] = Free] /\ (quiet' => quiet)
      /\ UNCHANGED <<sessions, users, comments>> /\ last' = NoTab
      /\ q.tab # NoTab => ~quiet'
  BY <1>1 DEF Lose, Works, Fails, data
<1>3. Named(Free, users')
  BY FreeIs DEF Named
<1>4. last' \in Tabs \union {NoTab} /\ NamesInv
  BY <1>2 DEF SceneInv, NamesInv
<1>5. NamesInv'
  BY <1>2, <1>3, <1>4, NamesMove
<1>6. ~quiet'
  <2>1. SUFFICES ASSUME quiet'
                 PROVE  FALSE
    OBVIOUS
  <2>2. Sound(q, Scene)
    BY <1>1, <1>2, <2>1, AloneIs
  <2>3. q.tab # NoTab
    BY <2>2 DEF Sound, Held
  <2>4. QED
    BY <1>2, <2>1, <2>3
<1>7. Agree(Scene)'
  BY <1>2, SceneIsThen DEF Agree
<1>8. QED
  BY <1>5, <1>6, <1>7 DEF SceneInv, AloneInv

(* Time passes: what was expired stays so.                                  *)
LEMMA LaterSent ==
  ASSUME NEW w, NEW v, w.now \in Nat, v.now = w.now + 1, NEW k \in Cookies, Sent(k, w) = NoToken
  PROVE  Sent(k, v) = NoToken
<1>1. CASE k.token = NoToken
  BY <1>1 DEF Sent
<1>2. CASE k.token # NoToken
  <2>1. ~(k.expires > w.now) /\ k.expires \in Int
    BY <1>2 DEF Sent, Cookies
  <2>2. ~(k.expires > v.now)
    BY <2>1
  <2>3. QED
    BY <2>2 DEF Sent
<1>3. QED
  BY <1>1, <1>2

LEMMA TickScene ==
  ASSUME BasicInv, SceneInv, Tick
  PROVE  SceneInv'
<1>1. /\ now' = now + 1 /\ UNCHANGED <<sessions, users, comments, jar, tab, quiet, last>>
      /\ req' = [r \in Requests |-> [req[r] EXCEPT !.aged = r \in InFlight]]
  BY DEF Tick, data, past
<1>2. ASSUME NEW r \in Requests
      PROVE  /\ req'[r].kind = req[r].kind /\ req'[r].tab = req[r].tab
             /\ req'[r].token = req[r].token /\ req'[r].user = req[r].user
             /\ req'[r].cookie = req[r].cookie /\ req'[r].ok = req[r].ok
             /\ req'[r].at = req[r].at /\ req'[r].name = req[r].name
  <2>1. req[r] \in RequestType
    BY NowIs
  <2>2. req'[r] = [req[r] EXCEPT !.aged = r \in InFlight]
    BY <1>1
  <2>3. QED
    BY <2>1, <2>2 DEF RequestType
<1>3. InFlight' = InFlight
  BY <1>2 DEF InFlight
<1>4. NamesInv'
  <2>1. \A r \in Requests : Named(req'[r], users')
    BY <1>1, <1>2 DEF SceneInv, NamesInv, Named
  <2>2. QED
    BY <1>1, <2>1 DEF SceneInv, NamesInv
<1>5. PICK w : w = Scene
  OBVIOUS
<1>6. PICK v : v = Scene'
  OBVIOUS
<1>7. /\ v.now = w.now + 1 /\ w.now \in Nat /\ v.jar = w.jar /\ v.sessions = w.sessions
      /\ v.users = w.users /\ v.last = w.last /\ v.shown = w.shown /\ w.jar \in Cookies
  <2>1. now \in Nat /\ jar \in Cookies
    BY DEF BasicInv, TypeOK
  <2>2. QED
    BY <1>1, <1>5, <1>6, <2>1, SceneIs, SceneIsThen
<1>8. \A u, k : Shows(u, k, v) = Shows(u, k, w)
  BY <1>7 DEF Shows
<1>9. Sent(w.jar, w) = NoToken => Sent(v.jar, v) = NoToken
  BY <1>7, LaterSent
<1>10. Agree(w) => Agree(v)
  <2>1. TrueIn(w.jar, w) => TrueIn(v.jar, v)
    BY <1>7, <1>9 DEF TrueIn
  <2>2. QED
    BY <1>7, <1>8, <1>9, <2>1 DEF Agree
<1>11. ASSUME NEW q, NEW p, Sound(q, w), q.cookie \in Cookies,
              p.kind = q.kind, p.tab = q.tab, p.token = q.token, p.user = q.user,
              p.cookie = q.cookie, p.ok = q.ok, p.at = q.at
       PROVE  Sound(p, v)
  <2>1. Held(p, v)
    BY <1>7, <1>9, <1>11 DEF Sound, Held
  <2>2. TrueIn(AfterIn(q, w), w) => TrueIn(AfterIn(p, v), v)
    <3>1. PICK k : k = AfterIn(q, w)
      OBVIOUS
    <3>2. AfterIn(p, v) = k /\ k \in Cookies
      BY <1>7, <1>11, <3>1 DEF AfterIn
    <3>3. Sent(k, w) = NoToken => Sent(k, v) = NoToken
      BY <1>7, <3>2, LaterSent
    <3>4. QED
      BY <1>7, <3>1, <3>2, <3>3 DEF TrueIn
  <2>3. /\ OwnCookie(q) => OwnCookie(p)
        /\ OwnUser(q, w) => OwnUser(p, v)
        /\ OwnName(q, w) => OwnName(p, v)
        /\ NoUser(q) => NoUser(p)
        /\ Made(p) = Made(q) /\ Saved(p) = Saved(q)
    BY <1>7, <1>11 DEF OwnCookie, OwnUser, OwnName, NoUser, Made, Saved
  <2>4. Carries(q, w) => Carries(p, v)
    BY <1>7, <1>8, <1>11 DEF Carries
  <2>5. QED
    BY <1>7, <1>8, <1>11, <2>1, <2>2, <2>3, <2>4 DEF Sound
<1>12. AloneInv'
  <2>1. InFlight' = {} => Agree(v)
    BY <1>3, <1>5, <1>10 DEF SceneInv, AloneInv
  <2>2. ASSUME quiet', NEW d \in InFlight'
        PROVE  InFlight' = {d} /\ Sound(req'[d], v)
    <3>1. d \in InFlight /\ d \in Requests
      BY <1>3, <2>2 DEF InFlight
    <3>2. InFlight = {d} /\ Sound(req[d], w)
      BY <1>1, <1>5, <2>2, <3>1 DEF SceneInv, AloneInv
    <3>3. req[d].cookie \in Cookies
      BY <3>1, NowIs DEF RequestType
    <3>4. QED
      BY <1>2, <1>3, <1>11, <3>1, <3>2, <3>3
  <2>3. QED
    BY <1>6, <2>1, <2>2 DEF AloneInv
<1>13. QED
  BY <1>4, <1>12 DEF SceneInv

LEMMA InitScene ==
  ASSUME Init
  PROVE  SceneInv
<1>1. /\ \A s \in Tokens : sessions[s].wallet = NoWallet
      /\ \A r \in Requests : req[r] = Free
      /\ last = NoTab /\ comments = {} /\ jar = NoCookie
  BY DEF Init
<1>2. InFlight = {}
  BY <1>1, FreeIs DEF InFlight
<1>3. NamesInv
  <2>1. Named(Free, users)
    BY FreeIs DEF Named
  <2>2. QED
    BY <1>1, <2>1 DEF NamesInv
<1>4. Agree(Scene)
  BY <1>1, SceneIs DEF Agree, TrueIn
<1>5. QED
  BY <1>2, <1>3, <1>4 DEF SceneInv, AloneInv

LEMMA NextScene ==
  ASSUME BasicInv, SceneInv, [Next]_vars
  PROVE  SceneInv'
<1>1. CASE Next
  <2>1. ASSUME NEW t \in Tabs, User(t)
        PROVE  SceneInv'
    BY <2>1, UserScene
  <2>2. ASSUME NEW r \in Requests, Api(r)
        PROVE  SceneInv'
    <3>1. CASE Hook(r) \/ Purge(r) \/ Refresh(r)
      BY <3>1, HookScene, PurgeScene, RefreshScene
    <3>2. CASE IssueNonce(r) \/ FindValidNonce(r) \/ MarkNonceConsumed(r)
      BY <3>2, IssueNonceScene, VerifyScene
    <3>3. CASE FindUser(r) \/ CreateUser(r) \/ CreateSession(r)
      BY <3>3, FindUserScene, CreateUserScene, CreateSessionScene
    <3>4. CASE RevokeSession(r) \/ WriteComment(r) \/ WriteProfile(r)
      BY <3>4, RevokeScene, WriteCommentScene, WriteProfileScene
    <3>5. QED
      BY <2>2, <3>1, <3>2, <3>3, <3>4 DEF Api
  <2>3. ASSUME NEW r \in Requests, Deliver(r) \/ Lose(r)
        PROVE  SceneInv'
    BY <2>3, DeliverScene, LoseScene
  <2>4. QED
    BY <1>1, <2>1, <2>2, <2>3, TickScene DEF Next
<1>2. CASE UNCHANGED vars
  <2>1. UNCHANGED <<now, sessions, users, comments, jar, tab, req, quiet, last>>
    BY <1>2 DEF vars, data, past
  <2>2. Scene' = Scene /\ InFlight' = InFlight
    BY <2>1 DEF Scene, InFlight
  <2>3. NamesInv'
    BY <2>1 DEF SceneInv, NamesInv
  <2>4. AloneInv'
    BY <2>1, <2>2 DEF SceneInv, AloneInv
  <2>5. QED
    BY <2>3, <2>4 DEF SceneInv
<1>3. QED
  BY <1>1, <1>2

LEMMA SceneSignedIn ==
  ASSUME BasicInv, SceneInv
  PROVE  SignedInTrue
<1>1. ASSUME InFlight = {}, last # NoTab
      PROVE  JarTrue /\ ShowsTruth(last)
  <2>1. Agree(Scene)
    BY <1>1 DEF SceneInv, AloneInv
  <2>2. Sent(Scene.jar, Scene) = SentCookie /\ SentCookie \in {jar.token, NoToken}
    BY SentIs
  <2>3. Scene.shown[Scene.last] = tab[last].user /\ Scene.last = last
    BY <1>1, SceneIs DEF SceneInv, NamesInv
  <2>4. JarTrue
    BY <1>1, <2>1, <2>2, <2>3, SceneIs DEF Agree, TrueIn, JarTrue
  <2>5. ShowsTruth(last)
    BY <1>1, <2>1, <2>2, <2>3, SceneIs DEF Agree, Shows, ShowsTruth
  <2>6. QED
    BY <2>4, <2>5
<1>2. \A c \in comments : c.sure => c.author = c.shown
  BY DEF SceneInv, NamesInv
<1>3. QED
  BY <1>1, <1>2 DEF SignedInTrue

LEMMA SceneInvariant == Spec => []SceneInv
<1>1. Init => SceneInv
  BY InitScene
<1>2. BasicInv /\ SceneInv /\ [Next]_vars => SceneInv'
  BY NextScene
<1>3. Spec => [](BasicInv /\ NonceInv)
  BY Invariant
<1>4. QED
  BY <1>1, <1>2, <1>3, PTL DEF Spec

\* Whatever crossed, failed or was lost before: from the first answer to a tab
\* that asked alone, and as long as calls follow one another and succeed, the
\* cookie, the session's row and that tab's screen agree on who is signed in, and
\* its comments appear under the account it shows.
THEOREM SignsInTruly == Spec => []SignedInTrue
<1>1. BasicInv /\ SceneInv => SignedInTrue
  BY SceneSignedIn
<1>2. Spec => [](BasicInv /\ NonceInv)
  BY Invariant
<1>3. QED
  BY <1>1, <1>2, SceneInvariant, PTL

-----------------------------------------------------------------------------
(* Processes that migrate one database (Startup, as the run composes it).   *)

LEMMA MigrationsAre ==
  /\ Len(Process!Migrations) = 4 /\ DOMAIN Process!Migrations = 1..4
  /\ Process!Migrations[1] = <<"rename", "trades", "liquidity_events", "candles_5m">>
  /\ Process!Migrations[2] = <<"market_sync", "recon_state", "recon_row">>
  /\ Process!Migrations[3] = <<"system_kv">>
  /\ Process!Migrations[4] = <<"users", "set_updated_at", "trg_users", "user_sessions", "auth_nonces",
                       "market_comments", "trg_comments">>
BY DEF Process!Migrations

LEMMA StatementsAre ==
  ASSUME NEW i \in 1..4
  PROVE  /\ Len(Process!Migrations[i]) \in Nat /\ DOMAIN Process!Migrations[i] = 1..Len(Process!Migrations[i])
         /\ \A k \in 1..Len(Process!Migrations[i]) :
              /\ Process!Migrations[i][k] = "trades" => i = 1 /\ k = 2
              /\ Process!Migrations[i][k] = "rename" => i = 1 /\ k = 1
<1>1. CASE i = 1
  BY <1>1, MigrationsAre
<1>2. CASE i = 2
  BY <1>2, MigrationsAre
<1>3. CASE i = 3
  BY <1>3, MigrationsAre
<1>4. CASE i = 4
  BY <1>4, MigrationsAre
<1>5. QED
  BY <1>1, <1>2, <1>3, <1>4
(* Statement k of migration i has been executed.                            *)
Done(i, k) == Process!Migrations[i][k] # "rename" => Process!Migrations[i][k] \in schema

LEMMA ObjectsAre ==
  ASSUME NEW i \in 1..4
  PROVE  Process!Objects(i) \subseteq schema <=> \A k \in 1..Len(Process!Migrations[i]) : Done(i, k)
BY StatementsAre DEF Process!Objects, Process!ToSet, Done

Ups == {"check", "run", "build", "index", "indexing", "listening"}

DatabaseOK ==
  /\ ordered \in {"none", "legacy", "cased", "fpmm"}
  /\ applied \subseteq 1..4
  /\ proc \in [Requests -> [pc : Ups \union {"down"}, id : Nat, at : Nat]]

\* How far process v has come, and what it found on its way.
ProcessOK(v) ==
  /\ v.pc \in Ups =>
       /\ v.id \in 1..5
       /\ \A i \in 1..4 : i < v.id => Process!Objects(i) \subseteq schema
  /\ v.pc = "run" =>
       /\ v.id \in 1..4 /\ v.at \in 1..Len(Process!Migrations[v.id]) + 1
       /\ \A k \in 1..Len(Process!Migrations[v.id]) : k < v.at => Done(v.id, k)
       /\ v.id = 1 /\ v.at > 1 => ordered # "legacy"
  /\ v.pc \in Ups \ {"check", "run"} => v.id = 5
  /\ v.pc = "down" => v.id = 1

StartInv ==
  /\ DatabaseOK
  /\ \A p \in Requests : ProcessOK(proc[p])
  /\ \A i \in applied : Process!Objects(i) \subseteq schema
  /\ "trades" \in schema => ordered = "fpmm"
  /\ renamed # "fpmm"

LEMMA ProcIs ==
  ASSUME DatabaseOK, NEW p \in Requests
  PROVE  /\ proc[p].pc \in Ups \union {"down"} /\ proc[p].id \in Nat /\ proc[p].at \in Nat
         /\ \A v \in [pc : Ups \union {"down"}, id : Nat, at : Nat] :
              proc' = [proc EXCEPT ![p] = v] =>
                /\ proc' \in [Requests -> [pc : Ups \union {"down"}, id : Nat, at : Nat]]
                /\ \A q \in Requests : proc'[q] = IF q = p THEN v ELSE proc[q]
BY DEF DatabaseOK

(* One process goes on; what is there stays, and the old table does not come *)
(* back.                                                                     *)
LEMMA ProcessMoves ==
  ASSUME StartInv, NEW p \in Requests,
         NEW v, v \in [pc : Ups \union {"down"}, id : Nat, at : Nat],
         proc' = [proc EXCEPT ![p] = v], ProcessOK(v)', schema \subseteq schema',
         ordered' = "legacy" => ordered = "legacy", ordered' \in {"none", "legacy", "cased", "fpmm"},
         applied' \subseteq 1..4, \A i \in applied' : Process!Objects(i) \subseteq schema',
         "trades" \in schema' => ordered' = "fpmm", renamed' # "fpmm"
  PROVE  StartInv'
<1>1. /\ proc' \in [Requests -> [pc : Ups \union {"down"}, id : Nat, at : Nat]]
      /\ \A q \in Requests : proc'[q] = IF q = p THEN v ELSE proc[q]
  BY ProcIs DEF StartInv
<1>2. ASSUME NEW q \in Requests
      PROVE  ProcessOK(proc[q])'
  <2>1. CASE q = p
    BY <1>1, <2>1
  <2>2. CASE q # p
    <3>1. ProcessOK(proc[q]) /\ proc'[q] = proc[q]
      BY <1>1, <2>2 DEF StartInv
    <3>2. QED
      BY <3>1 DEF ProcessOK, Done
  <2>3. QED
    BY <2>1, <2>2
<1>3. QED
  BY <1>1, <1>2 DEF StartInv, DatabaseOK

(* A step that leaves the database alone.                                   *)
LEMMA OnlyProcess ==
  ASSUME StartInv, NEW p \in Requests,
         NEW v, v \in [pc : Ups \union {"down"}, id : Nat, at : Nat],
         proc' = [proc EXCEPT ![p] = v], ProcessOK(v), UNCHANGED Process!db
  PROVE  StartInv'
<1>1. ProcessOK(v)'
  BY DEF ProcessOK, Done, Process!db
<1>2. QED
  BY <1>1, ProcessMoves DEF StartInv, DatabaseOK, Process!db

LEMMA Goes ==
  ASSUME StartInv, NEW p \in Requests, NEW pc \in Ups, Process!Go(p, pc), UNCHANGED Process!db,
         pc # "run", proc[p].pc = "down" => pc = "check",
         pc \in Ups \ {"check"} => proc[p].id = 5
  PROVE  StartInv'
<1>1. PICK v : v = [proc[p] EXCEPT !.pc = pc]
  OBVIOUS
<1>2. /\ ProcessOK(proc[p]) /\ proc[p] \in [pc : Ups \union {"down"}, id : Nat, at : Nat]
  BY DEF StartInv, DatabaseOK
<1>3. /\ v \in [pc : Ups \union {"down"}, id : Nat, at : Nat] /\ v.pc = pc
      /\ v.id = proc[p].id /\ v.at = proc[p].at
  BY <1>1, <1>2
<1>4. proc' = [proc EXCEPT ![p] = v]
  BY <1>1, <1>2 DEF Process!Go
<1>5. v.id \in 1..5 /\ \A i \in 1..4 : i < v.id => Process!Objects(i) \subseteq schema
  BY <1>2, <1>3 DEF ProcessOK
<1>6. ProcessOK(v)
  BY <1>3, <1>5 DEF ProcessOK, Ups
<1>7. QED
  BY <1>3, <1>4, <1>6, OnlyProcess

LEMMA ProcessSteps ==
  ASSUME StartInv, NEW p \in Requests,
         Process!Start(p) \/ Process!Build(p) \/ Process!StartIndexer(p) \/ Process!Listen(p) \/ Process!Exit(p)
  PROVE  StartInv'
<1>1. ProcessOK(proc[p]) /\ UNCHANGED Process!db
  BY DEF StartInv, Process!Start, Process!Build, Process!StartIndexer, Process!Listen, Process!Exit
<1>2. CASE Process!Exit(p)
  <2>1. Process!Down \in [pc : Ups \union {"down"}, id : Nat, at : Nat] /\ ProcessOK(Process!Down)
    BY DEF Process!Down, ProcessOK, Ups
  <2>2. QED
    BY <1>2, <2>1, OnlyProcess DEF Process!Exit
<1>3. CASE Process!Start(p)
  BY <1>1, <1>3, Goes DEF Process!Start, Ups
<1>4. CASE Process!Build(p) \/ Process!StartIndexer(p) \/ Process!Listen(p)
  <2>1. proc[p].pc \in Ups \ {"check", "run"} /\ proc[p].id = 5
    BY <1>1, <1>4 DEF Process!Build, Process!StartIndexer, Process!Listen, ProcessOK, Ups
  <2>2. PICK pc \in Ups \ {"check", "run"} : Process!Go(p, pc)
    BY <1>4 DEF Process!Build, Process!StartIndexer, Process!Listen, Ups
  <2>3. QED
    BY <1>1, <2>1, <2>2, Goes DEF Ups
<1>5. QED
  BY <1>2, <1>3, <1>4

LEMMA HasMigrationKeeps ==
  ASSUME StartInv, NEW p \in Requests, Process!HasMigration(p)
  PROVE  StartInv'
<1> DEFINE v == proc[p]
<1>1. /\ ProcessOK(v) /\ v \in [pc : Ups \union {"down"}, id : Nat, at : Nat]
      /\ v.pc = "check" /\ UNCHANGED Process!db
  BY DEF StartInv, DatabaseOK, Process!HasMigration
<1>2. v.id \in 1..5 /\ \A i \in 1..4 : i < v.id => Process!Objects(i) \subseteq schema
  BY <1>1 DEF ProcessOK, Ups
<1>3. CASE v.id > Len(Process!Migrations)
  <2>1. Process!Go(p, "build") /\ v.id = 5
    BY <1>2, <1>3, MigrationsAre DEF Process!HasMigration
  <2>2. QED
    BY <1>1, <2>1, Goes DEF Ups
<1>4. CASE v.id <= Len(Process!Migrations) /\ v.id \in applied
  <2>1. PICK w : w = [v EXCEPT !.id = v.id + 1]
    OBVIOUS
  <2>2. proc' = [proc EXCEPT ![p] = w]
    BY <1>1, <1>2, <1>4, <2>1, MigrationsAre DEF Process!HasMigration
  <2>3. /\ w \in [pc : Ups \union {"down"}, id : Nat, at : Nat] /\ w.pc = "check"
        /\ w.id = v.id + 1
    BY <1>1, <2>1
  <2>4. w.id \in 1..5 /\ \A i \in 1..4 : i < w.id => Process!Objects(i) \subseteq schema
    BY <1>2, <1>4, <2>3, MigrationsAre DEF StartInv
  <2>5. ProcessOK(w)
    BY <2>3, <2>4 DEF ProcessOK, Ups
  <2>6. QED
    BY <1>1, <2>2, <2>3, <2>5, OnlyProcess
<1>5. CASE v.id <= Len(Process!Migrations) /\ v.id \notin applied
  <2>1. PICK w : w = [v EXCEPT !.pc = "run", !.at = 1]
    OBVIOUS
  <2>2. proc' = [proc EXCEPT ![p] = w]
    <3>1. proc' = [proc EXCEPT ![p].pc = "run", ![p].at = 1]
      BY <1>2, <1>5, MigrationsAre DEF Process!HasMigration
    <3>2. [proc EXCEPT ![p].pc = "run", ![p].at = 1] = [proc EXCEPT ![p] = w]
      BY <2>1 DEF StartInv, DatabaseOK
    <3>3. QED
      BY <3>1, <3>2
  <2>3. /\ w \in [pc : Ups \union {"down"}, id : Nat, at : Nat] /\ w.pc = "run"
        /\ w.id = v.id /\ w.at = 1
    BY <1>1, <2>1 DEF Ups
  <2>4. w.id \in 1..4 /\ Len(Process!Migrations[w.id]) \in Nat
    BY <1>2, <1>5, <2>3, MigrationsAre, StatementsAre
  <2>5. ProcessOK(w)
    BY <1>2, <2>3, <2>4 DEF ProcessOK, Ups
  <2>6. QED
    BY <1>1, <2>2, <2>3, <2>5, OnlyProcess
<1>6. QED
  BY <1>2, <1>3, <1>4, <1>5, MigrationsAre

(* The statement a process stands at has been executed.                      *)
LEMMA StatementDone ==
  ASSUME StartInv, NEW p \in Requests, Process!Running(p), Process!NextStatement(p),
         Process!Statement(p) # "rename" => Process!Statement(p) \in schema', schema \subseteq schema',
         ordered' = "legacy" => ordered = "legacy", ordered' \in {"none", "legacy", "cased", "fpmm"},
         proc[p].id = 1 => ordered' # "legacy",
         UNCHANGED applied, "trades" \in schema' => ordered' = "fpmm", renamed' # "fpmm"
  PROVE  StartInv'
<1> DEFINE v == proc[p]
           n == Len(Process!Migrations[v.id])
<1>1. PICK w : w = [v EXCEPT !.at = v.at + 1]
  OBVIOUS
<1>2. /\ ProcessOK(v) /\ v \in [pc : Ups \union {"down"}, id : Nat, at : Nat]
      /\ v.pc = "run" /\ v.at <= n
  BY DEF StartInv, DatabaseOK, Process!Running
<1>3. /\ v.id \in 1..4 /\ v.at \in 1..n + 1 /\ n \in Nat
      /\ \A i \in 1..4 : i < v.id => Process!Objects(i) \subseteq schema
      /\ \A k \in 1..n : k < v.at => Done(v.id, k)
  BY <1>2, StatementsAre DEF ProcessOK, Ups
<1>4. proc' = [proc EXCEPT ![p] = w]
  BY <1>1, <1>2 DEF Process!NextStatement
<1>5. /\ w \in [pc : Ups \union {"down"}, id : Nat, at : Nat] /\ w.pc = "run"
      /\ w.id = v.id /\ w.at = v.at + 1
  BY <1>1, <1>2
<1> HIDE DEF v
<1>6. w.at \in 1..n + 1
  BY <1>2, <1>3, <1>5
<1>7. \A k \in 1..n : k < w.at => Done(w.id, k)'
  BY <1>2, <1>3, <1>5 DEF Done, Process!Statement, v
<1>8. \A i \in 1..4 : i < w.id => Process!Objects(i) \subseteq schema'
  BY <1>3, <1>5
<1>9. ProcessOK(w)'
  BY <1>3, <1>5, <1>6, <1>7, <1>8 DEF ProcessOK, Ups, v
<1>10. applied' \subseteq 1..4 /\ \A i \in applied' : Process!Objects(i) \subseteq schema'
  BY DEF StartInv, DatabaseOK
<1>11. QED
  BY <1>4, <1>5, <1>9, <1>10, ProcessMoves

(* Only the rename of the first migration moves the old table, and none but  *)
(* the next statement makes the new one.                                     *)
LEMMA RenameKeeps ==
  ASSUME StartInv, NEW p \in Requests, Process!RenameTrades(p)
  PROVE  StartInv'
<1>1. /\ Process!Running(p) /\ Process!Statement(p) = "rename" /\ Process!NextStatement(p)
      /\ UNCHANGED <<schema, applied>>
      /\ \/ ordered = "legacy" /\ renamed' = ordered /\ ordered' = "none"
         \/ ordered # "legacy" /\ UNCHANGED <<renamed, ordered>>
  BY DEF Process!RenameTrades
<1>2. "trades" \in schema' => ordered' = "fpmm"
  BY <1>1 DEF StartInv
<1>3. QED
  BY <1>1, <1>2, StatementDone DEF StartInv, DatabaseOK

LEMMA CreateKeeps ==
  ASSUME StartInv, NEW p \in Requests, Process!Create(p)
  PROVE  StartInv'
<1> DEFINE v == proc[p]
<1>1. /\ Process!Running(p) /\ Process!Statement(p) # "rename" /\ Process!NextStatement(p)
      /\ schema' = schema \union {Process!Statement(p)}
      /\ Process!Statement(p) = "trades" => ordered # "cased"
      /\ ordered' = IF Process!Statement(p) = "trades" /\ ordered = "none" THEN "fpmm" ELSE ordered
      /\ UNCHANGED <<renamed, applied>>
  BY DEF Process!Create
<1>2. /\ v.id \in 1..4 /\ v.at \in 1..Len(Process!Migrations[v.id])
      /\ v.id = 1 /\ v.at > 1 => ordered # "legacy"
  <2>1. ProcessOK(v) /\ v.pc = "run" /\ v.at <= Len(Process!Migrations[v.id]) /\ v.at \in Nat
    BY <1>1 DEF StartInv, DatabaseOK, Process!Running
  <2>2. QED
    BY <2>1, StatementsAre DEF ProcessOK
<1>3. /\ Process!Statement(p) = "trades" => v.id = 1 /\ v.at = 2
      /\ Process!Statement(p) = Process!Migrations[v.id][v.at]
  BY <1>2, StatementsAre DEF Process!Statement
<1>4. v.id = 1 => v.at > 1
  <2>1. v.id = 1 /\ v.at = 1 => Process!Statement(p) = "rename"
    BY MigrationsAre DEF Process!Statement
  <2>2. QED
    BY <1>1, <1>2, <2>1
<1>5. "trades" \in schema' => ordered' = "fpmm"
  BY <1>1, <1>2, <1>3 DEF StartInv, DatabaseOK
<1>6. QED
  BY <1>1, <1>2, <1>4, <1>5, StatementDone DEF StartInv, DatabaseOK

LEMMA RecordKeeps ==
  ASSUME StartInv, NEW p \in Requests, Process!RecordMigration(p)
  PROVE  StartInv'
<1> DEFINE v == proc[p]
           n == Len(Process!Migrations[v.id])
<1>1. PICK w : w = [v EXCEPT !.pc = "check", !.id = v.id + 1]
  OBVIOUS
<1>2. /\ ProcessOK(v) /\ v \in [pc : Ups \union {"down"}, id : Nat, at : Nat]
      /\ v.pc = "run" /\ v.at > n /\ applied' = applied \union {v.id}
      /\ UNCHANGED <<schema, ordered, renamed>>
  BY DEF StartInv, DatabaseOK, Process!RecordMigration
<1>3. /\ v.id \in 1..4 /\ v.at \in 1..n + 1 /\ n \in Nat
      /\ \A i \in 1..4 : i < v.id => Process!Objects(i) \subseteq schema
      /\ \A k \in 1..n : k < v.at => Done(v.id, k)
  BY <1>2, StatementsAre DEF ProcessOK, Ups
<1>4. proc' = [proc EXCEPT ![p] = w]
  BY <1>1, <1>2 DEF Process!RecordMigration
<1>5. /\ w \in [pc : Ups \union {"down"}, id : Nat, at : Nat] /\ w.pc = "check"
      /\ w.id = v.id + 1
  <2>1. v \in [pc : Ups \union {"down"}, id : Nat, at : Nat] /\ "check" \in Ups
    BY <1>2 DEF Ups
  <2>2. v.id + 1 \in Nat
    BY <2>1
  <2> HIDE DEF v
  <2>3. QED
    BY <1>1, <2>1, <2>2
<1> HIDE DEF v
<1>6. Process!Objects(v.id) \subseteq schema
  BY <1>2, <1>3, ObjectsAre
<1>7. \A i \in 1..4 : i < w.id => Process!Objects(i) \subseteq schema
  BY <1>3, <1>5, <1>6
<1>8. ProcessOK(w)'
  BY <1>2, <1>3, <1>5, <1>7 DEF ProcessOK, Ups
<1>9. applied' \subseteq 1..4 /\ \A i \in applied' : Process!Objects(i) \subseteq schema'
  BY <1>2, <1>3, <1>6 DEF StartInv, DatabaseOK
<1>10. QED
  BY <1>2, <1>4, <1>5, <1>8, <1>9, ProcessMoves DEF StartInv, DatabaseOK

(* In every database, started and killed at any step by any number of        *)
(* processes: what index.ts starts after runMigrations finds the whole       *)
(* schema, and the old trades moved out of its way.                          *)
THEOREM MigratedBeforeServing == RequestsSpec => []ServesMigrated
<1>1. RequestsInit => StartInv
  <2> SUFFICES ASSUME RequestsInit PROVE StartInv
    OBVIOUS
  <2>1. proc \in [Requests -> {Process!Down}]
    BY DEF RequestsInit, Process!Init
  <2>2. DatabaseOK
    BY <2>1 DEF RequestsInit, Process!Init, DatabaseOK, Process!Down
  <2>3. ProcessOK(Process!Down)
    BY DEF Process!Down, ProcessOK, Ups
  <2>4. QED
    BY <2>1, <2>2, <2>3 DEF RequestsInit, Process!Init, StartInv
<1>2. StartInv /\ [RequestsNext]_requests => StartInv'
  <2> SUFFICES ASSUME StartInv, [RequestsNext]_requests PROVE StartInv'
    OBVIOUS
  <2>1. CASE UNCHANGED startVars
    BY <2>1 DEF startVars, Process!db, StartInv, DatabaseOK, ProcessOK, Done
  <2>2. CASE Process!Next
    BY <2>2, ProcessSteps, HasMigrationKeeps, RenameKeeps, CreateKeeps, RecordKeeps
    DEF Process!Next
  <2>3. UNCHANGED startVars \/ Process!Next
    BY DEF RequestsNext, Session, Replaying, Rate, Starting, Commenting, requests
  <2>4. QED
    BY <2>1, <2>2, <2>3
<1>3. StartInv => ServesMigrated
  <2> SUFFICES ASSUME StartInv PROVE Process!ServesMigrated
    BY DEF ServesMigrated
  <2>1. ASSUME NEW p \in Requests, proc[p].pc \in {"indexing", "listening"}
        PROVE  /\ \A id \in DOMAIN Process!Migrations : Process!Objects(id) \subseteq schema
               /\ ordered = "fpmm"
    <3>1. \A id \in 1..4 : Process!Objects(id) \subseteq schema
      BY <2>1 DEF StartInv, ProcessOK, Ups
    <3>2. "trades" \in Process!Objects(1)
      BY MigrationsAre DEF Process!Objects, Process!ToSet
    <3>3. QED
      BY <3>1, <3>2, MigrationsAre DEF StartInv
  <2>2. QED
    BY <2>1 DEF StartInv, Process!ServesMigrated
<1>4. QED
  BY <1>1, <1>2, <1>3, PTL DEF RequestsSpec

-----------------------------------------------------------------------------
(* The token bucket (RpcLimiter, as the run composes it).                   *)

(* The quotient is the largest multiple that fits.                          *)
LEMMA Quotient ==
  ASSUME NEW n \in Nat, NEW d \in Nat \ {0}
  PROVE  /\ n \div d \in Nat
         /\ (n \div d) * d <= n /\ n < (n \div d) * d + d
<1>1. n = d * (n \div d) + (n % d) /\ n % d \in 0..d - 1 /\ n \div d \in Int
  OBVIOUS
<1> DEFINE q == n \div d
<1>2. q \in Int /\ d * q <= n /\ n < d * q + d
  BY <1>1
<1> HIDE DEF q
<1>3. q >= 0
  <2>1. SUFFICES ASSUME q <= -1 PROVE FALSE
    BY <1>2
  <2>2. d * q <= d * (-1)
    BY <1>2, <2>1
  <2>3. QED
    BY <1>2, <2>2
<1>4. d * q = q * d
  BY <1>2
<1>5. QED
  BY <1>2, <1>3, <1>4 DEF q

LEMMA RoundedUp ==
  ASSUME NEW n \in Nat, NEW d \in Nat \ {0}
  PROVE  /\ Limiter!CeilDiv(n, d) \in Nat
         /\ n <= Limiter!CeilDiv(n, d) * d /\ Limiter!CeilDiv(n, d) * d < n + d
<1>1. n + d - 1 \in Nat
  OBVIOUS
<1> DEFINE q == (n + d - 1) \div d
<1>2. q \in Nat /\ q * d <= n + d - 1 /\ n + d - 1 < q * d + d
  BY <1>1, Quotient
<1>3. q * d \in Nat
  BY <1>2
<1> HIDE DEF q
<1>4. n <= q * d /\ q * d < n + d
  BY <1>2, <1>3
<1>5. QED
  BY <1>2, <1>4 DEF q, Limiter!CeilDiv

(* Multiples compare as what is multiplied.                                 *)
LEMMA Multiples ==
  ASSUME NEW x \in Int, NEW y \in Int, NEW d \in Nat \ {0}, x * d < y * d
  PROVE  x < y
<1>1. SUFFICES ASSUME y <= x PROVE FALSE
  OBVIOUS
<1>2. y * d <= x * d
  BY <1>1
<1>3. QED
  BY <1>2

LEMMA SumsRound ==
  ASSUME NEW a \in Nat, NEW b \in Nat, NEW d \in Nat \ {0}
  PROVE  /\ Limiter!CeilDiv(a, d) + (b \div d) <= Limiter!CeilDiv(a + b, d)
         /\ b < d => (a + b) \div d <= Limiter!CeilDiv(a, d)
<1> DEFINE x == Limiter!CeilDiv(a, d)
           y == b \div d
           z == Limiter!CeilDiv(a + b, d)
           w == (a + b) \div d
<1>1. a + b \in Nat
  OBVIOUS
<1>2. /\ x \in Nat /\ a <= x * d /\ x * d < a + d
      /\ y \in Nat /\ y * d <= b
      /\ z \in Nat /\ a + b <= z * d
      /\ w \in Nat /\ w * d <= a + b
  BY <1>1, RoundedUp, Quotient
<1> HIDE DEF x, y, z, w
<1>3. x * d \in Nat /\ y * d \in Nat /\ z * d \in Nat /\ w * d \in Nat
  BY <1>2
<1>4. x + y <= z
  <2>1. (x + y - 1) * d = x * d + y * d - d
    BY <1>2
  <2>2. (x + y - 1) * d < z * d
    BY <1>2, <1>3, <2>1
  <2>3. x + y - 1 < z
    BY <1>2, <2>2, Multiples
  <2>4. QED
    BY <1>2, <2>3
<1>5. b < d => w <= x
  <2>1. ASSUME b < d PROVE w <= x
    <3>1. (x + 1) * d = x * d + d
      BY <1>2
    <3>2. w * d < (x + 1) * d
      BY <1>2, <1>3, <2>1, <3>1
    <3>3. w < x + 1
      BY <1>2, <3>2, Multiples
    <3>4. QED
      BY <1>2, <3>3
  <2>2. QED
    BY <2>1
<1>6. QED
  BY <1>4, <1>5 DEF x, y, z, w

Since(f) == sent[clock] - Limiter!SentBefore(f)
AddedSince(f) == Limiter!CeilDiv((lastRefill - f) * maxQps, Second)

(* What was sent since a time and what the bucket holds come from the bucket *)
(* and what the rate added up to the last refill; since a later time nothing *)
(* was added, and where something was sent not even a token had gathered.    *)
BucketInv ==
  /\ clock \in 0..MaxClock /\ lastRefill \in 0..clock /\ tokens \in 0..burst
  /\ sent \in [0..MaxClock -> Nat]
  /\ \A f \in 0..clock :
       /\ Since(f) \in Nat
       /\ f <= lastRefill => Since(f) + tokens <= burst + AddedSince(f)
       /\ f > lastRefill => /\ Since(f) + tokens <= burst
                            /\ Since(f) > 0 => (f - lastRefill) * maxQps < Second

LEMMA LimiterTypes == /\ Second \in Nat \ {0} /\ maxQps \in Nat \ {0} /\ burst \in Nat \ {0}
                      /\ MaxClock \in Nat
BY LimiterAssumption DEF Limiter!LimiterAssumption

LEMMA BucketTicks ==
  ASSUME BucketInv, Limiter!Tick
  PROVE  BucketInv'
<1>1. /\ clock' = clock + 1 /\ clock < MaxClock /\ UNCHANGED <<tokens, lastRefill>>
      /\ sent' = [sent EXCEPT ![clock + 1] = sent[clock]]
  BY DEF Limiter!Tick, Limiter!bucket
<1>2. /\ clock' \in 0..MaxClock /\ lastRefill' \in 0..clock' /\ tokens' \in 0..burst
      /\ sent' \in [0..MaxClock -> Nat]
  BY <1>1, LimiterTypes DEF BucketInv
<1>3. sent'[clock'] = sent[clock] /\ \A t \in 0..clock : sent'[t] = sent[t]
  BY <1>1, LimiterTypes DEF BucketInv
<1>4. ASSUME NEW f \in 0..clock
      PROVE  Since(f)' = Since(f)
  <2>1. Limiter!SentBefore(f)' = Limiter!SentBefore(f)
    BY <1>3, <1>4 DEF Limiter!SentBefore, BucketInv
  <2>2. QED
    BY <1>3, <2>1 DEF Since
<1>5. ASSUME NEW f, f = clock + 1
      PROVE  Since(f)' = 0
  BY <1>3, <1>1, <1>5, LimiterTypes DEF Since, Limiter!SentBefore, BucketInv
<1>6. \A f \in 0..clock' : f \in 0..clock \/ f = clock + 1
  BY <1>1 DEF BucketInv
<1>7. \A f : AddedSince(f)' = AddedSince(f)
  BY <1>1 DEF AddedSince
<1>8. ASSUME NEW f \in 0..clock'
      PROVE  /\ Since(f)' \in Nat
             /\ f <= lastRefill' => Since(f)' + tokens' <= burst + AddedSince(f)'
             /\ f > lastRefill' => /\ Since(f)' + tokens' <= burst
                                   /\ Since(f)' > 0 => (f - lastRefill') * maxQps < Second
  <2>1. CASE f \in 0..clock
    BY <1>1, <1>4, <1>7, <2>1 DEF BucketInv
  <2>2. CASE f = clock + 1
    <3>1. Since(f)' = 0
      BY <1>5, <2>2
    <3>2. f > lastRefill' /\ ~(f <= lastRefill')
      BY <1>1, <1>2, <2>2 DEF BucketInv
    <3>3. tokens' \in Nat /\ tokens' <= burst
      BY <1>2, LimiterTypes
    <3>4. 0 + tokens' <= burst
      BY <3>3
    <3>5. QED
      BY <3>1, <3>2, <3>4
  <2>3. QED
    BY <1>6, <2>1, <2>2
<1>9. QED
  BY <1>2, <1>8 DEF BucketInv

LEMMA BucketSends ==
  ASSUME BucketInv, NEW c \in Requests, Limiter!Send(c)
  PROVE  BucketInv'
<1> DEFINE g == Limiter!Gained
           n == (clock - lastRefill) * maxQps
<1>1. /\ Limiter!Refilled > 0 /\ tokens' = Limiter!Refilled - 1
      /\ lastRefill' = IF g > 0 THEN clock ELSE lastRefill
      /\ sent' = [sent EXCEPT ![clock] = sent[clock] + 1] /\ clock' = clock
  BY DEF Limiter!Send, BucketInv
<1>2. n \in Nat /\ g = n \div Second
  <2>1. clock - lastRefill \in Nat
    BY LimiterTypes DEF BucketInv
  <2>2. QED
    BY <2>1, LimiterTypes DEF Limiter!Gained
<1>3. g \in Nat /\ (g = 0 => n < Second)
  <2>1. g \in Nat /\ n < g * Second + Second
    BY <1>2, LimiterTypes, Quotient
  <2>2. QED
    BY <1>2, <2>1, LimiterTypes
<1> HIDE DEF g
<1>4. /\ Limiter!Refilled \in 1..burst /\ Limiter!Refilled <= tokens + g
      /\ g = 0 => Limiter!Refilled = tokens
  BY <1>1, <1>3, LimiterTypes DEF Limiter!Refilled, Limiter!Smaller, BucketInv, g
<1>5. /\ clock' \in 0..MaxClock /\ lastRefill' \in 0..clock' /\ tokens' \in 0..burst
      /\ sent' \in [0..MaxClock -> Nat]
  <2>1. /\ clock \in 0..MaxClock /\ lastRefill \in 0..clock /\ MaxClock \in Nat /\ burst \in Nat
        /\ sent \in [0..MaxClock -> Nat] /\ sent[clock] \in Nat
    BY LimiterTypes DEF BucketInv
  <2>2. clock' \in 0..MaxClock /\ lastRefill' \in 0..clock'
    BY <1>1, <2>1
  <2>3. tokens' \in 0..burst
    <3>1. tokens' = Limiter!Refilled - 1 /\ Limiter!Refilled \in 1..burst
      BY <1>1, <1>4
    <3>2. QED
      BY <2>1, <3>1
  <2>4. sent' \in [0..MaxClock -> Nat]
    <3>1. sent' = [sent EXCEPT ![clock] = sent[clock] + 1] /\ sent[clock] + 1 \in Nat
      BY <1>1, <2>1
    <3>2. QED
      BY <2>1, <3>1
  <2>5. QED
    BY <2>2, <2>3, <2>4
<1>6. sent'[clock] = sent[clock] + 1 /\ \A t \in 0..clock - 1 : sent'[t] = sent[t]
  BY <1>1, LimiterTypes DEF BucketInv
<1>7. ASSUME NEW f \in 0..clock
      PROVE  Since(f)' = Since(f) + 1
  <2>1. Limiter!SentBefore(f)' = Limiter!SentBefore(f)
    BY <1>6, <1>7, LimiterTypes DEF Limiter!SentBefore, BucketInv
  <2>2. Limiter!SentBefore(f) \in Int /\ sent[clock] \in Int
    BY <1>7, LimiterTypes DEF Limiter!SentBefore, BucketInv
  <2>3. QED
    BY <1>1, <1>6, <2>1, <2>2 DEF Since
<1>8. ASSUME NEW f \in 0..clock
      PROVE  /\ Since(f)' \in Nat
             /\ f <= lastRefill' => Since(f)' + tokens' <= burst + AddedSince(f)'
             /\ f > lastRefill' => /\ Since(f)' + tokens' <= burst
                                   /\ Since(f)' > 0 => (f - lastRefill') * maxQps < Second
  <2>1. /\ Since(f) \in Nat /\ Since(f)' = Since(f) + 1
        /\ tokens \in 0..burst /\ lastRefill \in 0..clock /\ clock \in Nat
    BY <1>7, <1>8, LimiterTypes DEF BucketInv
  <2>2. CASE g = 0
    <3>1. lastRefill' = lastRefill /\ Since(f)' + tokens' = Since(f) + tokens
      BY <1>1, <1>4, <2>1, <2>2, LimiterTypes
    <3>2. f > lastRefill => (f - lastRefill) * maxQps <= n
      BY <2>1, LimiterTypes
    <3>3. n < Second
      BY <1>3, <2>2
    <3>4. f > lastRefill => (f - lastRefill) * maxQps < Second
      <4>1. f > lastRefill => (f - lastRefill) * maxQps \in Nat
        BY <2>1, LimiterTypes
      <4> HIDE DEF n
      <4>2. QED
        BY <1>2, <3>2, <3>3, <4>1, LimiterTypes
    <3>5. AddedSince(f)' = AddedSince(f)
      BY <3>1 DEF AddedSince
    <3>6. QED
      BY <1>8, <2>1, <3>1, <3>4, <3>5 DEF BucketInv
  <2>3. CASE g > 0
    <3>1. lastRefill' = clock /\ Since(f)' + tokens' = Since(f) + Limiter!Refilled
      BY <1>1, <1>4, <2>1, <2>3, LimiterTypes
    <3>2. AddedSince(f)' = Limiter!CeilDiv((clock - f) * maxQps, Second)
      BY <3>1 DEF AddedSince
    <3> DEFINE x == (lastRefill - f) * maxQps
               y == (clock - f) * maxQps
    <3>3. y \in Nat /\ AddedSince(f)' \in Nat
      <4>1. y \in Nat
        BY <2>1, LimiterTypes
      <4>2. QED
        BY <3>2, <4>1, LimiterTypes, RoundedUp
    <3>4. CASE f <= lastRefill
      <4>1. x \in Nat /\ x + n = y
        BY <2>1, <3>4, LimiterTypes
      <4> HIDE DEF x, y, n
      <4>2. Limiter!CeilDiv(x, Second) + g <= Limiter!CeilDiv(y, Second)
        BY <1>2, <4>1, LimiterTypes, SumsRound
      <4>3. AddedSince(f) + g <= AddedSince(f)' /\ AddedSince(f) \in Nat
        BY <3>2, <4>1, <4>2, LimiterTypes, RoundedUp DEF AddedSince, x, y
      <4>4. Since(f) + tokens <= burst + AddedSince(f)
        BY <1>8, <3>4 DEF BucketInv
      <4>5. Since(f)' + tokens' <= burst + AddedSince(f)'
        BY <1>3, <1>4, <2>1, <3>1, <3>3, <4>3, <4>4, LimiterTypes
      <4>6. QED
        BY <2>1, <3>1, <4>5
    <3>5. CASE f > lastRefill /\ Since(f) = 0
      <4> HIDE DEF x, y, n
      <4>1. Since(f)' + tokens' <= burst + AddedSince(f)'
        BY <1>4, <3>1, <3>3, <3>5, LimiterTypes
      <4>2. QED
        BY <2>1, <3>1, <4>1
    <3>6. CASE f > lastRefill /\ Since(f) > 0
      <4>1. Since(f) + tokens <= burst /\ (f - lastRefill) * maxQps < Second
        BY <1>8, <3>6 DEF BucketInv
      <4> DEFINE b == (f - lastRefill) * maxQps
      <4>2. b \in Nat /\ y + b = n /\ b < Second
        BY <2>1, <3>6, <4>1, LimiterTypes
      <4> HIDE DEF b, x, y, n
      <4>3. g <= Limiter!CeilDiv(y, Second)
        BY <1>2, <3>3, <4>2, LimiterTypes, SumsRound
      <4>4. g <= AddedSince(f)'
        BY <3>2, <4>3 DEF y
      <4>5. Since(f)' + tokens' <= burst + AddedSince(f)'
        BY <1>3, <1>4, <2>1, <3>1, <3>3, <4>1, <4>4, LimiterTypes
      <4>6. QED
        BY <2>1, <3>1, <4>5
    <3>7. QED
      BY <2>1, <3>4, <3>5, <3>6
  <2>4. QED
    BY <1>3, <2>2, <2>3
<1>9. QED
  BY <1>1, <1>5, <1>8 DEF BucketInv

(* At any rate and bucket and for any number of calls at once, retries       *)
(* after a backoff included: in no stretch of time is the node sent more     *)
(* than the bucket holds and the rate adds.                                  *)
THEOREM RateAlwaysKept == RequestsSpec => []RateKept
<1>1. RequestsInit => BucketInv
  <2> SUFFICES ASSUME RequestsInit PROVE BucketInv
    OBVIOUS
  <2>1. /\ clock = 0 /\ tokens = burst /\ lastRefill = 0
        /\ sent = [t \in 0..MaxClock |-> 0]
    BY DEF RequestsInit, Limiter!Init
  <2>2. /\ clock \in 0..MaxClock /\ lastRefill \in 0..clock /\ tokens \in 0..burst
        /\ sent \in [0..MaxClock -> Nat]
    BY <2>1, LimiterTypes
  <2>3. Since(0) = 0
    BY <2>1, LimiterTypes DEF Since, Limiter!SentBefore
  <2>4. AddedSince(0) \in Nat
    <3>1. (lastRefill - 0) * maxQps = 0
      BY <2>1, LimiterTypes
    <3>2. QED
      BY <3>1, LimiterTypes, RoundedUp DEF AddedSince
  <2>5. \A f \in 0..clock : f = 0
    BY <2>1
  <2>6. QED
    BY <2>1, <2>2, <2>3, <2>4, <2>5, LimiterTypes DEF BucketInv
<1>2. BucketInv /\ [RequestsNext]_requests => BucketInv'
  <2> SUFFICES ASSUME BucketInv, [RequestsNext]_requests PROVE BucketInv'
    OBVIOUS
  <2>1. UNCHANGED limiterVars \/ Limiter!Next
    BY DEF RequestsNext, Session, Replaying, Rate, Starting, Commenting, requests
  <2>2. CASE UNCHANGED <<clock, tokens, lastRefill, sent>>
    BY <2>2 DEF BucketInv, Since, AddedSince, Limiter!SentBefore
  <2>3. CASE Limiter!Next
    <3>1. CASE Limiter!Tick
      BY <3>1, BucketTicks
    <3>2. ASSUME NEW c \in Requests, Limiter!Send(c)
          PROVE  BucketInv'
      BY <3>2, BucketSends
    <3>3. ASSUME NEW c \in Requests,
                 \/ Limiter!Begin(c) \/ Limiter!Wait(c)
                 \/ Limiter!Succeed(c) \/ Limiter!Fail(c) \/ Limiter!Limited(c)
          PROVE  BucketInv'
      BY <2>2, <3>3 DEF Limiter!Begin, Limiter!Wait, Limiter!Succeed, Limiter!Fail,
         Limiter!Limited, Limiter!bucket
    <3>4. QED
      BY <2>3, <3>1, <3>2, <3>3 DEF Limiter!Next
  <2>4. QED
    BY <2>1, <2>2, <2>3 DEF limiterVars
<1>3. BucketInv => RateKept
  <2> SUFFICES ASSUME BucketInv, NEW f \in 0..clock
               PROVE  Since(f) <= burst + Limiter!CeilDiv((clock - f) * maxQps, Second)
    BY DEF RateKept, Limiter!RateKept, Since
  <2> DEFINE x == (lastRefill - f) * maxQps
             y == (clock - f) * maxQps
             n == (clock - lastRefill) * maxQps
  <2>1. /\ Since(f) \in Nat /\ tokens \in 0..burst /\ lastRefill \in 0..clock /\ clock \in Nat
        /\ f <= lastRefill => Since(f) + tokens <= burst + AddedSince(f)
        /\ f > lastRefill => Since(f) + tokens <= burst
    BY LimiterTypes DEF BucketInv
  <2>2. y \in Nat /\ n \in Nat
    BY <2>1, LimiterTypes
  <2>3. CASE f <= lastRefill
    <3>1. x \in Nat /\ x + n = y
      BY <2>1, <2>3, LimiterTypes
    <3> HIDE DEF x, y, n
    <3>2. /\ Limiter!CeilDiv(x, Second) + (n \div Second) <= Limiter!CeilDiv(y, Second)
          /\ Limiter!CeilDiv(x, Second) \in Nat /\ n \div Second \in Nat
          /\ Limiter!CeilDiv(y, Second) \in Nat
      BY <2>2, <3>1, LimiterTypes, SumsRound, RoundedUp, Quotient
    <3>3. AddedSince(f) = Limiter!CeilDiv(x, Second)
      BY DEF AddedSince, x
    <3>4. Since(f) <= burst + Limiter!CeilDiv(y, Second)
      BY <2>1, <2>3, <3>2, <3>3, LimiterTypes
    <3>5. QED
      BY <3>4 DEF y
  <2>4. CASE f > lastRefill
    <3> HIDE DEF y
    <3>1. Limiter!CeilDiv(y, Second) \in Nat
      BY <2>2, LimiterTypes, RoundedUp
    <3>2. Since(f) <= burst + Limiter!CeilDiv(y, Second)
      BY <2>1, <2>4, <3>1, LimiterTypes
    <3>3. QED
      BY <3>2 DEF y
  <2>5. QED
    BY <2>1, <2>3, <2>4
<1>4. QED
  BY <1>1, <1>2, <1>3, PTL DEF RequestsSpec

-----------------------------------------------------------------------------
(* The replay of a pool's history (Backfill, as the run composes it).       *)

LEMMA LeastIs ==
  ASSUME NEW S \in SUBSET Nat, S # {}
  PROVE  Replay!Least(S) \in S /\ \A y \in S : Replay!Least(S) <= y
<1>1. \E x \in S : \A y \in S : x <= y
  <2> DEFINE R == OpToRel(<, Nat)
  <2>1. \E x \in S : \A y \in S : ~(<<y, x>> \in R)
    BY NatLessThanWellFounded, WFMin
  <2>2. \A x, y \in Nat : <<y, x>> \in R <=> y < x
    BY DEF OpToRel
  <2>3. PICK x \in S : \A y \in S : ~(y < x)
    BY <2>1, <2>2
  <2>4. \A y \in S : x <= y
    BY <2>3
  <2>5. QED
    BY <2>4
<1>2. QED
  BY <1>1 DEF Replay!Least

LEMMA ChainIs ==
  /\ Len(Txs) \in Nat /\ DOMAIN Txs = 1..Len(Txs)
  /\ \A t \in 1..Len(Txs) : Txs[t] \in SUBSET Nat /\ Txs[t] \subseteq Replay!Events
  /\ \A e \in Replay!Events : e \in Nat /\ \E t \in 1..Len(Txs) : e \in Txs[t]
  /\ \A t, u \in 1..Len(Txs) : t < u => \A d \in Txs[t], e \in Txs[u] : d < e
  /\ \A e \in Replay!Events : Kind[e] \in {"add", "remove", "trade"}
<1>1. /\ Txs \in Seq(SUBSET Nat) /\ Kind \in [Replay!Events -> {"add", "remove", "trade"}]
      /\ \A t, u \in DOMAIN Txs : t < u => \A d \in Txs[t], e \in Txs[u] : d < e
  BY ReplayAssumption DEF Replay!BackfillAssumption
<1>2. /\ Len(Txs) \in Nat /\ DOMAIN Txs = 1..Len(Txs)
      /\ \A t \in 1..Len(Txs) : Txs[t] \in SUBSET Nat
  BY <1>1
<1>3. QED
  BY <1>1, <1>2 DEF Replay!Events

RowStages == {"trade", "liquidity", "candle"}
ReplayRecords ==
  [pc : {"new", "failed", "receipt", "log", "cleanup", "ok"} \union RowStages,
   list : SUBSET Nat, logs : SUBSET Nat, last : Nat, reserves : [Replay!Events -> Nat]]

(* An event of a listed transaction up to the last, that is passed or is    *)
(* being stored.                                                            *)
Counted(v, d) ==
  /\ Kind[d] # "remove"
  /\ \E t \in 1..v.last : /\ t \notin Unlisted /\ d \in Txs[t]
                          /\ d \in v.logs => d = Replay!Least(v.logs) /\ v.pc \in RowStages

HasRows(e) ==
  Kind[e] # "remove" /\ e \notin skipped =>
    e \in DOMAIN liq /\ (Kind[e] = "trade" => e \in trades)

\* What is left of the list is the rest of the listed history.
ListOK(v) ==
  \A t \in v.list :
    /\ t \in 1..mined /\ t \notin Unlisted /\ v.last < t
    /\ \A u \in v.last + 1..t : u \in Unlisted \/ u \in v.list

\* What is left of a transaction are its last events.
LogsOK(v) ==
  /\ v.logs # {} =>
       /\ v.last \in 1..mined /\ v.last \notin Unlisted /\ v.logs \subseteq Txs[v.last]
       /\ \A d \in Txs[v.last] \ v.logs, e \in v.logs : d < e
  /\ v.pc = "receipt" => v.logs = {}

ReservesOK(v) ==
  \A d \in Replay!Events : v.reserves[d] = IF Counted(v, d) THEN 1 ELSE 0

PassedOK(v) ==
  \A t \in 1..v.last : t \notin Unlisted => \A e \in Txs[t] \ v.logs : HasRows(e)

\* The event whose rows are being stored.
RowOK(v) ==
  LET e == Replay!Least(v.logs)
  IN  /\ v.logs # {} /\ Kind[e] # "remove"
      /\ v.pc \in {"trade", "candle"} => Kind[e] = "trade"
      /\ v.pc # "trade" /\ Kind[e] = "trade" => e \in trades
      /\ v.pc = "candle" => e \in DOMAIN liq

JobOK(v) ==
  /\ v.pc \in {"receipt", "log"} \union RowStages =>
       v.last <= mined /\ ListOK(v) /\ LogsOK(v) /\ ReservesOK(v) /\ PassedOK(v)
  /\ v.pc \in RowStages => RowOK(v)
  /\ v.pc \in {"cleanup", "ok"} => v.last <= mined /\ v.logs = {} /\ PassedOK(v)
  /\ v.pc = "new" => v = Replay!Idle

RowsOK == \A e \in DOMAIN liq : liq[e].by = "backfill" => liq[e].reserves = Replay!Replayed(e)

BackfillInv ==
  /\ mined \in 0..Len(Txs)
  /\ replay \in [Requests -> ReplayRecords]
  /\ RowsOK
  /\ \A r \in Requests : JobOK(replay[r])

(* Rows and transactions that are added disturb no backfill.                *)
Grows ==
  /\ mined' \in 0..Len(Txs) /\ mined <= mined'
  /\ DOMAIN liq \subseteq DOMAIN liq' /\ trades \subseteq trades' /\ skipped \subseteq skipped'

LEMMA OthersStay ==
  ASSUME NEW v \in ReplayRecords, JobOK(v), Grows, mined \in Nat
  PROVE  JobOK(v)'
<1>1. \A e : HasRows(e) => HasRows(e)'
  BY DEF HasRows, Grows
<1>2. PassedOK(v) => PassedOK(v)'
  BY <1>1 DEF PassedOK
<1>3. \A t \in 1..mined : t \in 1..mined'
  BY DEF Grows
<1>4. v.last <= mined => v.last <= mined'
  BY DEF Grows, ReplayRecords
<1>5. ListOK(v) => ListOK(v)'
  BY <1>3 DEF ListOK
<1>6. LogsOK(v) => LogsOK(v)'
  BY <1>3 DEF LogsOK
<1>7. ReservesOK(v) => ReservesOK(v)'
  BY DEF ReservesOK, Counted
<1>8. RowOK(v) => RowOK(v)'
  BY DEF RowOK, Grows
<1>9. QED
  BY <1>2, <1>4, <1>5, <1>6, <1>7, <1>8 DEF JobOK

LEMMA ReplayMoves ==
  ASSUME BackfillInv, Grows, NEW r \in Requests, NEW w \in ReplayRecords,
         replay' = [replay EXCEPT ![r] = w], JobOK(w)', RowsOK'
  PROVE  BackfillInv'
<1>1. replay' \in [Requests -> ReplayRecords]
  BY DEF BackfillInv
<1>2. ASSUME NEW s \in Requests
      PROVE  JobOK(replay[s])'
  <2>1. CASE s = r
    <3>1. replay'[s] = w
      BY <2>1 DEF BackfillInv
    <3>2. QED
      BY <3>1
  <2>2. CASE s # r
    <3>1. replay'[s] = replay[s] /\ replay[s] \in ReplayRecords /\ JobOK(replay[s])
      BY <2>2 DEF BackfillInv
    <3>2. mined \in Nat
      BY ChainIs DEF BackfillInv
    <3>3. PICK v \in ReplayRecords : v = replay[s]
      BY <3>1
    <3>4. JobOK(v)'
      BY <3>1, <3>2, <3>3, OthersStay
    <3>5. QED
      BY <3>1, <3>3, <3>4
  <2>3. QED
    BY <2>1, <2>2
<1>3. QED
  BY <1>1, <1>2 DEF BackfillInv, Grows

(* The same with nothing moved but the tables.                              *)
LEMMA TablesMove ==
  ASSUME BackfillInv, Grows, replay' = replay, RowsOK'
  PROVE  BackfillInv'
<1>1. ASSUME NEW s \in Requests
      PROVE  JobOK(replay[s])'
  <2>1. PICK v \in ReplayRecords : v = replay[s]
    BY DEF BackfillInv
  <2>2. JobOK(v)'
    BY <2>1, OthersStay, ChainIs DEF BackfillInv
  <2>3. QED
    BY <2>1, <2>2
<1>2. QED
  BY <1>1 DEF BackfillInv, Grows

LEMMA SameRows ==
  ASSUME BackfillInv, UNCHANGED <<mined, liq, trades>>, skipped \subseteq skipped'
  PROVE  Grows /\ RowsOK'
BY ChainIs DEF BackfillInv, Grows, RowsOK, Replay!Replayed, Replay!History

LEMMA StageWords ==
  /\ RowStages = {"trade", "liquidity", "candle"}
  /\ "new" \notin RowStages /\ "failed" \notin RowStages /\ "receipt" \notin RowStages
  /\ "log" \notin RowStages /\ "cleanup" \notin RowStages /\ "ok" \notin RowStages
BY DEF RowStages

LEMMA RecordIs ==
  ASSUME BackfillInv, NEW r \in Requests
  PROVE  /\ replay[r] \in ReplayRecords /\ JobOK(replay[r]) /\ replay[r].logs \in SUBSET Nat
         /\ replay[r].list \in SUBSET Nat /\ replay[r].last \in Nat /\ mined \in Nat
         /\ mined <= Len(Txs)
BY ChainIs DEF BackfillInv, ReplayRecords

(* The answer that ends a backfill, or fails it. *)
LEMMA Answered ==
  ASSUME BackfillInv, Grows, RowsOK', NEW r \in Requests, NEW pc \in {"failed", "ok"},
         replay' = [replay EXCEPT ![r].pc = pc],
         pc = "ok" => replay[r].pc = "cleanup"
  PROVE  BackfillInv'
<1>1. PICK w : w = [replay[r] EXCEPT !.pc = pc]
  OBVIOUS
<1>2. /\ w \in ReplayRecords /\ w.pc = pc /\ w.list = replay[r].list
      /\ w.logs = replay[r].logs /\ w.last = replay[r].last
  BY <1>1, RecordIs DEF ReplayRecords
<1>3. replay' = [replay EXCEPT ![r] = w]
  BY <1>1 DEF BackfillInv
<1>4. JobOK(w)
  BY <1>2, RecordIs, StageWords DEF JobOK, PassedOK
<1>5. JobOK(w)'
  BY <1>2, <1>4, OthersStay, RecordIs
<1>6. QED
  BY <1>2, <1>3, <1>5, ReplayMoves

LEMMA AskKeeps ==
  ASSUME BackfillInv, NEW r \in Requests, Replay!Ask(r)
  PROVE  BackfillInv'
<1>1. /\ replay[r].pc = "new" /\ Grows /\ RowsOK'
      /\ UNCHANGED <<mined, liq, trades, skipped>>
  BY SameRows DEF Replay!Ask, Replay!tables
<1>2. CASE Replay!Listed = {}
  BY <1>1, <1>2, Answered DEF Replay!Ask, Replay!Answer
<1>3. CASE Replay!Listed # {}
  <2>1. PICK w : w = [replay[r] EXCEPT !.pc = "receipt", !.list = Replay!Listed]
    OBVIOUS
  <2>2. replay' = [replay EXCEPT ![r] = w]
    <3>1. replay' = [replay EXCEPT ![r].pc = "receipt", ![r].list = Replay!Listed]
      BY <1>3 DEF Replay!Ask
    <3>2. [replay EXCEPT ![r].pc = "receipt", ![r].list = Replay!Listed]
          = [replay EXCEPT ![r] = w]
      BY <2>1 DEF BackfillInv
    <3>3. QED
      BY <3>1, <3>2
  <2>0. replay[r] = Replay!Idle /\ replay[r] \in ReplayRecords
    BY <1>1, RecordIs DEF JobOK
  <2>3. /\ replay[r] \in ReplayRecords
        /\ replay[r].logs = {} /\ replay[r].last = 0 /\ replay[r].reserves = Replay!None
    BY <2>0 DEF Replay!Idle
  <2>4. Replay!Listed = (1..mined) \ Unlisted /\ Replay!Listed \in SUBSET Nat
    BY RecordIs DEF Replay!Listed
  <2>5. /\ w \in ReplayRecords /\ w.pc = "receipt" /\ w.list = Replay!Listed
        /\ w.logs = {} /\ w.last = 0 /\ w.reserves = Replay!None
    BY <2>1, <2>3, <2>4 DEF ReplayRecords
  <2>6. ListOK(w) /\ LogsOK(w) /\ PassedOK(w)
    BY <2>4, <2>5, RecordIs DEF ListOK, LogsOK, PassedOK
  <2>7. ReservesOK(w)
    BY <2>5 DEF ReservesOK, Counted, Replay!None
  <2>8. JobOK(w)
    BY <2>5, <2>6, <2>7, RecordIs, StageWords DEF JobOK
  <2>9. JobOK(w)'
    BY <2>5, <2>8, <1>1, OthersStay, RecordIs
  <2>10. QED
    BY <1>1, <2>2, <2>5, <2>9, ReplayMoves
<1>4. QED
  BY <1>2, <1>3

(* The next transaction of the list: nothing listed lies between.           *)
LEMMA ReceiptKeeps ==
  ASSUME BackfillInv, NEW r \in Requests, Replay!Receipt(r)
  PROVE  BackfillInv'
<1> DEFINE v == replay[r]
<1>1. PICK t : t = Replay!Least(v.list)
  OBVIOUS
<1>2. /\ v.pc = "receipt" /\ v.list # {} /\ Grows /\ RowsOK'
      /\ replay' = [replay EXCEPT ![r].pc = "log", ![r].list = v.list \ {t},
                                  ![r].logs = Txs[t], ![r].last = t]
  <2>1. UNCHANGED <<mined, liq, trades, skipped>> /\ v.pc = "receipt" /\ v.list # {}
    BY DEF Replay!Receipt, Replay!tables
  <2>2. replay' = [replay EXCEPT ![r].pc = "log", ![r].list = v.list \ {t},
                                  ![r].logs = Txs[t], ![r].last = t]
    BY <1>1 DEF Replay!Receipt, BackfillInv
  <2>3. QED
    BY <2>1, <2>2, SameRows
<1>3. PICK w : w = [v EXCEPT !.pc = "log", !.list = v.list \ {t}, !.logs = Txs[t], !.last = t]
  OBVIOUS
<1>4. replay' = [replay EXCEPT ![r] = w]
  <2>1. [replay EXCEPT ![r].pc = "log", ![r].list = v.list \ {t}, ![r].logs = Txs[t],
                       ![r].last = t] = [replay EXCEPT ![r] = w]
    BY <1>3 DEF BackfillInv
  <2>2. QED
    BY <1>2, <2>1
<1>5. /\ v \in ReplayRecords /\ JobOK(v) /\ v.list \in SUBSET Nat /\ v.last \in Nat
      /\ mined \in Nat /\ mined <= Len(Txs)
  BY RecordIs
<1> HIDE DEF v
<1>6. t \in v.list /\ \A u \in v.list : t <= u
  BY <1>1, <1>2, <1>5, LeastIs
<1>7. /\ v.last <= mined /\ ListOK(v) /\ LogsOK(v) /\ ReservesOK(v) /\ PassedOK(v)
      /\ v.logs = {}
  BY <1>2, <1>5 DEF JobOK, LogsOK
<1>8. /\ t \in 1..mined /\ t \in 1..Len(Txs) /\ t \notin Unlisted /\ v.last < t
      /\ Txs[t] \in SUBSET Nat /\ t \in Nat
      /\ \A u \in v.last + 1..t : u \in Unlisted \/ u \in v.list
  BY <1>5, <1>6, <1>7, ChainIs DEF ListOK
<1>9. /\ w \in ReplayRecords /\ w.pc = "log" /\ w.list = v.list \ {t} /\ w.logs = Txs[t]
      /\ w.last = t /\ w.reserves = v.reserves
  BY <1>3, <1>5, <1>8 DEF ReplayRecords
<1>10. ListOK(w)
  <2> SUFFICES ASSUME NEW u \in v.list \ {t}
               PROVE  /\ u \in 1..mined /\ u \notin Unlisted /\ t < u
                      /\ \A k \in t + 1..u : k \in Unlisted \/ k \in v.list \ {t}
    BY <1>9 DEF ListOK
  <2>1. /\ u \in 1..mined /\ u \notin Unlisted
        /\ \A k \in v.last + 1..u : k \in Unlisted \/ k \in v.list
    BY <1>7 DEF ListOK
  <2>2. t < u
    BY <1>6, <1>8, <2>1
  <2>3. \A k \in t + 1..u : k \in v.last + 1..u /\ k # t
    BY <1>5, <1>8, <2>1
  <2>4. QED
    BY <2>1, <2>2, <2>3
\* What is listed up to t is t or was passed.
<1>11. \A u \in 1..t : u \notin Unlisted => u = t \/ u \in 1..v.last
  <2> SUFFICES ASSUME NEW u \in 1..t, u \notin Unlisted, u # t, ~(u \in 1..v.last)
               PROVE  FALSE
    OBVIOUS
  <2>1. u \in v.last + 1..t /\ ~(t <= u)
    BY <1>5, <1>8
  <2>2. QED
    BY <1>6, <1>8, <2>1
<1>12. PassedOK(w)
  BY <1>7, <1>9, <1>11 DEF PassedOK
<1>13. LogsOK(w)
  BY <1>8, <1>9 DEF LogsOK
<1>14. ReservesOK(w)
  <2> SUFFICES ASSUME NEW d \in Replay!Events
               PROVE  Counted(w, d) <=> Counted(v, d)
    BY <1>7, <1>9 DEF ReservesOK
  <2>1. ASSUME Counted(w, d) PROVE Counted(v, d)
    <3>1. PICK u \in 1..t : u \notin Unlisted /\ d \in Txs[u] /\ d \notin Txs[t]
      BY <1>9, <2>1, StageWords DEF Counted
    <3>2. u \in 1..v.last
      BY <1>11, <3>1
    <3>3. QED
      BY <1>7, <2>1, <3>1, <3>2 DEF Counted
  <2>2. ASSUME Counted(v, d) PROVE Counted(w, d)
    <3>1. PICK u \in 1..v.last : u \notin Unlisted /\ d \in Txs[u]
      BY <1>7, <2>2 DEF Counted
    <3>2. u \in 1..Len(Txs) /\ u < t /\ u \in 1..t
      BY <1>5, <1>8, <3>1
    <3>3. d \notin Txs[t]
      <4>1. SUFFICES ASSUME d \in Txs[t] PROVE FALSE
        OBVIOUS
      <4>2. d < d /\ d \in Nat
        BY <1>8, <3>1, <3>2, <4>1, ChainIs
      <4>3. QED
        BY <4>2
    <3>4. QED
      BY <1>9, <2>2, <3>1, <3>2, <3>3 DEF Counted
  <2>3. QED
    BY <2>1, <2>2
<1>15. JobOK(w)
  BY <1>8, <1>9, <1>10, <1>12, <1>13, <1>14, StageWords DEF JobOK
<1>16. JobOK(w)'
  BY <1>2, <1>5, <1>9, <1>15, OthersStay
<1>17. QED
  BY <1>2, <1>4, <1>9, <1>16, ReplayMoves

(* What holds of a backfill that is at an event.                            *)
LEMMA AtEvent ==
  ASSUME BackfillInv, NEW r \in Requests, NEW v, v = replay[r],
         v.pc \in {"log"} \union RowStages, v.logs # {}
  PROVE  /\ v \in ReplayRecords /\ v.last <= mined /\ mined \in Nat
         /\ ListOK(v) /\ LogsOK(v) /\ ReservesOK(v) /\ PassedOK(v)
         /\ v.pc \in RowStages => RowOK(v)
         /\ v.last \in 1..Len(Txs) /\ v.last \notin Unlisted
         /\ v.logs \subseteq Txs[v.last] /\ v.logs \in SUBSET Nat
         /\ \A d \in Txs[v.last] \ v.logs, e \in v.logs : d < e
         /\ Replay!Least(v.logs) \in v.logs /\ \A e \in v.logs : Replay!Least(v.logs) <= e
         /\ Replay!Least(v.logs) \in Replay!Events
<1>1. /\ v \in ReplayRecords /\ JobOK(v) /\ v.logs \in SUBSET Nat
      /\ v.last \in Nat /\ mined \in Nat /\ mined <= Len(Txs)
  BY RecordIs
<1>2. /\ v.last <= mined /\ ListOK(v) /\ LogsOK(v) /\ ReservesOK(v) /\ PassedOK(v)
      /\ v.pc \in RowStages => RowOK(v)
  BY <1>1 DEF JobOK
<1>3. /\ v.last \in 1..Len(Txs) /\ v.last \notin Unlisted
      /\ v.logs \subseteq Txs[v.last]
      /\ \A d \in Txs[v.last] \ v.logs, e \in v.logs : d < e
  BY <1>1, <1>2, ChainIs DEF LogsOK
<1>4. Replay!Least(v.logs) \in v.logs /\ \A e \in v.logs : Replay!Least(v.logs) <= e
  BY <1>1, LeastIs
<1>5. Replay!Least(v.logs) \in Replay!Events
  BY <1>3, <1>4, ChainIs
<1>6. QED
  BY <1>1, <1>2, <1>3, <1>4, <1>5

(* The event that is done with leaves its transaction.                      *)
LEMMA NextLogKeeps ==
  ASSUME BackfillInv, Grows, RowsOK', NEW r \in Requests,
         replay[r].pc \in {"log"} \union RowStages, replay[r].logs # {}, Replay!NextLog(r),
         NEW e, e = Replay!Least(replay[r].logs), HasRows(e)',
         replay[r].pc = "log" => Kind[e] = "remove"
  PROVE  BackfillInv'
<1>1. PICK v : v = replay[r]
  OBVIOUS
<1>2. /\ v \in ReplayRecords /\ v.last <= mined /\ mined \in Nat
      /\ ListOK(v) /\ LogsOK(v) /\ ReservesOK(v) /\ PassedOK(v)
      /\ v.last \in 1..Len(Txs) /\ v.last \notin Unlisted
      /\ v.logs \subseteq Txs[v.last] /\ v.logs \in SUBSET Nat
      /\ \A d \in Txs[v.last] \ v.logs, f \in v.logs : d < f
      /\ e \in v.logs /\ \A f \in v.logs : e <= f
      /\ v.pc \in {"log"} \union RowStages
  BY <1>1, AtEvent
<1>3. PICK w : w = [v EXCEPT !.pc = "log", !.logs = v.logs \ {e}]
  OBVIOUS
<1>4. replay' = [replay EXCEPT ![r] = w]
  <2>1. replay' = [replay EXCEPT ![r].pc = "log", ![r].logs = v.logs \ {e}]
    BY <1>1 DEF Replay!NextLog, Replay!E, BackfillInv
  <2>2. [replay EXCEPT ![r].pc = "log", ![r].logs = v.logs \ {e}] = [replay EXCEPT ![r] = w]
    BY <1>1, <1>3 DEF BackfillInv
  <2>3. QED
    BY <2>1, <2>2
<1>5. /\ w \in ReplayRecords /\ w.pc = "log" /\ w.list = v.list /\ w.logs = v.logs \ {e}
      /\ w.last = v.last /\ w.reserves = v.reserves
  BY <1>2, <1>3 DEF ReplayRecords
<1>6. ListOK(w)'
  BY <1>2, <1>5 DEF ListOK, Grows
<1>7. LogsOK(w)'
  <2>1. \A d \in Txs[v.last] \ w.logs, f \in w.logs : d < f
    <3> SUFFICES ASSUME NEW d \in Txs[v.last] \ w.logs, NEW f \in w.logs
                 PROVE  d < f
      OBVIOUS
    <3>1. f \in v.logs /\ f # e /\ (d = e \/ d \in Txs[v.last] \ v.logs)
      BY <1>5
    <3>2. CASE d = e
      BY <1>2, <3>1, <3>2
    <3>3. QED
      BY <1>2, <3>1, <3>2
  <2>2. v.last \in 1..mined'
    BY <1>2 DEF Grows
  <2>3. QED
    BY <1>2, <1>5, <2>1, <2>2 DEF LogsOK
<1>8. \A d \in Replay!Events : Counted(w, d) <=> Counted(v, d)
  <2> SUFFICES ASSUME NEW d \in Replay!Events
               PROVE  Counted(w, d) <=> Counted(v, d)
    OBVIOUS
  <2>1. CASE d # e
    <3>1. d \in w.logs <=> d \in v.logs
      BY <1>5, <2>1
    <3>2. ~(Counted(v, d) /\ d \in v.logs) /\ ~(Counted(w, d) /\ d \in v.logs)
      BY <1>1, <1>5, <2>1, <3>1, StageWords DEF Counted
    <3>3. QED
      BY <1>5, <3>1, <3>2 DEF Counted
  <2>2. CASE d = e
    <3>1. Kind[e] # "remove" => Counted(v, e)
      BY <1>1, <1>2 DEF Counted
    <3>2. Kind[e] # "remove" => Counted(w, e)
      BY <1>2, <1>5 DEF Counted
    <3>3. QED
      BY <2>2, <3>1, <3>2 DEF Counted
  <2>3. QED
    BY <2>1, <2>2
<1>9. ReservesOK(w)'
  BY <1>2, <1>5, <1>8, ZenonT(40) DEF ReservesOK, Counted
<1>10. PassedOK(w)'
  <2>1. \A f : HasRows(f) => HasRows(f)'
    BY DEF HasRows, Grows
  <2>2. QED
    BY <1>2, <1>5, <2>1 DEF PassedOK
<1>11. w.last <= mined'
  BY <1>2, <1>5 DEF Grows
<1>12. JobOK(w)'
  BY <1>5, <1>6, <1>7, <1>9, <1>10, <1>11, StageWords DEF JobOK
<1>13. QED
  BY <1>4, <1>5, <1>12, ReplayMoves

(* A backfill that goes on with the same event or list. *)
LEMMA JobGoesOn ==
  ASSUME BackfillInv, Grows, RowsOK', NEW r \in Requests, NEW pc \in {"receipt", "cleanup", "liquidity", "candle"},
         replay' = [replay EXCEPT ![r].pc = pc],
         LET v == replay[r]
             e == Replay!Least(v.logs)
         IN  \/ pc = "receipt" /\ v.pc = "log" /\ v.logs = {}
             \/ pc = "cleanup" /\ v.pc = "receipt"
             \/ /\ pc \in RowStages /\ v.pc \in RowStages
                /\ pc = "candle" => Kind[e] = "trade" /\ e \in DOMAIN liq'
                /\ Kind[e] = "trade" => e \in trades'
  PROVE  BackfillInv'
<1>1. PICK v : v = replay[r]
  OBVIOUS
<1>2. PICK w : w = [v EXCEPT !.pc = pc]
  OBVIOUS
<1>3. /\ v \in ReplayRecords /\ JobOK(v) /\ mined \in Nat
  BY <1>1, RecordIs
<1>4. /\ w \in ReplayRecords /\ w.pc = pc /\ w.list = v.list
      /\ w.logs = v.logs /\ w.last = v.last /\ w.reserves = v.reserves
  BY <1>2, <1>3, StageWords DEF ReplayRecords
<1>5. replay' = [replay EXCEPT ![r] = w]
  BY <1>1, <1>2 DEF BackfillInv
<1>6. JobOK(v)'
  BY <1>3, OthersStay
<1>7. v.pc \in {"receipt", "log"} \union RowStages
  BY <1>1
<1>8. /\ v.last <= mined' /\ ListOK(v)' /\ LogsOK(v)' /\ ReservesOK(v)' /\ PassedOK(v)'
      /\ v.pc \in RowStages => RowOK(v)'
  BY <1>6, <1>7 DEF JobOK
<1>9. ListOK(w)' /\ PassedOK(w)'
  BY <1>4, <1>8 DEF ListOK, PassedOK
<1>10. LogsOK(w)'
  BY <1>1, <1>4, <1>8, StageWords DEF LogsOK
<1>11. pc # "cleanup" => ReservesOK(w)'
  BY <1>1, <1>4, <1>8, StageWords DEF ReservesOK, Counted
<1>12. pc \in RowStages => RowOK(w)'
  BY <1>1, <1>4, <1>8, StageWords DEF RowOK
<1>13. pc = "cleanup" => w.logs = {}
  BY <1>1, <1>4, <1>8, StageWords DEF LogsOK
<1>14. JobOK(w)'
  BY <1>4, <1>8, <1>9, <1>10, <1>11, <1>12, <1>13, StageWords DEF JobOK
<1>15. QED
  BY <1>4, <1>5, <1>14, ReplayMoves

(* An event is counted once.                                                *)
LEMMA CountKeeps ==
  ASSUME BackfillInv, Grows, RowsOK', NEW r \in Requests,
         replay[r].pc = "log", replay[r].logs # {}, replay' = Replay!CountLog(r),
         Kind[Replay!Least(replay[r].logs)] # "remove"
  PROVE  BackfillInv'
<1>1. PICK v : v = replay[r]
  OBVIOUS
<1>2. PICK e : e = Replay!Least(v.logs)
  OBVIOUS
<1>3. /\ v \in ReplayRecords /\ v.last <= mined /\ mined \in Nat /\ v.pc = "log"
      /\ ListOK(v) /\ LogsOK(v) /\ ReservesOK(v) /\ PassedOK(v)
      /\ v.last \in 1..Len(Txs) /\ v.last \notin Unlisted
      /\ v.logs \subseteq Txs[v.last] /\ e \in v.logs /\ e \in Replay!Events
  BY <1>1, <1>2, AtEvent
<1>4. PICK pc : pc = IF Kind[e] = "trade" THEN "trade" ELSE "liquidity"
  OBVIOUS
<1>5. PICK w : w = [v EXCEPT !.pc = pc, !.reserves = Replay!Plus(v.reserves, e)]
  OBVIOUS
<1>6. replay' = [replay EXCEPT ![r] = w]
  <2>1. replay' = [replay EXCEPT ![r].pc = pc, ![r].reserves = Replay!Plus(v.reserves, e)]
    BY <1>1, <1>2, <1>4 DEF Replay!CountLog, Replay!E, BackfillInv
  <2>2. [replay EXCEPT ![r].pc = pc, ![r].reserves = Replay!Plus(v.reserves, e)]
        = [replay EXCEPT ![r] = w]
    BY <1>1, <1>5 DEF BackfillInv
  <2>3. QED
    BY <2>1, <2>2
<1>7. pc \in RowStages \ {"candle"} /\ (pc = "trade" <=> Kind[e] = "trade")
  BY <1>4, StageWords
<1>8. v.reserves \in [Replay!Events -> Nat]
  BY <1>3 DEF ReplayRecords
<1>9. PICK f \in [Replay!Events -> Nat] : f = Replay!Plus(v.reserves, e)
  <2>1. \A g \in [Replay!Events -> Nat] : Replay!Plus(g, e) \in [Replay!Events -> Nat]
    BY <1>3 DEF Replay!Plus
  <2>2. QED
    BY <1>8, <2>1
<1>10. \A d \in Replay!Events : f[d] = IF d = e THEN v.reserves[d] + 1 ELSE v.reserves[d]
  BY <1>3, <1>8, <1>9 DEF Replay!Plus
<1>11. /\ w \in ReplayRecords /\ w.pc = pc /\ w.list = v.list /\ w.logs = v.logs
       /\ w.last = v.last /\ w.reserves = f
  BY <1>3, <1>5, <1>7, <1>9 DEF ReplayRecords
<1>12. \A d \in Replay!Events : Counted(w, d) <=> Counted(v, d) \/ d = e
  <2> SUFFICES ASSUME NEW d \in Replay!Events
               PROVE  Counted(w, d) <=> Counted(v, d) \/ d = e
    OBVIOUS
  <2>1. CASE d # e
    BY <1>2, <1>3, <1>11, <2>1, StageWords DEF Counted
  <2>2. CASE d = e
    BY <1>1, <1>2, <1>3, <1>7, <1>11, <2>2 DEF Counted
  <2>3. QED
    BY <2>1, <2>2
<1>13. ~Counted(v, e)
  BY <1>3, StageWords DEF Counted
<1>14. ReservesOK(w)
  <2> SUFFICES ASSUME NEW d \in Replay!Events
               PROVE  f[d] = IF Counted(w, d) THEN 1 ELSE 0
    BY <1>11 DEF ReservesOK
  <2>1. v.reserves[d] = IF Counted(v, d) THEN 1 ELSE 0
    BY <1>3 DEF ReservesOK
  <2>2. QED
    BY <1>10, <1>12, <1>13, <2>1
<1>15. ListOK(w) /\ PassedOK(w)
  BY <1>3, <1>11 DEF ListOK, PassedOK
<1>16. LogsOK(w)
  BY <1>3, <1>7, <1>11, StageWords DEF LogsOK
<1>17. RowOK(w)
  BY <1>1, <1>2, <1>3, <1>7, <1>11, StageWords DEF RowOK
<1>18. JobOK(w)
  BY <1>3, <1>7, <1>11, <1>14, <1>15, <1>16, <1>17, StageWords DEF JobOK
<1>19. JobOK(w)'
  BY <1>3, <1>11, <1>18, OthersStay
<1>20. QED
  BY <1>6, <1>11, <1>19, ReplayMoves

LEMMA PutIs ==
  ASSUME NEW e, NEW by, NEW reserves, Replay!Put(e, by, reserves)
  PROVE  /\ DOMAIN liq' = DOMAIN liq \union {e}
         /\ \A d \in DOMAIN liq : liq'[d] = liq[d]
         /\ e \notin DOMAIN liq => liq'[e] = [by |-> by, reserves |-> reserves]
<1>1. CASE e \in DOMAIN liq
  BY <1>1 DEF Replay!Put
<1>2. CASE e \notin DOMAIN liq
  <2>1. liq' = [d \in DOMAIN liq \union {e} |->
                  IF d = e THEN [by |-> by, reserves |-> reserves] ELSE liq[d]]
    BY <1>2 DEF Replay!Put
  <2>2. QED
    BY <1>2, <2>1
<1>3. QED
  BY <1>1, <1>2

LEMMA RowKept ==
  ASSUME BackfillInv, NEW e, NEW by, NEW reserves, Replay!Put(e, by, reserves),
         by = "backfill" => reserves = Replay!Replayed(e)
  PROVE  RowsOK'
<1>1. \A d \in DOMAIN liq' : liq'[d].by = "backfill" => liq'[d].reserves = Replay!Replayed(d)
  <2> TAKE d \in DOMAIN liq'
  <2>1. CASE d \in DOMAIN liq
    BY <2>1, PutIs DEF BackfillInv, RowsOK
  <2>2. CASE d \notin DOMAIN liq
    <3>1. d = e /\ liq'[e] = [by |-> by, reserves |-> reserves]
      BY <2>2, PutIs
    <3>2. QED
      BY <3>1
  <2>3. QED
    BY <2>1, <2>2
<1>2. QED
  BY <1>1 DEF RowsOK, Replay!Replayed, Replay!History

(* What the backfill counts when it stores an event is the listed history   *)
(* up to it.                                                                *)
LEMMA CountedIsReplayed ==
  ASSUME BackfillInv, NEW r \in Requests, NEW v, v = replay[r],
         v.pc \in RowStages, v.logs # {}
  PROVE  v.reserves = Replay!Replayed(Replay!Least(v.logs))
<1>1. PICK e : e = Replay!Least(v.logs)
  OBVIOUS
<1>2. /\ v \in ReplayRecords /\ v.last \in 1..Len(Txs) /\ v.last \notin Unlisted
      /\ ReservesOK(v) /\ v.logs \subseteq Txs[v.last]
      /\ e \in v.logs /\ \A f \in v.logs : e <= f
      /\ \A d \in Txs[v.last] \ v.logs, f \in v.logs : d < f
      /\ e \in Nat /\ e \in Txs[v.last]
  BY <1>1, AtEvent, ChainIs
<1> DEFINE listed(d) == \E t \in DOMAIN Txs \ Unlisted : d \in Txs[t]
<1>3. ASSUME NEW d \in Replay!Events
      PROVE  Counted(v, d) <=> d <= e /\ Kind[d] # "remove" /\ listed(d)
  <2>1. ASSUME Counted(v, d) PROVE d <= e /\ Kind[d] # "remove" /\ listed(d)
    <3>1. PICK t \in 1..v.last : /\ t \notin Unlisted /\ d \in Txs[t]
                                 /\ d \in v.logs => d = e
      BY <1>1, <2>1 DEF Counted
    <3>2. t \in 1..Len(Txs) /\ t \in DOMAIN Txs /\ d \in Nat
      BY <1>2, <3>1, ChainIs
    <3>3. CASE t < v.last
      BY <1>2, <2>1, <3>1, <3>2, <3>3, ChainIs, SMTT(20) DEF Counted
    <3>4. CASE t = v.last
      BY <1>2, <2>1, <3>1, <3>2, <3>4 DEF Counted
    <3>5. QED
      BY <1>2, <3>2, <3>3, <3>4
  <2>2. ASSUME d <= e, Kind[d] # "remove", listed(d) PROVE Counted(v, d)
    <3>1. PICK t \in DOMAIN Txs \ Unlisted : d \in Txs[t]
      BY <2>2
    <3>2. t \in 1..Len(Txs) /\ d \in Nat
      BY <3>1, ChainIs
    <3>3. t <= v.last
      <4> SUFFICES ASSUME v.last < t PROVE FALSE
        BY <1>2, <3>2
      <4>1. e < d
        BY <1>2, <3>1, <3>2, ChainIs
      <4>2. QED
        BY <1>2, <2>2, <3>2, <4>1
    <3>4. d \in v.logs => d = e
      BY <1>2, <2>2, <3>2
    <3>5. t \in 1..v.last
      BY <1>2, <3>2, <3>3
    <3>6. QED
      BY <1>1, <2>2, <3>1, <3>4, <3>5 DEF Counted
  <2>3. QED
    BY <2>1, <2>2
<1>4. v.reserves \in [Replay!Events -> Nat]
  BY <1>2 DEF ReplayRecords
<1> HIDE DEF listed
<1>5. \A d \in Replay!Events :
        v.reserves[d] = IF d <= e /\ Kind[d] # "remove" /\ listed(d) THEN 1 ELSE 0
  BY <1>2, <1>3 DEF ReservesOK
<1>6. Replay!Replayed(e) = [d \in Replay!Events |->
                            IF d <= e /\ Kind[d] # "remove" /\ listed(d) THEN 1 ELSE 0]
  BY DEF Replay!Replayed, Replay!History, listed
<1> DEFINE g(d) == IF d <= e /\ Kind[d] # "remove" /\ listed(d) THEN 1 ELSE 0
<1>7. v.reserves = [d \in Replay!Events |-> g(d)]
  <2> HIDE DEF g
  <2>1. \A d \in Replay!Events : v.reserves[d] = g(d)
    BY <1>5 DEF g
  <2>2. QED
    BY <1>4, <2>1
<1>8. QED
  BY <1>1, <1>6, <1>7

LEMMA HandlerKeeps ==
  ASSUME BackfillInv, NEW r \in Requests, Replay!Handler(r)
  PROVE  BackfillInv'
<1>1. PICK v : v = replay[r]
  OBVIOUS
<1>2. PICK e : e = Replay!Least(v.logs)
  OBVIOUS
<1>3. ASSUME UNCHANGED <<mined, liq, trades, skipped>>
      PROVE  Grows /\ RowsOK'
  BY <1>3, SameRows
<1>4. CASE Replay!Receipt(r)
  BY <1>4, ReceiptKeeps
<1>5. CASE Replay!ReceiptFails(r)
  BY <1>3, <1>5, Answered DEF Replay!ReceiptFails, Replay!Answer, Replay!tables
<1>6. CASE Replay!DecodeLog(r)
  <2>1. /\ v.pc = "log" /\ v.logs # {} /\ Grows /\ RowsOK'
        /\ IF Kind[e] = "remove" THEN Replay!NextLog(r) ELSE replay' = Replay!CountLog(r)
    BY <1>1, <1>2, <1>3, <1>6 DEF Replay!DecodeLog, Replay!At, Replay!E, Replay!tables
  <2>2. Kind[e] = "remove" => HasRows(e)'
    BY DEF HasRows
  <2>3. QED
    BY <1>1, <1>2, <2>1, <2>2, NextLogKeeps, CountKeeps
<1>7. CASE Replay!InsertTrade(r)
  <2>1. /\ v.pc = "trade" /\ v.logs # {} /\ trades' = trades \union {e}
        /\ replay' = [replay EXCEPT ![r].pc = "liquidity"]
        /\ UNCHANGED <<mined, liq, skipped>>
    BY <1>1, <1>2, <1>7 DEF Replay!InsertTrade, Replay!At, Replay!E
  <2>2. Grows /\ RowsOK'
    BY <2>1, ChainIs DEF BackfillInv, Grows, RowsOK, Replay!Replayed, Replay!History
  <2>3. QED
    BY <1>1, <1>2, <2>1, <2>2, JobGoesOn DEF RowStages
<1>8. CASE Replay!InsertLiquidityEvent(r)
  <2>1. /\ v.pc = "liquidity" /\ v.logs # {} /\ Replay!Put(e, "backfill", v.reserves)
        /\ IF Kind[e] = "trade" THEN replay' = [replay EXCEPT ![r].pc = "candle"]
                                ELSE Replay!NextLog(r)
        /\ UNCHANGED <<mined, trades, skipped>>
    BY <1>1, <1>2, <1>8 DEF Replay!InsertLiquidityEvent, Replay!At, Replay!E
  <2>2. v.pc \in RowStages /\ v.pc # "log"
    BY <2>1 DEF RowStages
  <2>3. v.reserves = Replay!Replayed(e) /\ RowOK(v)
    BY <1>1, <1>2, <2>1, <2>2, CountedIsReplayed, AtEvent
  <2>4. RowsOK'
    BY <2>1, <2>3, RowKept
  <2>5. Grows /\ e \in DOMAIN liq'
    <3>1. DOMAIN liq' = DOMAIN liq \union {e}
      BY <2>1, PutIs
    <3>2. mined \in 0..Len(Txs) /\ mined' = mined /\ mined \in Nat
      BY <2>1, ChainIs DEF BackfillInv
    <3>3. QED
      BY <2>1, <3>1, <3>2 DEF Grows
  <2>6. CASE Kind[e] = "trade"
    <3>1. e \in trades'
      BY <1>2, <2>1, <2>3, <2>6 DEF RowOK
    <3>2. QED
      BY <1>1, <1>2, <2>1, <2>2, <2>4, <2>5, <2>6, <3>1, JobGoesOn DEF RowStages
  <2>7. CASE Kind[e] # "trade"
    <3>1. HasRows(e)'
      BY <2>5, <2>7 DEF HasRows
    <3>2. QED
      BY <1>1, <1>2, <2>1, <2>2, <2>4, <2>5, <2>7, <3>1, NextLogKeeps
  <2>8. QED
    BY <2>6, <2>7
<1>9. CASE Replay!UpsertCandle(r)
  <2>1. /\ v.pc = "candle" /\ v.logs # {} /\ Replay!NextLog(r)
        /\ UNCHANGED <<mined, liq, trades, skipped>>
    BY <1>1, <1>9 DEF Replay!UpsertCandle, Replay!At
  <2>2. v.pc \in RowStages /\ v.pc # "log"
    BY <2>1 DEF RowStages
  <2>3. RowOK(v)
    BY <1>1, <2>1, <2>2, AtEvent
  <2>4. HasRows(e)'
    BY <1>2, <2>1, <2>3 DEF RowOK, HasRows
  <2>5. QED
    BY <1>1, <1>2, <1>3, <2>1, <2>2, <2>4, NextLogKeeps
<1>10. CASE Replay!InsertFails(r)
  <2>1. /\ v.pc \in RowStages /\ v.logs # {} /\ Replay!NextLog(r)
        /\ UNCHANGED <<mined, liq, trades>> /\ skipped' = skipped \union {e}
    BY <1>1, <1>2, <1>10 DEF Replay!InsertFails, Replay!At, Replay!E, Replay!tables, RowStages
  <2>2. v.pc # "log"
    BY <2>1, StageWords
  <2>3. Grows /\ RowsOK'
    BY <2>1, SameRows
  <2>4. HasRows(e)'
    BY <2>1 DEF HasRows
  <2>5. QED
    BY <1>1, <1>2, <2>1, <2>2, <2>3, <2>4, NextLogKeeps
<1>11. CASE Replay!EndOfReceipt(r)
  BY <1>3, <1>11, JobGoesOn DEF Replay!EndOfReceipt, Replay!tables
<1>12. CASE Replay!StoreCursor(r)
  BY <1>3, <1>12, JobGoesOn DEF Replay!StoreCursor, Replay!tables
<1>13. CASE Replay!Cleanup(r)
  BY <1>3, <1>13, Answered DEF Replay!Cleanup, Replay!Answer, Replay!tables
<1>14. QED
  BY <1>4, <1>5, <1>6, <1>7, <1>8, <1>9, <1>10, <1>11, <1>12, <1>13 DEF Replay!Handler

LEMMA ReplaySteps ==
  ASSUME BackfillInv, Replay!Next
  PROVE  BackfillInv'
<1>1. CASE Replay!Mine
  <2>1. /\ mined < Len(Txs) /\ mined' = mined + 1
        /\ UNCHANGED <<liq, trades, skipped, replay>>
    BY <1>1 DEF Replay!Mine, Replay!tables
  <2>2. Grows /\ RowsOK'
    BY <2>1, ChainIs DEF BackfillInv, Grows, RowsOK, Replay!Replayed, Replay!History
  <2>3. QED
    BY <2>1, <2>2, TablesMove
<1>2. CASE Replay!SweepAsked \/ Replay!Swept
  <2>1. UNCHANGED <<mined, liq, trades, skipped, replay>>
    BY <1>2 DEF Replay!SweepAsked, Replay!Swept, Replay!tables
  <2>2. QED
    BY <2>1, SameRows, TablesMove
<1>3. ASSUME NEW e \in Replay!Events, Replay!Indexed(e)
      PROVE  BackfillInv'
  <2>1. /\ Replay!Put(e, "indexer", Replay!None) /\ trades \subseteq trades'
        /\ UNCHANGED <<mined, skipped, replay>>
    BY <1>3 DEF Replay!Indexed
  <2>2. RowsOK'
    BY <2>1, RowKept
  <2>3. Grows
    <3>1. DOMAIN liq' = DOMAIN liq \union {e}
      BY <2>1, PutIs
    <3>2. mined \in 0..Len(Txs) /\ mined' = mined /\ mined \in Nat
      BY <2>1, ChainIs DEF BackfillInv
    <3>3. QED
      BY <2>1, <3>1, <3>2 DEF Grows
  <2>4. QED
    BY <2>1, <2>2, <2>3, TablesMove
<1>4. QED
  BY <1>1, <1>2, <1>3, AskKeeps, HandlerKeeps DEF Replay!Next

(* The replayed reserves are the history's as long as nothing was removed.  *)
LEMMA ReplayedIs ==
  ASSUME NEW e
  PROVE  Replay!Replayed(e) = Replay!History(e) <=> ~Replay!RemovedBefore(e)
<1> DEFINE h == Replay!History(e)
           v == Replay!Replayed(e)
<1>1. /\ h = [d \in Replay!Events |-> h[d]] /\ v = [d \in Replay!Events |-> v[d]]
      /\ \A d \in Replay!Events : h[d] \in {0, 1}
                               /\ v[d] = IF Kind[d] = "remove" THEN 0 ELSE h[d]
  BY DEF Replay!History, Replay!Replayed
<1>2. Replay!RemovedBefore(e) <=> \E d \in Replay!Events : Kind[d] = "remove" /\ h[d] = 1
  BY DEF Replay!RemovedBefore
<1> HIDE DEF h, v
<1>3. (\A d \in Replay!Events : v[d] = h[d]) <=> ~Replay!RemovedBefore(e)
  BY <1>1, <1>2
<1>4. v = h <=> \A d \in Replay!Events : v[d] = h[d]
  BY <1>1
<1>5. QED
  BY <1>3, <1>4 DEF h, v

(* For any history, any transactions that Etherscan does not list, any      *)
(* number of backfills beside the indexer and any failed call: the rows a   *)
(* backfill stores carry what the listed history up to them added and       *)
(* traded, are its reserves exactly until its first removal, and one that   *)
(* answers ok has stored what it was given or failed to insert.             *)
THEOREM ReplayStaysTrue == RequestsSpec => []ReplayTrue
<1>1. RequestsInit => BackfillInv
  <2> SUFFICES ASSUME RequestsInit PROVE BackfillInv
    OBVIOUS
  <2>1. /\ mined = 0 /\ liq = <<>> /\ replay = [r \in Requests |-> Replay!Idle]
    BY DEF RequestsInit, Replay!Init
  <2>2. Replay!Idle \in ReplayRecords /\ Replay!Idle.pc = "new"
    BY DEF Replay!Idle, Replay!None, ReplayRecords
  <2>3. JobOK(Replay!Idle)
    BY <2>2, StageWords DEF JobOK
  <2>4. mined \in 0..Len(Txs) /\ RowsOK
    BY <2>1, ChainIs DEF RowsOK
  <2>5. QED
    BY <2>1, <2>2, <2>3, <2>4 DEF BackfillInv
<1>2. BackfillInv /\ [RequestsNext]_requests => BackfillInv'
  <2> SUFFICES ASSUME BackfillInv, [RequestsNext]_requests PROVE BackfillInv'
    OBVIOUS
  <2>1. UNCHANGED replayVars \/ Replay!Next
    BY DEF RequestsNext, Session, Replaying, Rate, Starting, Commenting, requests
  <2>2. CASE UNCHANGED replayVars
    <3>1. UNCHANGED <<mined, liq, trades, skipped, replay>>
      BY <2>2 DEF replayVars
    <3>2. QED
      BY <3>1, SameRows, TablesMove
  <2>3. QED
    BY <2>1, <2>2, ReplaySteps
<1>3. BackfillInv => ReplayTrue
  <2> SUFFICES ASSUME BackfillInv PROVE Replay!ReplayTrue
    BY DEF ReplayTrue
  <2>1. ASSUME NEW r \in Requests, replay[r].pc = "ok",
               NEW t \in 1..replay[r].last, t \notin Unlisted, NEW e \in Txs[t],
               Kind[e] # "remove" /\ e \notin skipped
        PROVE  e \in DOMAIN liq /\ (Kind[e] = "trade" => e \in trades)
    <3>1. replay[r].logs = {} /\ PassedOK(replay[r])
      BY <2>1 DEF BackfillInv, JobOK
    <3>2. HasRows(e)
      BY <2>1, <3>1 DEF PassedOK
    <3>3. QED
      BY <2>1, <3>2 DEF HasRows
  <2>2. ASSUME NEW e \in DOMAIN liq, liq[e].by = "backfill"
        PROVE  /\ liq[e].reserves = Replay!Replayed(e)
               /\ liq[e].reserves = Replay!History(e) <=> ~Replay!RemovedBefore(e)
    <3>1. liq[e].reserves = Replay!Replayed(e)
      BY <2>2 DEF BackfillInv, RowsOK
    <3>2. Replay!Replayed(e) = Replay!History(e) <=> ~Replay!RemovedBefore(e)
      BY ReplayedIs
    <3>3. QED
      BY <3>1, <3>2
  <2>3. QED
    BY <2>1, <2>2 DEF Replay!ReplayTrue
<1>4. QED
  BY <1>1, <1>2, <1>3, PTL DEF RequestsSpec

-----------------------------------------------------------------------------
(* The comments of a market (Discussion, as the run composes it).           *)

Among(s) == {s[p] : p \in 1..Len(s)}
Oldest(s) == s[Len(s)]

LEMMA OnTop ==
  ASSUME NEW s \in Seq(Nat), NEW i \in Nat, NEW c, c = <<i>> \o s
  PROVE  /\ c \in Seq(Nat) /\ Len(c) = Len(s) + 1 /\ c[1] = i
         /\ \A p \in 1..Len(c) : p # 1 => p - 1 \in 1..Len(s) /\ c[p] = s[p - 1]
         /\ Among(c) = {i} \union Among(s)
         /\ Len(s) > 0 => Oldest(c) = Oldest(s)
<1>1. /\ c \in Seq(Nat) /\ Len(c) = Len(s) + 1 /\ c[1] = i /\ Len(s) \in Nat
      /\ \A p \in 1..Len(c) : p # 1 => p - 1 \in 1..Len(s) /\ c[p] = s[p - 1]
  OBVIOUS
<1>2. \A p \in 1..Len(s) : p + 1 \in 1..Len(c) /\ c[p + 1] = s[p]
  BY <1>1
<1>3. 1 \in 1..Len(c)
  BY <1>1
<1>4. Among(c) = {i} \union Among(s)
  <2>1. \A x \in Among(c) : x \in {i} \union Among(s)
    BY <1>1 DEF Among
  <2>2. \A x \in Among(s) : x \in Among(c)
    BY <1>2 DEF Among
  <2>3. i \in Among(c)
    BY <1>1, <1>3 DEF Among
  <2>4. QED
    BY <2>1, <2>2, <2>3
<1>5. Len(s) > 0 => Oldest(c) = Oldest(s)
  BY <1>1 DEF Oldest
<1>6. QED
  BY <1>1, <1>4, <1>5

LEMMA AtEnd ==
  ASSUME NEW s \in Seq(Nat), NEW t \in Seq(Nat), NEW c, c = s \o t
  PROVE  /\ c \in Seq(Nat) /\ Len(c) = Len(s) + Len(t)
         /\ \A p \in 1..Len(s) : c[p] = s[p]
         /\ \A p \in 1..Len(c) : p > Len(s) => p - Len(s) \in 1..Len(t) /\ c[p] = t[p - Len(s)]
         /\ Among(c) = Among(s) \union Among(t)
         /\ Len(t) > 0 => Oldest(c) = Oldest(t)
<1>1. /\ c \in Seq(Nat) /\ Len(c) = Len(s) + Len(t) /\ Len(s) \in Nat /\ Len(t) \in Nat
      /\ \A p \in 1..Len(s) : c[p] = s[p]
      /\ \A p \in 1..Len(c) : p > Len(s) => p - Len(s) \in 1..Len(t) /\ c[p] = t[p - Len(s)]
  OBVIOUS
<1>2. \A p \in 1..Len(t) : p + Len(s) \in 1..Len(c) /\ c[p + Len(s)] = t[p]
  BY <1>1
<1>3. \A p \in 1..Len(s) : p \in 1..Len(c)
  BY <1>1
<1>4. Among(c) = Among(s) \union Among(t)
  <2>1. \A x \in Among(c) : x \in Among(s) \union Among(t)
    <3> SUFFICES ASSUME NEW p \in 1..Len(c)
                 PROVE  c[p] \in Among(s) \union Among(t)
      BY DEF Among
    <3>1. CASE p > Len(s)
      BY <1>1, <3>1 DEF Among
    <3>2. CASE ~(p > Len(s))
      <4>1. p \in 1..Len(s)
        BY <1>1, <3>2
      <4>2. QED
        BY <1>1, <4>1 DEF Among
    <3>3. QED
      BY <3>1, <3>2
  <2>2. \A x \in Among(s) : x \in Among(c)
    BY <1>1, <1>3 DEF Among
  <2>3. \A x \in Among(t) : x \in Among(c)
    BY <1>2 DEF Among
  <2>4. QED
    BY <2>1, <2>2, <2>3
<1>5. Len(t) > 0 => Oldest(c) = Oldest(t)
  BY <1>1 DEF Oldest
<1>6. QED
  BY <1>1, <1>4, <1>5

LEMMA ToSetIs ==
  ASSUME NEW s \in Seq(Nat)
  PROVE  Thread!ToSet(s) = Among(s)
BY DEF Thread!ToSet, Among

Pending == due \union Thread!ToSet(events.wire)
Comments == view.comments

(* What a page's list says of the comments that were stored when it was     *)
(* read: the newest before a time, the newest first.                        *)
ReadOK ==
  /\ ask.count \in base..Len(stored)
  /\ Among(ask.rows) \subseteq 1..ask.count
  /\ \A p, q \in 1..Len(ask.rows) : p < q =>
        ask.rows[p] # ask.rows[q] /\ stored[ask.rows[p]] >= stored[ask.rows[q]]
  /\ ask.before # 0 => \A i \in Among(ask.rows) : stored[i] < ask.before
  /\ \A i \in 1..ask.count \ Among(ask.rows) :
        ask.before = 0 \/ stored[i] < ask.before =>
          Len(ask.rows) >= Limit /\ stored[i] <= stored[Oldest(ask.rows)]

\* A comment whose event is on its way is in the first list, or another of
\* its millisecond is there in its place.
FirstOK ==
  \A i \in Pending : i <= ask.count =>
    i \in Among(ask.rows) \/ \E k \in Among(ask.rows) : k # i /\ stored[k] = stored[i]

AskOK ==
  /\ ask.kind = "load" => base = 0 /\ ~view.hasMore /\ ask.before = 0
  /\ ask.kind = "more" => view.hasMore /\ ask.before = stored[Oldest(Comments)]
  /\ ask.at = "asked" => ask.kind \in {"load", "more"}
  /\ ask.at = "read" => ReadOK
  /\ ask.kind = "load" /\ ask.at = "read" => FirstOK

ThreadTypes ==
  /\ stored \in Seq(Nat \ {0})
  /\ \A i, j \in 1..Len(stored) : i <= j => stored[i] <= stored[j]
  /\ own \subseteq 1..Len(stored) /\ due \subseteq 1..Len(stored) /\ owed \subseteq 1..Len(stored)
  /\ events \in [on : BOOLEAN, wire : Seq(Nat)] /\ Among(events.wire) \subseteq 1..Len(stored)
  /\ view \in [comments : Seq(Nat), hasMore : BOOLEAN, loading : BOOLEAN]
  /\ Among(Comments) \subseteq 1..Len(stored)
  /\ base \in 0..Len(stored)
  /\ ask \in [kind : {"none", "load", "more"}, at : {"none", "asked", "read"}, before : Nat,
              rows : Seq(Nat), count : Nat]

\* Fewer than a page of comments is stored after one whose event is on its way.
Soon == \A i \in Pending : Len(stored) - i < Limit

Single == \A p, q \in 1..Len(Comments) :
            Comments[p] = Comments[q] /\ Comments[p] \notin own => p = q

Above(i, j) ==
  stored[i] >= stored[j] \/ i \in own \/ Thread!Tied(i) \/ (i > base /\ j > base)

Sorted == \A p, q \in 1..Len(Comments) : p < q => Above(Comments[p], Comments[q])

\* While there is more to load, what is shown and what will be heard of is
\* not older than the end of the list, and what is missing is older or tied.
MoreOK ==
  view.hasMore =>
    /\ Len(Comments) > 0
    /\ \A i \in (Among(Comments) \union Pending) \ own : stored[i] >= stored[Oldest(Comments)]
    /\ \A i \in owed \ Among(Comments) : stored[i] < stored[Oldest(Comments)] \/ Thread!Tied(i)

AllShown == ~view.hasMore => \A i \in owed \ Among(Comments) : Thread!Tied(i)

Heard == \A i \in Pending : i <= base => i \in Among(Comments) \/ Thread!Tied(i)

ThreadInv ==
  /\ ThreadTypes /\ Soon /\ Single /\ Sorted /\ MoreOK /\ AllShown /\ Heard /\ AskOK
  /\ owed \subseteq (1..base) \union Among(Comments)

LEMMA LimitIs == Limit \in Nat \ {0}
BY ThreadAssumption DEF Thread!DiscussionAssumption

LEMMA PendingIs ==
  ASSUME ThreadTypes
  PROVE  Pending = due \union Among(events.wire) /\ Pending \subseteq 1..Len(stored)
<1>1. events.wire \in Seq(Nat)
  BY DEF ThreadTypes
<1>2. QED
  BY <1>1, ToSetIs DEF ThreadTypes, Pending

LEMMA WholeFollows ==
  ASSUME ThreadInv
  PROVE  Thread!ThreadWhole
<1> DEFINE c == Comments
<1>1. c \in Seq(Nat) /\ Thread!Shown = Among(c) /\ DOMAIN c = 1..Len(c) /\ c = view.comments
  BY ToSetIs DEF ThreadInv, ThreadTypes, Thread!Shown, Comments
<1>2. ASSUME NEW i \in Among(c) \ own
      PROVE  Thread!Times(i) = 1
  <2>1. PICK p \in 1..Len(c) : c[p] = i
    BY DEF Among
  <2>2. {q \in DOMAIN view.comments : view.comments[q] = i} = {p}
    BY <1>1, <1>2, <2>1 DEF ThreadInv, Single
  <2>3. Cardinality({p}) = 1
    BY FS_Singleton
  <2>4. Thread!Times(i) = Cardinality({p})
    BY <2>2 DEF Thread!Times, Thread!Cardinality, Cardinality
  <2>5. QED
    BY <2>3, <2>4
<1>3. ASSUME NEW p \in DOMAIN c, NEW q \in DOMAIN c, p < q
      PROVE  Above(c[p], c[q])
  BY <1>1, <1>3 DEF ThreadInv, Sorted
<1>4. \A i \in owed \ Among(c) : ~view.hasMore => Thread!Tied(i)
  BY DEF ThreadInv, AllShown
<1>5. QED
  BY <1>1, <1>2, <1>3, <1>4 DEF Thread!ThreadWhole, Above

(* What is shown and heard of does not change with the list on its way.     *)
LEMMA ShownStays ==
  ASSUME ThreadInv, UNCHANGED <<stored, own, due, events, base, owed>>,
         view'.comments = view.comments, view'.hasMore = view.hasMore
  PROVE  /\ Soon' /\ Single' /\ Sorted' /\ MoreOK' /\ AllShown' /\ Heard'
         /\ owed' \subseteq (1..base') \union Among(Comments)'
<1>1. /\ Comments' = Comments /\ Among(Comments)' = Among(Comments)
      /\ \A i, j : Thread!Tied(i)' = Thread!Tied(i) /\ Above(i, j)' = Above(i, j)
      /\ Pending' = Pending
  BY DEF Comments, Among, Thread!Tied, Above, Pending, Thread!ToSet
<1>2. MoreOK'
  BY <1>1 DEF ThreadInv, MoreOK, Oldest, Thread!Tied
<1>3. AllShown' /\ Heard' /\ Soon' /\ Single' /\ Sorted'
  BY <1>1 DEF ThreadInv, AllShown, Heard, Soon, Single, Sorted, Thread!Tied, Above
<1>4. QED
  BY <1>1, <1>2, <1>3 DEF ThreadInv

(* Only the events on their way, and what of them is shown, move.           *)
LEMMA PendingShrinks ==
  ASSUME ThreadInv, UNCHANGED <<stored, own, ask, view, base>>,
         due' \subseteq due, events' \in [on : BOOLEAN, wire : Seq(Nat)],
         Among(events.wire)' \subseteq 1..Len(stored), Pending' \subseteq Pending,
         owed \subseteq owed', owed' \subseteq owed \union Among(Comments)
  PROVE  ThreadInv'
<1>1. /\ Comments' = Comments /\ Among(Comments)' = Among(Comments)
      /\ \A i \in 1..Len(stored) : Thread!Tied(i)' = Thread!Tied(i)
  BY DEF Comments, Among, Thread!Tied
<1>2. owed' \ Among(Comments) \subseteq owed \ Among(Comments)
  OBVIOUS
<1>3. ThreadTypes'
  BY <1>1 DEF ThreadInv, ThreadTypes, Among
<1>4. Soon' /\ Single' /\ Sorted'
  BY <1>1 DEF ThreadInv, Soon, Single, Sorted, Above, Thread!Tied
<1>5. MoreOK' /\ AllShown' /\ Heard'
  <2>1. MoreOK'
    BY <1>1, <1>2 DEF ThreadInv, MoreOK, Thread!Tied, Oldest
  <2>2. AllShown'
    BY <1>1, <1>2 DEF ThreadInv, AllShown, Thread!Tied
  <2>3. Heard'
    BY <1>1 DEF ThreadInv, Heard, Thread!Tied
  <2>4. QED
    BY <2>1, <2>2, <2>3
<1>6. AskOK'
  <2>1. ReadOK => ReadOK'
    BY DEF ReadOK, Among, Oldest
  <2>2. FirstOK => FirstOK'
    BY DEF FirstOK, Among
  <2>3. QED
    BY <1>1, <2>1, <2>2 DEF ThreadInv, AskOK, Oldest
<1>7. QED
  BY <1>1, <1>2, <1>3, <1>4, <1>5, <1>6 DEF ThreadInv

(* A comment is put on top of the list.                                     *)
LEMMA ShownOnTop ==
  ASSUME ThreadInv, UNCHANGED <<stored, own, ask, base>>, NEW i \in 1..Len(stored),
         i \in own \/ (i \in Pending /\ i \notin Among(Comments)),
         view' = [view EXCEPT !.comments = <<i>> \o @], owed' = owed \union {i},
         due' \subseteq due, events' \in [on : BOOLEAN, wire : Seq(Nat)],
         Among(events.wire)' \subseteq 1..Len(stored), Pending' \subseteq Pending
  PROVE  ThreadInv'
<1> DEFINE c == Comments
           d == <<i>> \o Comments
<1>0. /\ stored \in Seq(Nat \ {0}) /\ Len(stored) \in Nat /\ base \in Nat
      /\ \A j \in 1..Len(stored) : stored[j] \in Nat
  BY DEF ThreadInv, ThreadTypes
<1>1. c \in Seq(Nat) /\ Len(c) \in Nat /\ Comments' = d /\ i \in Nat
  BY <1>0 DEF ThreadInv, ThreadTypes, Comments
<1>2. /\ d \in Seq(Nat) /\ Len(d) = Len(c) + 1 /\ d[1] = i
      /\ \A p \in 1..Len(d) : p # 1 => p - 1 \in 1..Len(c) /\ d[p] = c[p - 1]
      /\ Among(d) = {i} \union Among(c)
      /\ Len(c) > 0 => Oldest(d) = Oldest(c)
  BY <1>1, OnTop, ZenonT(40)
<1> HIDE DEF d
<1>3. /\ Among(Comments)' = {i} \union Among(c)
      /\ \A j, k : Thread!Tied(j)' = Thread!Tied(j) /\ Above(j, k)' = Above(j, k)
      /\ view'.hasMore = view.hasMore
  <2>1. Among(Comments)' = Among(d)
    BY <1>1 DEF Among
  <2>2. \A j, k : Thread!Tied(j)' = Thread!Tied(j) /\ Above(j, k)' = Above(j, k)
    BY DEF Above, Thread!Tied
  <2>3. view'.hasMore = view.hasMore
    BY DEF ThreadInv, ThreadTypes
  <2>4. QED
    BY <1>2, <2>1, <2>2, <2>3
<1>4. owed' \ Among(Comments)' \subseteq owed \ Among(Comments)
  BY <1>3
<1>5. ThreadTypes'
  BY <1>0, <1>1, <1>2, <1>3 DEF ThreadInv, ThreadTypes, Comments
<1>6. Soon'
  BY DEF ThreadInv, Soon
<1> HIDE DEF c
<1>7. Single'
  <2> SUFFICES ASSUME NEW p \in 1..Len(d), NEW q \in 1..Len(d), d[p] = d[q], d[p] \notin own
               PROVE  p = q
    BY <1>1 DEF Single
  <2>1. CASE p # 1 /\ q # 1
    <3>1. p - 1 = q - 1
      BY <1>2, <2>1 DEF ThreadInv, Single, c
    <3>2. QED
      BY <3>1
  <2>2. CASE p = 1 /\ q # 1
    BY <1>2, <2>2 DEF Among, c
  <2>3. CASE p # 1 /\ q = 1
    BY <1>2, <2>3 DEF Among, c
  <2>4. QED
    BY <2>1, <2>2, <2>3
<1>8. Sorted'
  <2> SUFFICES ASSUME NEW p \in 1..Len(d), NEW q \in 1..Len(d), p < q
               PROVE  Above(d[p], d[q])
    BY <1>1, <1>3 DEF Sorted
  <2>0. q # 1 /\ d[q] = c[q - 1] /\ q - 1 \in 1..Len(c)
    BY <1>2
  <2>1. CASE p # 1
    <3>1. /\ p - 1 \in 1..Len(c) /\ d[p] = c[p - 1] /\ p - 1 < q - 1
      BY <1>2, <2>1
    <3>2. Above(c[p - 1], c[q - 1])
      BY <2>0, <3>1 DEF ThreadInv, Sorted, c
    <3>3. QED
      BY <2>0, <3>1, <3>2
  <2>2. CASE p = 1
    <3> DEFINE j == c[q - 1]
    <3>0. d[p] = i /\ d[q] = j /\ j \in 1..Len(stored)
      BY <1>2, <2>0, <2>2 DEF ThreadInv, ThreadTypes, Among, c
    <3> HIDE DEF j
    <3>1. CASE i \in own
      BY <3>0, <3>1 DEF Above
    <3>2. CASE i \notin own /\ i <= base
      <4>1. Thread!Tied(i)
        BY <3>2 DEF ThreadInv, Heard
      <4>2. QED
        BY <3>0, <4>1 DEF Above
    <3>3. CASE i > base /\ j <= base
      <4>1. j <= i
        BY <1>0, <3>0, <3>3
      <4>2. stored[j] <= stored[i] /\ stored[i] \in Nat /\ stored[j] \in Nat
        BY <1>0, <3>0, <4>1 DEF ThreadInv, ThreadTypes
      <4>3. QED
        BY <3>0, <4>2 DEF Above
    <3>4. CASE i > base /\ j > base
      BY <3>0, <3>4 DEF Above
    <3>5. QED
      BY <1>0, <3>0, <3>1, <3>2, <3>3, <3>4
  <2>3. QED
    BY <2>1, <2>2
<1>9. MoreOK'
  <2> SUFFICES ASSUME view.hasMore
      PROVE  /\ Len(d) > 0
             /\ \A j \in ({i} \union Among(c) \union Pending) \ own : stored[j] >= stored[Oldest(d)]
             /\ \A j \in owed \ Among(c) : stored[j] < stored[Oldest(d)] \/ Thread!Tied(j)
    BY <1>1, <1>2, <1>3, <1>4 DEF MoreOK, Thread!Tied, Oldest, c
  <2>1. Oldest(d) = Oldest(c) /\ Len(c) > 0
    BY <1>2 DEF ThreadInv, MoreOK, c
  <2>2. QED
    BY <1>1, <1>2, <2>1 DEF ThreadInv, MoreOK, c
<1>10. AllShown' /\ Heard'
  <2>1. AllShown'
    BY <1>3, <1>4 DEF ThreadInv, AllShown, Thread!Tied
  <2>2. Heard'
    BY <1>3 DEF ThreadInv, Heard, Thread!Tied, c
  <2>3. QED
    BY <2>1, <2>2
<1>11. AskOK'
  <2>1. ReadOK => ReadOK'
    BY DEF ReadOK, Among, Oldest
  <2>2. FirstOK => FirstOK'
    BY DEF FirstOK, Among
  <2>3. view.hasMore => stored[Oldest(Comments)]' = stored[Oldest(Comments)]
    <3>1. view.hasMore => Oldest(d) = Oldest(c)
      BY <1>2 DEF ThreadInv, MoreOK, c
    <3>2. QED
      BY <1>1, <3>1 DEF Oldest, c
  <2>4. QED
    BY <1>3, <2>1, <2>2, <2>3 DEF ThreadInv, AskOK
<1>12. (owed \subseteq (1..base) \union Among(Comments))'
  <2>1. owed' \subseteq (1..base) \union Among(Comments)'
    BY <1>3 DEF ThreadInv, c
  <2>2. QED
    BY <2>1
<1>13. QED
  BY <1>5, <1>6, <1>7, <1>8, <1>9, <1>10, <1>11, <1>12 DEF ThreadInv

(* A comment is stored: it is the last, and no older than another.          *)
LEMMA CommentStored ==
  ASSUME ThreadInv, NEW mine, Thread!Create(mine)
  PROVE  ThreadInv'
<1> DEFINE N == Len(stored)
<1>0. /\ stored \in Seq(Nat \ {0}) /\ N \in Nat /\ base \in 0..N
      /\ \A j \in 1..N : stored[j] \in Nat \ {0}
      /\ \A j, k \in 1..N : j <= k => stored[j] <= stored[k]
      /\ events.wire \in Seq(Nat)
  BY DEF ThreadInv, ThreadTypes
<1>1. PICK time \in Nat \ {0} : /\ stored' = Append(stored, time)
                                /\ \A j \in 1..N : stored[j] <= time
  <2>1. CASE stored = <<>>
    BY <1>0, <2>1 DEF Thread!Create
  <2>2. CASE stored # <<>>
    <3>1. PICK time \in {stored[N], stored[N] + 1} : stored' = Append(stored, time)
      BY <2>2 DEF Thread!Create, Thread!Last
    <3>2. N \in 1..N /\ \A j \in 1..N : stored[j] <= stored[N]
      BY <1>0, <2>2
    <3>3. time \in Nat \ {0} /\ stored[N] <= time /\ stored[N] \in Nat
      BY <1>0, <3>1, <3>2
    <3>4. \A j \in 1..N : stored[j] <= time
      BY <1>0, <3>2, <3>3
    <3>5. QED
      BY <3>1, <3>3, <3>4
  <2>3. QED
    BY <2>1, <2>2
<1>2. /\ stored' \in Seq(Nat \ {0}) /\ Len(stored') = N + 1 /\ stored'[N + 1] = time
      /\ \A j \in 1..N : stored'[j] = stored[j]
  BY <1>0, <1>1
<1>3. /\ due' = due \union {N + 1} /\ own \subseteq own' /\ own' \subseteq own \union {N + 1}
      /\ UNCHANGED <<events, ask, view, base, owed>>
      /\ \A i \in due \union Thread!ToSet(events.wire) : N + 1 - i < Limit
  BY DEF Thread!Create, Thread!Brisk
<1> HIDE DEF N
<1>4. /\ Comments' = Comments /\ Among(Comments)' = Among(Comments)
      /\ \A i \in 1..N : Thread!Tied(i) => Thread!Tied(i)'
      /\ \A i, j \in 1..N : Above(i, j) => Above(i, j)'
  <2>1. Comments' = Comments /\ Among(Comments)' = Among(Comments)
    BY <1>3 DEF Comments, Among
  <2>2. ASSUME NEW i \in 1..N, Thread!Tied(i) PROVE Thread!Tied(i)'
    <3>1. PICK j \in 1..N : j # i /\ stored[j] = stored[i]
      BY <1>0, <2>2 DEF Thread!Tied, N
    <3>2. j \in 1..(N + 1) /\ DOMAIN stored' = 1..(N + 1)
      BY <1>0, <1>2
    <3>3. QED
      BY <1>2, <3>1, <3>2 DEF Thread!Tied
  <2>3. QED
    BY <1>2, <1>3, <2>1, <2>2 DEF Above
<1>5. /\ Pending' = Pending \union {N + 1} /\ Pending \subseteq 1..N
      /\ Among(Comments) \subseteq 1..N /\ owed \subseteq 1..N
  <2>1. Pending' = Pending \union {N + 1}
    BY <1>3 DEF Pending, Thread!ToSet
  <2>2. QED
    BY <2>1, PendingIs DEF ThreadInv, ThreadTypes, N
<1>6. ThreadTypes'
  <2>1. \A i, j \in 1..(N + 1) : i <= j => stored'[i] <= stored'[j]
    <3> SUFFICES ASSUME NEW i \in 1..(N + 1), NEW j \in 1..(N + 1), i <= j
                 PROVE  stored'[i] <= stored'[j]
      OBVIOUS
    <3>1. CASE j \in 1..N
      <4>1. i \in 1..N
        BY <1>0, <3>1
      <4>2. QED
        BY <1>0, <1>2, <3>1, <4>1
    <3>2. CASE j = N + 1 /\ i \in 1..N
      BY <1>0, <1>1, <1>2, <3>2
    <3>3. CASE j = N + 1 /\ i = N + 1
      BY <1>2, <3>3
    <3>4. QED
      BY <1>0, <3>1, <3>2, <3>3
  <2>2. 1..N \subseteq 1..(N + 1) /\ N + 1 \in 1..(N + 1) /\ 0..N \subseteq 0..(N + 1)
    BY <1>0
  <2>3. /\ own' \subseteq 1..(N + 1) /\ due' \subseteq 1..(N + 1)
        /\ owed' \subseteq 1..(N + 1) /\ Among(events.wire)' \subseteq 1..(N + 1)
        /\ Among(Comments)' \subseteq 1..(N + 1) /\ base' \in 0..(N + 1)
    <3>1. /\ own \subseteq 1..N /\ due \subseteq 1..N /\ owed \subseteq 1..N
          /\ Among(events.wire) \subseteq 1..N /\ base \in 0..N
      BY DEF ThreadInv, ThreadTypes, N
    <3>2. Among(events.wire)' = Among(events.wire)
      BY <1>3 DEF Among
    <3>3. QED
      BY <1>3, <1>4, <1>5, <2>2, <3>1, <3>2
  <2>4. QED
    BY <1>2, <1>3, <2>1, <2>3 DEF ThreadInv, ThreadTypes
<1>7. Soon'
  <2>1. \A i \in Pending : N + 1 - i < Limit
    BY <1>3 DEF Pending
  <2>2. (N + 1) - (N + 1) < Limit
    BY <1>0, LimitIs
  <2>3. \A i \in Pending' : Len(stored') - i < Limit
    <3> SUFFICES ASSUME NEW i \in Pending' PROVE Len(stored') - i < Limit
      OBVIOUS
    <3>0. Len(stored') = N + 1
      BY <1>2
    <3>1. CASE i \in Pending
      BY <1>0, <1>5, <2>1, <3>0, <3>1, LimitIs
    <3>2. CASE i = N + 1
      BY <1>2, <2>2, <3>2
    <3>3. QED
      BY <1>5, <3>1, <3>2
  <2>4. QED
    BY <2>3 DEF Soon
<1>8. Single'
  BY <1>3, <1>4 DEF ThreadInv, Single
<1>9. Sorted'
  <2> SUFFICES ASSUME NEW p \in 1..Len(Comments), NEW q \in 1..Len(Comments), p < q
               PROVE  \E i, j : i = Comments[p] /\ j = Comments[q] /\ Above(i, j)'
    BY <1>4 DEF Sorted
  <2>1. Comments[p] \in 1..N /\ Comments[q] \in 1..N
    BY <1>5 DEF Among
  <2>2. QED
    BY <1>4, <2>1 DEF ThreadInv, Sorted
<1>10. MoreOK'
  <2> SUFFICES ASSUME view.hasMore
      PROVE  /\ Len(Comments) > 0
             /\ \A i \in (Among(Comments) \union Pending \union {N + 1}) \ own' :
                   stored'[i] >= stored'[Oldest(Comments)]
             /\ \A i \in owed \ Among(Comments) :
                   stored'[i] < stored'[Oldest(Comments)] \/ Thread!Tied(i)'
    BY <1>3, <1>4, <1>5 DEF MoreOK, Oldest
  <2>1. Len(Comments) > 0 /\ Len(Comments) \in Nat
    BY DEF ThreadInv, MoreOK, ThreadTypes, Comments
  <2>2. Oldest(Comments) \in 1..N
    BY <1>5, <2>1 DEF Among, Oldest
  <2>3. \A i \in (Among(Comments) \union Pending) \ own' : stored'[i] >= stored'[Oldest(Comments)]
    BY <1>2, <1>3, <1>5, <2>2 DEF ThreadInv, MoreOK
  <2>4. stored'[N + 1] >= stored'[Oldest(Comments)]
    BY <1>0, <1>1, <1>2, <2>2
  <2>5. \A i \in owed \ Among(Comments) :
            stored'[i] < stored'[Oldest(Comments)] \/ Thread!Tied(i)'
    BY <1>2, <1>4, <1>5, <2>2 DEF ThreadInv, MoreOK
  <2>6. QED
    BY <2>1, <2>3, <2>4, <2>5
<1>11. AllShown' /\ Heard'
  <2>1. AllShown'
    BY <1>3, <1>4, <1>5 DEF ThreadInv, AllShown
  <2>2. \A i \in Pending : i <= base => i \in Among(Comments) \/ Thread!Tied(i)'
    BY <1>4, <1>5 DEF ThreadInv, Heard
  <2>3. ~(N + 1 <= base)
    BY <1>0
  <2>4. Heard'
    BY <1>3, <1>4, <1>5, <2>2, <2>3 DEF Heard
  <2>5. QED
    BY <2>1, <2>4
<1>12. AskOK'
  <2>1. ASSUME ReadOK PROVE ReadOK'
    <3>0. /\ ask.count \in 0..N /\ Among(ask.rows) \subseteq 1..N
          /\ 1..ask.count \subseteq 1..N /\ Among(ask.rows)' = Among(ask.rows)
      <4>1. ask.count \in base..N /\ Among(ask.rows) \subseteq 1..ask.count
        BY <2>1 DEF ReadOK, N
      <4>2. ask.count \in 0..N /\ 1..ask.count \subseteq 1..N
        BY <1>0, <4>1
      <4>3. Among(ask.rows)' = Among(ask.rows)
        BY <1>3 DEF Among
      <4>4. QED
        BY <4>1, <4>2, <4>3
    <3>1. ask'.count \in base'..Len(stored') /\ Among(ask.rows)' \subseteq 1..ask'.count
      BY <1>0, <1>2, <1>3, <2>1, <3>0 DEF ReadOK, N
    <3>2. \A p, q \in 1..Len(ask.rows) : p < q =>
             ask.rows[p] # ask.rows[q] /\ stored'[ask.rows[p]] >= stored'[ask.rows[q]]
      <4>1. \A p \in 1..Len(ask.rows) : ask.rows[p] \in 1..N
        BY <3>0 DEF Among
      <4>2. QED
        BY <1>2, <2>1, <4>1 DEF ReadOK
    <3>3. ask.before # 0 => \A i \in Among(ask.rows) : stored'[i] < ask.before
      BY <1>2, <2>1, <3>0 DEF ReadOK
    <3>4. \A i \in 1..ask.count \ Among(ask.rows) :
             ask.before = 0 \/ stored'[i] < ask.before =>
               Len(ask.rows) >= Limit /\ stored'[i] <= stored'[Oldest(ask.rows)]
      <4> SUFFICES ASSUME NEW i \in 1..ask.count \ Among(ask.rows),
                          ask.before = 0 \/ stored'[i] < ask.before
                   PROVE  Len(ask.rows) >= Limit /\ stored'[i] <= stored'[Oldest(ask.rows)]
        OBVIOUS
      <4>1. i \in 1..N /\ stored'[i] = stored[i]
        BY <1>2, <3>0
      <4>2. Len(ask.rows) >= Limit /\ stored[i] <= stored[Oldest(ask.rows)]
        BY <2>1, <4>1 DEF ReadOK
      <4>3. ask.rows \in Seq(Nat) /\ Len(ask.rows) \in 1..Len(ask.rows)
        BY <4>2, LimitIs DEF ThreadInv, ThreadTypes
      <4>4. Oldest(ask.rows) \in 1..N
        BY <3>0, <4>3 DEF Among, Oldest
      <4>5. QED
        BY <1>2, <4>1, <4>2, <4>4
    <3>5. QED
      BY <1>3, <3>0, <3>1, <3>2, <3>3, <3>4 DEF ReadOK, Oldest
  <2>2. ASSUME ReadOK, FirstOK PROVE FirstOK'
    <3>1. ask.count \in 0..N /\ Among(ask.rows) \subseteq 1..N /\ Among(ask.rows)' = Among(ask.rows)
      BY <1>0, <1>3, <2>2 DEF ReadOK, Among, N
    <3>2. ~(N + 1 <= ask.count)
      BY <1>0, <3>1
    <3>3. \A i \in Pending : i <= ask.count =>
            i \in Among(ask.rows) \/ \E k \in Among(ask.rows) : k # i /\ stored'[k] = stored'[i]
      BY <1>2, <1>5, <2>2, <3>1 DEF FirstOK
    <3>4. QED
      BY <1>3, <1>5, <3>1, <3>2, <3>3 DEF FirstOK
  <2>3. ask.kind = "more" => stored'[Oldest(Comments)] = stored[Oldest(Comments)]
    <3> SUFFICES ASSUME ask.kind = "more" PROVE stored'[Oldest(Comments)] = stored[Oldest(Comments)]
      OBVIOUS
    <3>1. Len(Comments) > 0 /\ Len(Comments) \in Nat
      BY DEF ThreadInv, MoreOK, AskOK, ThreadTypes, Comments
    <3>2. Oldest(Comments) \in 1..N
      BY <1>5, <3>1 DEF Among, Oldest
    <3>3. QED
      BY <1>2, <3>2
  <2>4. QED
    BY <1>3, <1>4, <2>1, <2>2, <2>3 DEF ThreadInv, AskOK, Oldest
<1>13. (owed \subseteq (1..base) \union Among(Comments))'
  <2>1. owed' \subseteq (1..base') \union Among(Comments)'
    BY <1>3, <1>4 DEF ThreadInv
  <2>2. QED
    BY <2>1
<1>14. QED
  BY <1>6, <1>7, <1>8, <1>9, <1>10, <1>11, <1>12, <1>13 DEF ThreadInv

(* A route answers with the newest comments before a time.                  *)
LEMMA ListKeeps ==
  ASSUME ThreadInv, Thread!ListComments
  PROVE  ThreadInv'
<1> DEFINE N == Len(stored)
           fits == {i \in DOMAIN stored : ask.before = 0 \/ stored[i] < ask.before}
           size == IF Cardinality(fits) < Limit THEN Cardinality(fits) ELSE Limit
<1>0. /\ stored \in Seq(Nat \ {0}) /\ N \in Nat /\ base \in 0..N /\ DOMAIN stored = 1..N
      /\ \A j \in 1..N : stored[j] \in Nat \ {0}
      /\ \A j, k \in 1..N : j <= k => stored[j] <= stored[k]
      /\ Limit \in Nat \ {0}
  BY LimitIs DEF ThreadInv, ThreadTypes
<1>1. PICK rows \in Thread!Lists(ask.before) :
         ask' = [ask EXCEPT !.at = "read", !.rows = rows, !.count = N]
  BY DEF Thread!ListComments
<1>2. /\ rows \in [1..size -> fits]
      /\ \A p, q \in 1..size : p < q => rows[p] # rows[q] /\ stored[rows[p]] >= stored[rows[q]]
      /\ \A i \in fits \ {rows[p] : p \in 1..size}, p \in 1..size : stored[i] <= stored[rows[p]]
  BY DEF Thread!Lists, Thread!Cardinality, Cardinality
<1>3. UNCHANGED <<stored, own, due, events, view, base, owed>> /\ ask.at = "asked"
  BY DEF Thread!ListComments
<1>4. IsFiniteSet(fits) /\ Cardinality(fits) \in Nat /\ fits \subseteq 1..N
  <2>1. fits \in SUBSET (1..N)
    BY <1>0
  <2>2. IsFiniteSet(1..N)
    BY <1>0, FS_Interval
  <2> HIDE DEF fits, N
  <2>3. IsFiniteSet(fits)
    BY <2>1, <2>2, FS_Subset
  <2>4. QED
    BY <2>1, <2>3, FS_CardinalityType
<1> HIDE DEF fits, N
<1>5. size \in Nat
  BY <1>0, <1>4
<1>6. size < Limit => Cardinality(fits) = size
  BY <1>0, <1>4
<1>7. size <= Limit
  BY <1>0, <1>4
<1> HIDE DEF size
<1>8. /\ rows \in Seq(Nat) /\ Len(rows) = size
      /\ Among(rows) = {rows[p] : p \in 1..size} /\ Among(rows) \subseteq fits
  <2>1. rows \in Seq(Nat) /\ Len(rows) = size
    <3>1. fits \subseteq Nat
      BY <1>0, <1>4
    <3>2. rows \in [1..size -> Nat]
      BY <1>2, <3>1
    <3>3. QED
      BY <1>5, <3>2
  <2>2. QED
    BY <1>2, <2>1 DEF Among
<1>9. IsFiniteSet(1..size) /\ Cardinality(1..size) = size
  BY <1>5, FS_Interval
<1>10. ASSUME NEW i \in fits \ Among(rows)
       PROVE  size = Limit /\ \A p \in 1..size : stored[i] <= stored[rows[p]]
  <2>1. ASSUME size # Limit PROVE FALSE
    <3>1. Cardinality(fits) = size
      BY <1>0, <1>5, <1>6, <1>7, <2>1
    <3>2. rows \in Injection(1..size, fits)
      <4>1. \A p, q \in 1..size : rows[p] = rows[q] => p = q
        BY <1>2, <1>5
      <4>2. QED
        BY <1>2, <4>1 DEF Injection, IsInjective
    <3>3. rows \in Surjection(1..size, fits)
      BY <1>4, <1>9, <3>1, <3>2, FS_Injection
    <3>4. QED
      BY <1>8, <1>10, <3>3 DEF Surjection
  <2>2. QED
    BY <1>2, <1>8, <1>10, <2>1
<1>11. ask.kind \in {"load", "more"} /\ (ask.kind = "load" => ask.before = 0)
  BY <1>3 DEF ThreadInv, AskOK
<1>12. /\ ask' = [ask EXCEPT !.at = "read", !.rows = rows, !.count = N]
       /\ ask'.rows = rows /\ ask'.count = N /\ ask'.before = ask.before /\ ask'.kind = ask.kind
       /\ ask'.at = "read" /\ Among(ask.rows)' = Among(rows)
  <2>1. ask'.rows = rows
    BY <1>1 DEF ThreadInv, ThreadTypes
  <2>2. Among(ask.rows)' = Among(rows)
    BY <2>1 DEF Among
  <2>3. QED
    BY <1>1, <2>2 DEF ThreadInv, ThreadTypes
<1>13. ReadOK'
  <2>1. N \in base..N
    BY <1>0
  <2>2. Among(rows) \subseteq 1..N
    BY <1>4, <1>8
  <2>3. \A p, q \in 1..Len(rows) : p < q => rows[p] # rows[q] /\ stored[rows[p]] >= stored[rows[q]]
    BY <1>2, <1>8
  <2>4. ask.before # 0 => \A i \in Among(rows) : stored[i] < ask.before
    BY <1>8 DEF fits
  <2>5. ASSUME NEW i \in 1..N \ Among(rows), ask.before = 0 \/ stored[i] < ask.before
        PROVE  Len(rows) >= Limit /\ stored[i] <= stored[Oldest(rows)]
    <3>1. i \in fits
      BY <1>0, <2>5 DEF fits
    <3>2. size \in 1..size
      BY <1>0, <1>10, <2>5, <3>1
    <3>3. QED
      BY <1>0, <1>8, <1>10, <2>5, <3>1, <3>2 DEF Oldest
  <2>6. QED
    BY <1>3, <1>12, <2>1, <2>2, <2>3, <2>4, <2>5 DEF ReadOK, N, Oldest
<1>14. ASSUME ask.kind = "load" PROVE FirstOK'
  <2>1. fits = 1..N
    BY <1>0, <1>11, <1>14 DEF fits
  <2>2. ASSUME NEW i \in Pending, i \notin Among(rows)
        PROVE  \E k \in Among(rows) : k # i /\ stored[k] = stored[i]
    <3>1. i \in 1..N /\ N - i < Limit
      BY PendingIs DEF ThreadInv, Soon, N
    <3>2. size = Limit /\ \A p \in 1..size : stored[i] <= stored[rows[p]]
      BY <1>10, <2>1, <2>2, <3>1
    <3>3. \E p \in 1..size : rows[p] < i
      <4> SUFFICES ASSUME \A p \in 1..size : ~(rows[p] < i) PROVE FALSE
        OBVIOUS
      <4>1. \A p \in 1..size : rows[p] \in 1..N /\ rows[p] # i
        BY <1>2, <1>8, <2>1, <2>2
      <4>2. \A p \in 1..size : rows[p] \in (i + 1)..N
        BY <1>0, <3>1, <4>1
      <4>3. rows \in Injection(1..size, (i + 1)..N)
        <5>1. \A p, q \in 1..size : rows[p] = rows[q] => p = q
          BY <1>2, <1>5
        <5>2. rows \in [1..size -> (i + 1)..N]
          BY <1>2, <4>2
        <5>3. QED
          BY <5>1, <5>2 DEF Injection, IsInjective
      <4>4. IsFiniteSet((i + 1)..N) /\ Cardinality((i + 1)..N) = IF i + 1 > N THEN 0 ELSE N - (i + 1) + 1
        BY <1>0, <3>1, FS_Interval
      <4>5. size <= Cardinality((i + 1)..N)
        BY <1>9, <4>3, <4>4, FS_Injection
      <4>6. QED
        BY <1>0, <3>1, <3>2, <4>4, <4>5
    <3>4. PICK p \in 1..size : rows[p] < i
      BY <3>3
    <3>5. rows[p] \in Among(rows) /\ rows[p] \in 1..N
      BY <1>2, <1>8, <2>1
    <3>6. stored[rows[p]] <= stored[i] /\ stored[i] <= stored[rows[p]]
      BY <1>0, <3>1, <3>2, <3>4, <3>5
    <3>7. stored[rows[p]] = stored[i]
      BY <1>0, <3>1, <3>5, <3>6
    <3>8. rows[p] # i
      BY <1>0, <3>1, <3>4, <3>5
    <3>9. QED
      BY <3>5, <3>7, <3>8
  <2>3. Pending' = Pending
    BY <1>3 DEF Pending, Thread!ToSet
  <2>4. QED
    BY <1>3, <1>12, <2>2, <2>3 DEF FirstOK
<1>15. AskOK'
  <2>1. stored[Oldest(Comments)]' = stored[Oldest(Comments)]
    BY <1>3 DEF Comments, Oldest
  <2>2. QED
    BY <1>3, <1>12, <1>13, <1>14, <2>1 DEF ThreadInv, AskOK
<1>16. ThreadTypes'
  <2>1. ask' \in [kind : {"none", "load", "more"}, at : {"none", "asked", "read"},
                  before : Nat, rows : Seq(Nat), count : Nat]
    BY <1>0, <1>1, <1>8 DEF ThreadInv, ThreadTypes
  <2>2. QED
    BY <1>3, <2>1 DEF ThreadInv, ThreadTypes, Among, Comments
<1>17. QED
  BY <1>3, <1>15, <1>16, ShownStays DEF ThreadInv

LEMMA FirstListShown ==
  ASSUME ThreadInv, Thread!Loaded
  PROVE  ThreadInv'
<1> DEFINE rows == ask.rows
           N == Len(stored)
<1>0. /\ ask.kind = "load" /\ ask.at = "read" /\ ReadOK /\ FirstOK /\ ask.before = 0
      /\ UNCHANGED <<stored, own, due, events>>
      /\ base' = ask.count /\ owed' = 1..ask.count /\ ask' = Thread!NoAsk
      /\ view' = [comments |-> rows, hasMore |-> Len(rows) >= Limit, loading |-> FALSE]
  BY DEF Thread!Loaded, ThreadInv, AskOK
<1>1. /\ stored \in Seq(Nat \ {0}) /\ N \in Nat /\ base \in 0..N
      /\ \A j \in 1..N : stored[j] \in Nat
      /\ \A j, k \in 1..N : j <= k => stored[j] <= stored[k]
      /\ Limit \in Nat \ {0} /\ rows \in Seq(Nat) /\ Len(rows) \in Nat
  BY LimitIs DEF ThreadInv, ThreadTypes
<1> HIDE DEF rows, N
<1>2. ask.count \in base..N /\ Among(rows) \subseteq 1..ask.count
  BY <1>0 DEF ReadOK, rows, N
<1>3. ask.count \in 0..N /\ 1..ask.count \subseteq 1..N
  BY <1>1, <1>2
<1>4. /\ \A p, q \in 1..Len(rows) : p < q => rows[p] # rows[q] /\ stored[rows[p]] >= stored[rows[q]]
      /\ \A i \in 1..ask.count \ Among(rows) : Len(rows) >= Limit /\ stored[i] <= stored[Oldest(rows)]
  BY <1>0 DEF ReadOK, rows
<1>5. /\ Comments' = rows /\ Among(Comments)' = Among(rows) /\ view'.hasMore = (Len(rows) >= Limit)
      /\ Pending' = Pending /\ \A i : Thread!Tied(i)' = Thread!Tied(i)
  <2>1. Comments' = rows
    BY <1>0 DEF Comments
  <2>2. Among(Comments)' = Among(rows)
    BY <2>1 DEF Among
  <2>3. QED
    BY <1>0, <2>1, <2>2 DEF Pending, Thread!ToSet, Thread!Tied
<1>6. \A i \in Pending : i <= ask.count => i \in Among(rows) \/ \E k \in Among(rows) : k # i /\ stored[k] = stored[i]
  BY <1>0 DEF FirstOK, rows
<1>7. \A i \in 1..N, k \in 1..N : k # i /\ stored[k] = stored[i] => Thread!Tied(i)
  BY <1>1 DEF Thread!Tied, N
<1>8. Pending \subseteq 1..N
  BY PendingIs DEF ThreadInv, N
<1>9. Len(rows) >= Limit => Oldest(rows) \in Among(rows) /\ Len(rows) \in 1..Len(rows)
  BY <1>1 DEF Oldest, Among
<1>10. ThreadTypes'
  <2>1. /\ owed' \subseteq 1..N /\ base' \in 0..N /\ Among(Comments)' \subseteq 1..N
        /\ Among(events.wire)' = Among(events.wire)
    BY <1>0, <1>2, <1>3, <1>5 DEF Among
  <2>2. view' \in [comments : Seq(Nat), hasMore : BOOLEAN, loading : BOOLEAN]
    BY <1>0, <1>1
  <2>3. ask' \in [kind : {"none", "load", "more"}, at : {"none", "asked", "read"},
                  before : Nat, rows : Seq(Nat), count : Nat]
    BY <1>0 DEF Thread!NoAsk
  <2>4. QED
    BY <1>0, <2>1, <2>2, <2>3 DEF ThreadInv, ThreadTypes, N
<1>11. Soon'
  BY <1>0, <1>5 DEF ThreadInv, Soon
<1>12. Single'
  <2>1. \A p, q \in 1..Len(rows) : rows[p] = rows[q] => p = q
    BY <1>1, <1>4
  <2>2. QED
    BY <1>5, <2>1 DEF Single
<1>13. Sorted'
  <2> SUFFICES ASSUME NEW p \in 1..Len(rows), NEW q \in 1..Len(rows), p < q
               PROVE  \E i, j : i = rows[p] /\ j = rows[q] /\ Above(i, j)'
    BY <1>5 DEF Sorted
  <2>1. stored[rows[p]] >= stored[rows[q]]
    BY <1>4
  <2>2. QED
    BY <1>0, <2>1 DEF Above
<1>14. MoreOK'
  <2> SUFFICES ASSUME Len(rows) >= Limit
      PROVE  /\ Len(rows) > 0
             /\ \A i \in (Among(rows) \union Pending) \ own : stored[i] >= stored[Oldest(rows)]
             /\ \A i \in 1..ask.count \ Among(rows) :
                   stored[i] < stored[Oldest(rows)] \/ Thread!Tied(i)
    BY <1>0, <1>5 DEF MoreOK, Oldest
  <2>1. Len(rows) > 0
    BY <1>1
  <2>2. Oldest(rows) \in 1..ask.count /\ Oldest(rows) \in 1..N
    BY <1>2, <1>3, <1>9
  <2>3. ASSUME NEW i \in Among(rows) PROVE stored[i] >= stored[Oldest(rows)]
    <3>1. PICK p \in 1..Len(rows) : i = rows[p]
      BY <2>3 DEF Among
    <3>2. CASE p = Len(rows)
      BY <1>1, <2>2, <3>1, <3>2 DEF Oldest
    <3>3. CASE p < Len(rows)
      BY <1>4, <1>9, <3>1, <3>3 DEF Oldest
    <3>4. QED
      BY <1>1, <3>2, <3>3
  <2>4. ASSUME NEW i \in Pending PROVE stored[i] >= stored[Oldest(rows)]
    <3>1. CASE i <= ask.count
      <4>1. PICK k \in Among(rows) : stored[k] = stored[i]
        BY <1>6, <3>1
      <4>2. QED
        BY <2>3, <4>1
    <3>2. CASE ~(i <= ask.count)
      <4>1. i \in 1..N /\ Oldest(rows) <= i
        BY <1>3, <1>8, <2>2, <3>2
      <4>2. QED
        BY <1>1, <2>2, <4>1
    <3>3. QED
      BY <3>1, <3>2
  <2>5. ASSUME NEW i \in 1..ask.count \ Among(rows)
        PROVE  stored[i] < stored[Oldest(rows)] \/ Thread!Tied(i)
    <3>1. i \in 1..N /\ stored[i] <= stored[Oldest(rows)] /\ i # Oldest(rows)
      BY <1>3, <1>4, <1>9
    <3>2. CASE stored[i] = stored[Oldest(rows)]
      BY <1>7, <2>2, <3>1, <3>2
    <3>3. CASE stored[i] # stored[Oldest(rows)]
      BY <1>1, <2>2, <3>1, <3>3
    <3>4. QED
      BY <3>2, <3>3
  <2>6. QED
    BY <2>1, <2>3, <2>4, <2>5
<1>15. AllShown'
  BY <1>0, <1>4, <1>5 DEF AllShown
<1>16. Heard'
  <2>1. ASSUME NEW i \in Pending, i <= ask.count PROVE i \in Among(rows) \/ Thread!Tied(i)
    BY <1>2, <1>3, <1>6, <1>7, <1>8, <2>1
  <2>2. QED
    BY <1>0, <1>5, <2>1 DEF Heard
<1>17. AskOK'
  BY <1>0 DEF AskOK, Thread!NoAsk
<1>18. (owed \subseteq (1..base) \union Among(Comments))'
  <2>1. owed' \subseteq (1..base') \union Among(Comments)'
    BY <1>0
  <2>2. QED
    BY <2>1
<1>19. QED
  BY <1>10, <1>11, <1>12, <1>13, <1>14, <1>15, <1>16, <1>17, <1>18 DEF ThreadInv

LEMMA FirstListFails ==
  ASSUME ThreadInv, Thread!LoadFails
  PROVE  ThreadInv'
<1>1. /\ base = 0 /\ UNCHANGED <<stored, own, due, events, base>> /\ owed' = {}
      /\ view' = [comments |-> <<>>, hasMore |-> FALSE, loading |-> FALSE]
      /\ ask' = Thread!NoAsk
  BY DEF Thread!LoadFails, ThreadInv, AskOK
<1>2. /\ Comments' = <<>> /\ Len(Comments)' = 0 /\ Pending' = Pending /\ Among(Comments)' = {}
      /\ Among(events.wire)' = Among(events.wire)
  BY <1>1 DEF Comments, Among, Pending, Thread!ToSet
<1>3. ThreadTypes'
  BY <1>1, <1>2 DEF ThreadInv, ThreadTypes, Thread!NoAsk
<1>4. Soon' /\ Single' /\ Sorted' /\ MoreOK' /\ AllShown'
  BY <1>1, <1>2 DEF ThreadInv, Soon, Single, Sorted, MoreOK, AllShown
<1>5. Heard'
  <2>1. \A i \in Pending : ~(i <= 0)
    BY PendingIs DEF ThreadInv
  <2>2. QED
    BY <1>1, <1>2, <2>1 DEF Heard
<1>6. AskOK'
  BY <1>1 DEF AskOK, Thread!NoAsk
<1>7. QED
  BY <1>1, <1>3, <1>4, <1>5, <1>6 DEF ThreadInv

LEMMA MoreIsAsked ==
  ASSUME ThreadInv, Thread!LoadMore
  PROVE  ThreadInv'
<1>1. /\ view.hasMore /\ UNCHANGED <<stored, own, due, events, base, owed>>
      /\ view' = [view EXCEPT !.loading = TRUE]
      /\ ask' = Thread!Asked("more", Thread!OldestTime(view.comments))
  BY DEF Thread!LoadMore
<1>2. view'.comments = view.comments /\ view'.hasMore = view.hasMore
  BY <1>1 DEF ThreadInv, ThreadTypes
<1>3. Thread!OldestTime(view.comments) = stored[Oldest(Comments)]
  BY DEF Thread!OldestTime, Thread!Last, Oldest, Comments
<1>4. stored[Oldest(Comments)] \in Nat
  <2>1. Len(Comments) \in 1..Len(Comments) /\ Oldest(Comments) \in Among(Comments)
    BY <1>1, SMTT(20) DEF ThreadInv, ThreadTypes, MoreOK, Comments, Among, Oldest
  <2>2. Oldest(Comments) \in 1..Len(stored)
    BY <2>1 DEF ThreadInv, ThreadTypes
  <2>3. QED
    BY <2>2 DEF ThreadInv, ThreadTypes
<1>5. ask' = [Thread!NoAsk EXCEPT !.kind = "more", !.at = "asked", !.before = stored[Oldest(Comments)]]
  BY <1>1, <1>3 DEF Thread!Asked
<1>6. ask' \in [kind : {"none", "load", "more"}, at : {"none", "asked", "read"},
                before : Nat, rows : Seq(Nat), count : Nat]
  <2>1. PICK b \in Nat : b = stored[Oldest(Comments)]
    BY <1>4
  <2>2. ask' = [Thread!NoAsk EXCEPT !.kind = "more", !.at = "asked", !.before = b]
    BY <1>5, <2>1
  <2>3. ask' = [kind |-> "more", at |-> "asked", before |-> b, rows |-> <<>>, count |-> 0]
    BY <2>2 DEF Thread!NoAsk
  <2>4. QED
    BY <2>3
<1>7. ThreadTypes'
  <2>1. view' \in [comments : Seq(Nat), hasMore : BOOLEAN, loading : BOOLEAN]
    BY <1>1 DEF ThreadInv, ThreadTypes
  <2>2. Among(Comments)' = Among(Comments) /\ Among(events.wire)' = Among(events.wire)
    BY <1>1, <1>2 DEF Comments, Among
  <2>3. UNCHANGED <<stored, own, due, events, base, owed>>
    BY <1>1
  <2>4. QED
    BY <1>6, <2>1, <2>2, <2>3 DEF ThreadInv, ThreadTypes
<1>8. AskOK'
  <2>1. stored[Oldest(Comments)]' = stored[Oldest(Comments)]
    BY <1>1, <1>2 DEF Comments, Oldest
  <2>2. ask'.kind = "more" /\ ask'.at = "asked" /\ ask'.before = stored[Oldest(Comments)]
    BY <1>5 DEF Thread!NoAsk
  <2>3. QED
    BY <1>1, <1>2, <2>1, <2>2 DEF AskOK
<1>9. QED
  BY <1>1, <1>2, <1>7, <1>8, ShownStays DEF ThreadInv

LEMMA MoreListFails ==
  ASSUME ThreadInv, Thread!MoreFails
  PROVE  ThreadInv'
<1>1. /\ UNCHANGED <<stored, own, due, events, base, owed>>
      /\ view' = [view EXCEPT !.loading = FALSE] /\ ask' = Thread!NoAsk
  BY DEF Thread!MoreFails
<1>2. view'.comments = view.comments /\ view'.hasMore = view.hasMore
  BY <1>1 DEF ThreadInv, ThreadTypes
<1>3. ThreadTypes'
  <2>1. view' \in [comments : Seq(Nat), hasMore : BOOLEAN, loading : BOOLEAN]
    BY <1>1 DEF ThreadInv, ThreadTypes
  <2>2. ask' \in [kind : {"none", "load", "more"}, at : {"none", "asked", "read"},
                  before : Nat, rows : Seq(Nat), count : Nat]
    BY <1>1 DEF Thread!NoAsk
  <2>3. QED
    BY <1>1, <1>2, <2>1, <2>2 DEF ThreadInv, ThreadTypes, Among, Comments
<1>4. AskOK'
  BY <1>1 DEF AskOK, Thread!NoAsk
<1>5. QED
  BY <1>1, <1>2, <1>3, <1>4, ShownStays DEF ThreadInv

(* Older comments go below those shown.                                     *)
LEMMA MoreIsShown ==
  ASSUME ThreadInv, Thread!MoreLoaded
  PROVE  ThreadInv'
<1> DEFINE rows == ask.rows
           N == Len(stored)
           c == Comments
           d == c \o rows
           b == stored[Oldest(c)]
<1>0. /\ ask.kind = "more" /\ ask.at = "read" /\ ReadOK /\ view.hasMore /\ ask.before = b
      /\ UNCHANGED <<stored, own, due, events, base, owed>> /\ ask' = Thread!NoAsk
      /\ view' = [comments |-> d, hasMore |-> Len(rows) >= Limit, loading |-> FALSE]
  BY DEF Thread!MoreLoaded, ThreadInv, AskOK, Comments
<1>1. /\ stored \in Seq(Nat \ {0}) /\ N \in Nat /\ base \in 0..N
      /\ \A j \in 1..N : stored[j] \in Nat \ {0}
      /\ Limit \in Nat \ {0} /\ rows \in Seq(Nat) /\ Len(rows) \in Nat
  BY LimitIs DEF ThreadInv, ThreadTypes
<1>c. c \in Seq(Nat) /\ rows \in Seq(Nat) /\ Len(c) \in Nat /\ Len(c) > 0
  <2>1. view.hasMore /\ Len(Comments) > 0
    BY <1>0 DEF ThreadInv, MoreOK
  <2>2. QED
    BY <1>1, <2>1 DEF ThreadInv, ThreadTypes, Comments
<1> HIDE DEF rows, N, c
<1>2. /\ d \in Seq(Nat) /\ Len(d) = Len(c) + Len(rows)
      /\ \A p \in 1..Len(c) : d[p] = c[p]
      /\ \A p \in 1..Len(d) : p > Len(c) => p - Len(c) \in 1..Len(rows) /\ d[p] = rows[p - Len(c)]
      /\ Among(d) = Among(c) \union Among(rows)
      /\ Len(rows) > 0 => Oldest(d) = Oldest(rows)
  BY <1>c, AtEnd
<1> HIDE DEF d
<1>3. ask.count \in base..N /\ Among(rows) \subseteq 1..ask.count
  BY <1>0 DEF ReadOK, rows, N
<1>4. /\ ask.count \in 0..N /\ 1..ask.count \subseteq 1..N /\ 1..base \subseteq 1..ask.count
      /\ Among(rows) \subseteq 1..N /\ Among(c) \subseteq 1..N
  <2>1. ask.count \in 0..N /\ 1..ask.count \subseteq 1..N /\ 1..base \subseteq 1..ask.count
    BY <1>1, <1>3
  <2>2. QED
    BY <1>3, <2>1 DEF ThreadInv, ThreadTypes, c, N
<1>5. Oldest(c) \in Among(c) /\ b \in Nat \ {0}
  <2>1. Oldest(c) \in Among(c)
    BY <1>c DEF Oldest, Among
  <2>2. QED
    BY <1>1, <1>4, <2>1
<1> HIDE DEF b
<1>6. /\ \A p, q \in 1..Len(rows) : p < q => rows[p] # rows[q] /\ stored[rows[p]] >= stored[rows[q]]
      /\ \A i \in Among(rows) : stored[i] < b
      /\ \A i \in 1..ask.count \ Among(rows) :
            stored[i] < b => Len(rows) >= Limit /\ stored[i] <= stored[Oldest(rows)]
  BY <1>0, <1>5 DEF ReadOK, rows
<1>7. /\ \A i \in (Among(c) \union Pending) \ own : stored[i] >= b
      /\ \A i \in owed \ Among(c) : stored[i] < b \/ Thread!Tied(i)
  BY <1>0 DEF ThreadInv, MoreOK, b, c
<1>8. /\ Comments' = d /\ Among(Comments)' = Among(d) /\ view'.hasMore = (Len(rows) >= Limit)
      /\ Pending' = Pending /\ \A i, j : Thread!Tied(i)' = Thread!Tied(i) /\ Above(i, j)' = Above(i, j)
  <2>1. Comments' = d
    BY <1>0 DEF Comments
  <2>2. Among(Comments)' = Among(d)
    BY <2>1 DEF Among
  <2>3. QED
    BY <1>0, <2>1, <2>2 DEF Pending, Thread!ToSet, Thread!Tied, Above
<1>9. \A i \in 1..N, k \in 1..N : k # i /\ stored[k] = stored[i] => Thread!Tied(i)
  BY <1>1 DEF Thread!Tied, N
<1>10. /\ \A p \in 1..Len(c) : c[p] \in Among(c)
       /\ \A p \in 1..Len(rows) : rows[p] \in Among(rows)
  BY DEF Among
<1>11. ASSUME NEW i \in owed, i \notin Among(d), ~Thread!Tied(i)
       PROVE  Len(rows) >= Limit /\ stored[i] <= stored[Oldest(rows)] /\ i \in 1..N
  <2>1. i \in 1..base /\ i \notin Among(rows) /\ stored[i] < b
    BY <1>2, <1>7, <1>11 DEF ThreadInv, c
  <2>2. QED
    BY <1>4, <1>6, <2>1
<1>12. Len(rows) >= Limit => Oldest(rows) \in Among(rows) /\ Len(rows) \in 1..Len(rows)
  BY <1>1 DEF Oldest, Among
<1>13. ThreadTypes'
  <2>1. /\ Among(Comments)' \subseteq 1..N /\ Among(events.wire)' = Among(events.wire)
    <3>1. Among(events.wire)' = Among(events.wire)
      BY <1>0 DEF Among
    <3>2. QED
      BY <1>2, <1>4, <1>8, <3>1
  <2>2. view' \in [comments : Seq(Nat), hasMore : BOOLEAN, loading : BOOLEAN]
    BY <1>0, <1>2
  <2>3. ask' \in [kind : {"none", "load", "more"}, at : {"none", "asked", "read"},
                  before : Nat, rows : Seq(Nat), count : Nat]
    BY <1>0 DEF Thread!NoAsk
  <2>4. QED
    BY <1>0, <2>1, <2>2, <2>3 DEF ThreadInv, ThreadTypes, N
<1>14. Soon'
  BY <1>0, <1>8 DEF ThreadInv, Soon
<1>15. ASSUME NEW p \in 1..Len(d), NEW q \in 1..Len(d), p < q
       PROVE  (d[p] # d[q] \/ d[p] \in own) /\ Above(d[p], d[q])
  <2>1. CASE q <= Len(c)
    <3>1. p \in 1..Len(c) /\ q \in 1..Len(c) /\ p # q
      BY <1>c, <1>15, <2>1
    <3>2. (c[p] # c[q] \/ c[p] \in own) /\ Above(c[p], c[q])
      BY <1>15, <3>1 DEF ThreadInv, Single, Sorted, c
    <3>3. QED
      BY <1>2, <3>1, <3>2
  <2>2. CASE p <= Len(c) /\ q > Len(c)
    <3>1. p \in 1..Len(c) /\ q - Len(c) \in 1..Len(rows) /\ d[q] = rows[q - Len(c)] /\ d[p] = c[p]
      <4>1. p \in 1..Len(c)
        BY <1>c, <2>2
      <4>2. q - Len(c) \in 1..Len(rows) /\ d[q] = rows[q - Len(c)]
        BY <1>2, <2>2
      <4>3. QED
        BY <1>2, <4>1, <4>2
    <3>2. d[p] \in Among(c) /\ d[q] \in Among(rows) /\ stored[d[p]] \in Nat /\ stored[d[q]] \in Nat
      BY <1>1, <1>4, <1>10, <3>1
    <3>3. CASE d[p] \in own
      BY <3>3 DEF Above
    <3>4. CASE d[p] \notin own
      <4>1. stored[d[p]] >= b /\ stored[d[q]] < b
        BY <1>6, <1>7, <3>2, <3>4
      <4>2. stored[d[p]] >= stored[d[q]] /\ stored[d[p]] # stored[d[q]]
        BY <1>5, <3>2, <4>1
      <4>3. QED
        BY <4>2 DEF Above
    <3>5. QED
      BY <3>3, <3>4
  <2>3. CASE p > Len(c) /\ q > Len(c)
    <3>1. /\ p - Len(c) \in 1..Len(rows) /\ q - Len(c) \in 1..Len(rows) /\ p - Len(c) < q - Len(c)
          /\ d[p] = rows[p - Len(c)] /\ d[q] = rows[q - Len(c)]
      BY <1>c, <1>2, <1>15, <2>3
    <3>2. QED
      BY <1>6, <3>1 DEF Above
  <2>4. QED
    BY <1>c, <1>2, <1>15, <2>1, <2>2, <2>3
<1>16. Single'
  <2> SUFFICES ASSUME NEW p \in 1..Len(d), NEW q \in 1..Len(d), d[p] = d[q], d[p] \notin own, p # q
               PROVE  FALSE
    BY <1>0, <1>8 DEF Single
  <2>1. p < q \/ q < p
    BY <1>2
  <2>2. QED
    BY <1>15, <2>1
<1>17. Sorted'
  BY <1>8, <1>15 DEF Sorted
<1>18. MoreOK'
  <2> SUFFICES ASSUME Len(rows) >= Limit
      PROVE  /\ Len(d) > 0
             /\ \A i \in (Among(d) \union Pending) \ own : stored[i] >= stored[Oldest(d)]
             /\ \A i \in owed \ Among(d) : stored[i] < stored[Oldest(d)] \/ Thread!Tied(i)
    BY <1>0, <1>8 DEF MoreOK, Oldest
  <2>1. Len(d) > 0 /\ Oldest(d) = Oldest(rows)
    BY <1>1, <1>c, <1>2
  <2>2. Oldest(rows) \in Among(rows) /\ Oldest(rows) \in 1..N /\ stored[Oldest(rows)] < b
    BY <1>4, <1>6, <1>12
  <2>3. ASSUME NEW i \in Among(rows) PROVE stored[i] >= stored[Oldest(rows)]
    <3>1. PICK p \in 1..Len(rows) : i = rows[p]
      BY <2>3 DEF Among
    <3>2. CASE p = Len(rows)
      BY <1>1, <2>2, <3>1, <3>2 DEF Oldest
    <3>3. CASE p < Len(rows)
      BY <1>6, <1>12, <3>1, <3>3 DEF Oldest
    <3>4. QED
      BY <1>1, <3>2, <3>3
  <2>4. ASSUME NEW i \in (Among(c) \union Pending) \ own PROVE stored[i] >= stored[Oldest(rows)]
    <3>1. i \in 1..N /\ stored[i] >= b
      BY <1>4, <1>7, PendingIs DEF ThreadInv, N
    <3>2. QED
      BY <1>1, <1>5, <2>2, <3>1
  <2>5. ASSUME NEW i \in owed \ Among(d)
        PROVE  stored[i] < stored[Oldest(rows)] \/ Thread!Tied(i)
    <3> SUFFICES ASSUME ~Thread!Tied(i) PROVE stored[i] < stored[Oldest(rows)]
      OBVIOUS
    <3>1. i \in 1..N /\ stored[i] <= stored[Oldest(rows)] /\ i # Oldest(rows)
      BY <1>2, <1>11, <2>2
    <3>2. stored[i] # stored[Oldest(rows)]
      BY <1>9, <2>2, <3>1
    <3>3. QED
      BY <1>1, <2>2, <3>1, <3>2
  <2>6. QED
    BY <1>2, <2>1, <2>3, <2>4, <2>5
<1>19. AllShown'
  BY <1>0, <1>8, <1>11 DEF AllShown
<1>20. Heard'
  BY <1>0, <1>2, <1>8 DEF ThreadInv, Heard, c
<1>21. AskOK'
  BY <1>0 DEF AskOK, Thread!NoAsk
<1>22. (owed \subseteq (1..base) \union Among(Comments))'
  <2>1. owed' \subseteq (1..base') \union Among(Comments)'
    BY <1>0, <1>2, <1>8 DEF ThreadInv, c
  <2>2. QED
    BY <2>1
<1>23. QED
  BY <1>13, <1>14, <1>16, <1>17, <1>18, <1>19, <1>20, <1>21, <1>22 DEF ThreadInv

LEMMA EventSent ==
  ASSUME ThreadInv, NEW i \in due, Thread!Publish(i)
  PROVE  ThreadInv'
<1>1. events \in [on : BOOLEAN, wire : Seq(Nat)] /\ i \in 1..Len(stored) /\ i \in Nat
  BY DEF ThreadInv, ThreadTypes
<1>2. /\ due' = due \ {i} /\ UNCHANGED <<stored, own, ask, view, base, owed>>
      /\ events' = [events EXCEPT !.wire = Append(@, i)] \/ events' = events
  BY DEF Thread!Publish
<1>3. /\ events' \in [on : BOOLEAN, wire : Seq(Nat)]
      /\ Among(events'.wire) \subseteq Among(events.wire) \union {i}
  <2>1. PICK s \in Seq(Nat) : s = events.wire
    BY <1>1
  <2>2. CASE events' = events
    BY <1>1, <2>2
  <2>3. CASE events' = [events EXCEPT !.wire = Append(@, i)]
    <3>1. events' \in [on : BOOLEAN, wire : Seq(Nat)] /\ events'.wire = Append(s, i)
      <4>1. Append(s, i) \in Seq(Nat)
        BY <1>1
      <4>2. PICK t \in Seq(Nat) : t = Append(s, i)
        BY <4>1
      <4>3. events' = [events EXCEPT !.wire = t]
        BY <2>1, <2>3, <4>2
      <4>4. events' \in [on : BOOLEAN, wire : Seq(Nat)] /\ events'.wire = t
        BY <1>1, <4>3
      <4>5. QED
        BY <4>2, <4>4
    <3>2. /\ Len(Append(s, i)) = Len(s) + 1 /\ Len(s) \in Nat
          /\ \A p \in 1..Len(s) : Append(s, i)[p] = s[p]
          /\ Append(s, i)[Len(s) + 1] = i
      BY <1>1
    <3>3. ASSUME NEW p \in 1..Len(Append(s, i)) PROVE Append(s, i)[p] \in Among(s) \union {i}
      <4>1. p \in 1..Len(s) \/ p = Len(s) + 1
        BY <3>2
      <4>2. QED
        BY <3>2, <4>1 DEF Among
    <3>4. QED
      BY <2>1, <3>1, <3>3 DEF Among
  <2>4. QED
    BY <1>2, <2>2, <2>3
<1>4. Pending' \subseteq Pending
  <2>1. Pending' = due' \union Among(events'.wire)
    <3>1. Thread!ToSet(events'.wire) = Among(events'.wire)
      BY <1>3, ToSetIs
    <3>2. QED
      BY <3>1 DEF Pending, Thread!ToSet
  <2>2. QED
    BY <1>2, <1>3, <2>1, PendingIs DEF ThreadInv
<1>5. Among(events'.wire) \subseteq 1..Len(stored)
  BY <1>1, <1>3 DEF ThreadInv, ThreadTypes
<1>6. Among(events.wire)' \subseteq 1..Len(stored)
  BY <1>5 DEF Among
<1>7. QED
  BY <1>2, <1>3, <1>4, <1>6, PendingShrinks

LEMMA StreamStops ==
  ASSUME ThreadInv, Thread!Subscribe \/ Thread!StreamBreaks
  PROVE  ThreadInv'
<1>1. /\ UNCHANGED <<stored, own, due, ask, view, base, owed>>
      /\ events \in [on : BOOLEAN, wire : Seq(Nat)]
      /\ events' = [events EXCEPT !.on = TRUE] \/ events' = [on |-> FALSE, wire |-> <<>>]
  BY DEF Thread!Subscribe, Thread!StreamBreaks, ThreadInv, ThreadTypes
<1>2. /\ events' \in [on : BOOLEAN, wire : Seq(Nat)]
      /\ events'.wire = events.wire \/ events'.wire = <<>>
  <2>1. CASE events' = [events EXCEPT !.on = TRUE]
    BY <1>1, <2>1
  <2>2. CASE events' = [on |-> FALSE, wire |-> <<>>]
    BY <2>2
  <2>3. QED
    BY <1>1, <2>1, <2>2
<1>3. /\ Among(events.wire)' \subseteq Among(events.wire)
      /\ Thread!ToSet(events'.wire) \subseteq Thread!ToSet(events.wire)
  BY <1>2 DEF Among, Thread!ToSet
<1>4. Among(events.wire)' \subseteq 1..Len(stored)
  BY <1>3 DEF ThreadInv, ThreadTypes
<1>5. Pending' \subseteq Pending
  BY <1>1, <1>3 DEF Pending, Thread!ToSet
<1>6. QED
  BY <1>1, <1>2, <1>4, <1>5, PendingShrinks

LEMMA OwnIsShown ==
  ASSUME ThreadInv, Thread!Submitted
  PROVE  ThreadInv'
<1>1. PICK i \in own : /\ UNCHANGED <<stored, own, due, events, ask, base>>
                       /\ view' = [view EXCEPT !.comments = <<i>> \o @]
                       /\ owed' = owed \union {i}
  BY DEF Thread!Submitted
<1>2. /\ i \in 1..Len(stored) /\ events' \in [on : BOOLEAN, wire : Seq(Nat)]
      /\ Among(events.wire)' \subseteq 1..Len(stored) /\ Pending' = Pending
  BY <1>1 DEF ThreadInv, ThreadTypes, Among, Pending, Thread!ToSet
<1>3. QED
  BY <1>1, <1>2, ShownOnTop

LEMMA EventIsShown ==
  ASSUME ThreadInv, Thread!OnComment
  PROVE  ThreadInv'
<1> DEFINE w == events.wire
           i == Head(w)
<1>1. /\ w # <<>> /\ w \in Seq(Nat) /\ events \in [on : BOOLEAN, wire : Seq(Nat)]
      /\ UNCHANGED <<stored, own, due, ask, base>> /\ owed' = owed \union {i}
      /\ events' = [events EXCEPT !.wire = Tail(w)]
      /\ view' = [view EXCEPT !.comments = Thread!Put(i, view.comments)]
  BY DEF Thread!OnComment, ThreadInv, ThreadTypes
<1> HIDE DEF w
<1>2. /\ events' \in [on : BOOLEAN, wire : Seq(Nat)] /\ events'.wire = Tail(w)
  <2>0. w \in Seq(Nat) /\ w # <<>>
    BY <1>1
  <2>a. Tail(w) \in Seq(Nat)
    BY <2>0
  <2>1. PICK t \in Seq(Nat) : t = Tail(w)
    BY <2>a
  <2>2. events' = [events EXCEPT !.wire = t] /\ events \in [on : BOOLEAN, wire : Seq(Nat)]
    BY <1>1, <2>1
  <2>3. events' \in [on : BOOLEAN, wire : Seq(Nat)] /\ events'.wire = t
    BY <2>2
  <2>4. QED
    BY <2>1, <2>3
<1>3. i \in Among(w) /\ Among(Tail(w)) \subseteq Among(w)
  <2>1. i = w[1] /\ 1 \in 1..Len(w)
    BY <1>1
  <2>2. \A p \in 1..Len(Tail(w)) : p + 1 \in 1..Len(w) /\ Tail(w)[p] = w[p + 1]
    BY <1>1
  <2>3. QED
    BY <2>1, <2>2 DEF Among
<1> HIDE DEF i
<1>4. Among(events.wire)' \subseteq 1..Len(stored) /\ i \in 1..Len(stored) /\ i \in Pending
  <2>1. Among(w) \subseteq 1..Len(stored)
    BY DEF ThreadInv, ThreadTypes, w
  <2>2. Among(events.wire)' = Among(Tail(w))
    BY <1>2 DEF Among
  <2>3. QED
    BY <1>3, <2>1, <2>2, PendingIs DEF ThreadInv, w
<1>5. Pending' \subseteq Pending
  <2>1. Thread!ToSet(events'.wire) = Among(Tail(w))
    BY <1>2, ToSetIs
  <2>2. Pending' = due \union Thread!ToSet(events'.wire)
    BY <1>1 DEF Pending, Thread!ToSet
  <2>3. QED
    BY <1>3, <2>1, <2>2, PendingIs DEF ThreadInv, w
<1>6. Thread!ToSet(view.comments) = Among(Comments)
  BY ToSetIs DEF ThreadInv, ThreadTypes, Comments
<1>7. CASE i \in Among(Comments)
  <2>1. view' = [view EXCEPT !.comments = view.comments]
    BY <1>1, <1>6, <1>7 DEF Thread!Put
  <2>2. view' = view
    BY <2>1 DEF ThreadInv, ThreadTypes
  <2>3. owed' \subseteq owed \union Among(Comments)
    BY <1>1, <1>7
  <2>4. QED
    BY <1>1, <1>2, <1>4, <1>5, <2>2, <2>3, PendingShrinks
<1>8. CASE i \notin Among(Comments)
  <2>1. view' = [view EXCEPT !.comments = <<i>> \o @]
    BY <1>1, <1>6, <1>8 DEF Thread!Put
  <2>2. QED
    BY <1>1, <1>2, <1>4, <1>5, <1>8, <2>1, ShownOnTop
<1>9. QED
  BY <1>7, <1>8

(* For any number of comments, any size of a page, any failures of calls    *)
(* and streams: a comment of somebody else is shown once, older ones below, *)
(* and a page that offers no more shows all it was given, but for comments  *)
(* of one millisecond.  The events may be as slow as fewer than a page of   *)
(* comments stored meanwhile.                                               *)
THEOREM ThreadStaysWhole == RequestsSpec => []ThreadWhole
<1>1. RequestsInit => ThreadInv
  <2> SUFFICES ASSUME RequestsInit PROVE ThreadInv
    OBVIOUS
  <2>1. /\ stored = <<>> /\ own = {} /\ due = {} /\ events = [on |-> FALSE, wire |-> <<>>]
        /\ ask = Thread!Asked("load", 0) /\ base = 0 /\ owed = {}
        /\ view = [comments |-> <<>>, hasMore |-> FALSE, loading |-> TRUE]
    BY DEF RequestsInit, Thread!Init
  <2>2. Comments = <<>> /\ Len(Comments) = 0 /\ Among(Comments) = {} /\ Among(events.wire) = {}
    BY <2>1 DEF Comments, Among
  <2>3. /\ ask.kind = "load" /\ ask.at = "asked" /\ ask.before = 0
        /\ ask \in [kind : {"none", "load", "more"}, at : {"none", "asked", "read"},
                    before : Nat, rows : Seq(Nat), count : Nat]
    <3>1. ask = [kind |-> "load", at |-> "asked", before |-> 0, rows |-> <<>>, count |-> 0]
      BY <2>1 DEF Thread!Asked, Thread!NoAsk
    <3>2. QED
      BY <3>1
  <2>4. ThreadTypes
    BY <2>1, <2>2, <2>3 DEF ThreadTypes
  <2>5. Pending = {}
    BY <2>1, <2>2, <2>4, PendingIs
  <2>6. AskOK
    BY <2>1, <2>3 DEF AskOK
  <2>7. QED
    BY <2>1, <2>2, <2>4, <2>5, <2>6
    DEF ThreadInv, Soon, Single, Sorted, MoreOK, AllShown, Heard
<1>2. ThreadInv /\ [RequestsNext]_requests => ThreadInv'
  <2> SUFFICES ASSUME ThreadInv, [RequestsNext]_requests PROVE ThreadInv'
    OBVIOUS
  <2>1. UNCHANGED threadVars \/ Thread!Next
    BY DEF RequestsNext, Session, Replaying, Rate, Starting, Commenting, requests
  <2>2. ASSUME UNCHANGED <<stored, own, due, events, ask, view, base, owed>> PROVE ThreadInv'
    <3>1. Among(events.wire)' = Among(events.wire) /\ Pending' = Pending
      BY <2>2 DEF Among, Pending, Thread!ToSet
    <3>2. QED
      BY <2>2, <3>1, PendingShrinks DEF ThreadInv, ThreadTypes
  <2>3. CASE UNCHANGED threadVars
    BY <2>2, <2>3 DEF threadVars
  <2>4. CASE Thread!Next
    <3>1. CASE Thread!PostComment \/ Thread!PostOwnComment
      BY <3>1, CommentStored DEF Thread!PostComment, Thread!PostOwnComment
    <3>2. CASE Thread!Submit \/ Thread!SubmitFails
      BY <2>2, <3>2 DEF Thread!Submit, Thread!SubmitFails
    <3>3. QED
      BY <2>4, <3>1, <3>2, ListKeeps, EventSent, FirstListShown, FirstListFails, MoreIsAsked,
         MoreIsShown, MoreListFails, OwnIsShown, StreamStops, EventIsShown DEF Thread!Next
  <2>5. QED
    BY <2>1, <2>3, <2>4
<1>3. ThreadInv => ThreadWhole
  BY WholeFollows DEF ThreadWhole
<1>4. QED
  BY <1>1, <1>2, <1>3, PTL DEF RequestsSpec
=============================================================================
