---------------------------- MODULE TokensProofs ----------------------------
(***************************************************************************)
(* Proofs about Tokens, for any number of users, requests, sessions and    *)
(* tokens: IInv is an inductive invariant of Spec, and OneLiveToken,       *)
(* ChainKeepsDeadline and FreshTokensAdmit follow from it.                 *)
(*                                                                         *)
(* OneLiveToken rests on what a request that runs alone covers: a login    *)
(* has found every token of its user once it looks for their locks, and    *)
(* holds them when it issues the new one; a refresh was given the only     *)
(* token that is live. Most steps move one request (RequestMoves).         *)
(***************************************************************************)
EXTENDS Tokens, FiniteSetTheorems, TLAPS

Busy(r) == pc[r] # "idle"

(* A token has an owner, a session, and the deadline of its login.         *)
TokensSound ==
  \A j \in Issued :
    /\ token[j].uid \in Uids /\ token[j].sid \in Sids
    /\ token[j].exp = token[j].login + Lifetime

(* What a request knows of its token, and that its session is good.        *)
RequestSound(r) ==
  Busy(r) =>
    /\ req[r].op \in {"login", "refresh"} /\ req[r].uid \in Uids
    /\ req[r].op = "refresh" =>
         /\ pc[r] \in {"session", "rotate", "issue", "reply"}
         /\ req[r].sid \in Sids /\ req[r].exp = req[r].login + Lifetime
    /\ req[r].op = "login" => pc[r] # "rotate"
    /\ pc[r] \in {"rotate", "issue", "reply"} =>
         req[r].sid \in Sids /\ (~req[r].lost => Admits(req[r].uid, req[r].sid))

(* A request that is alone is the only one of its user, and any request of *)
(* a user not in raced is alone.                                           *)
AloneSound(r) ==
  Busy(r) =>
    /\ req[r].alone => \A q \in Slots \ {r} : Busy(q) => req[q].uid # req[r].uid
    /\ req[r].uid \notin raced => req[r].alone

LoginCovers(r) ==
  Busy(r) /\ req[r].op = "login" /\ req[r].alone =>
    /\ pc[r] = "locks" => TokensOf(req[r].uid) \subseteq req[r].jti
    /\ pc[r] \in {"session", "issue"} => TokensOf(req[r].uid) \subseteq req[r].held

RefreshCovers(r) ==
  Busy(r) /\ req[r].op = "refresh" /\ req[r].uid \notin raced =>
    /\ pc[r] \in {"session", "rotate"} => Live(req[r].uid) \subseteq req[r].jti
    /\ pc[r] = "issue" => Live(req[r].uid) \subseteq req[r].held

AtMostOne == \A u \in Uids \ raced : \A i, j \in Live(u) : i = j

(* The inductive invariant.                                                *)
IInv ==
  /\ TypeOK /\ TokensSound /\ AtMostOne
  /\ \A r \in Slots : RequestSound(r) /\ AloneSound(r) /\ LoginCovers(r) /\ RefreshCovers(r)

(* A request moves on: the tokens, the sessions and the other requests     *)
(* stay as they are.                                                       *)
LEMMA RequestMoves ==
  ASSUME IInv, TypeOK', NEW r \in Slots, Busy(r),
         \A q \in Slots \ {r} : pc'[q] = pc[q] /\ req'[q] = req[q],
         Busy(r)' => req'[r].uid = req[r].uid /\ req'[r].alone = req[r].alone,
         RequestSound(r)', LoginCovers(r)', RefreshCovers(r)',
         UNCHANGED <<session, token, raced>>
  PROVE  IInv'
<1>1. TokensSound' /\ AtMostOne'
  BY DEF IInv, TokensSound, AtMostOne, Live, TokensOf, Issued
<1>2. ASSUME NEW q \in Slots \ {r}
      PROVE  RequestSound(q)' /\ LoginCovers(q)' /\ RefreshCovers(q)'
  BY <1>2 DEF IInv, RequestSound, LoginCovers, RefreshCovers, Busy, Live, TokensOf,
     Issued, Admits, ActiveSession
<1>3. ASSUME NEW q \in Slots PROVE AloneSound(q)'
  BY <1>3 DEF IInv, AloneSound, Busy
<1> QED
  BY <1>1, <1>2, <1>3 DEF IInv

LEMMA FindTokensKeeps ==
  ASSUME IInv, NEW r \in Slots, FindTokens(r)
  PROVE  IInv'
<1>1. /\ req'[r] = [req[r] EXCEPT !.held = {}, !.jti = TokensOf(req[r].uid)]
      /\ \A q \in Slots \ {r} : req'[q] = req[q]
      /\ DOMAIN req' = Slots /\ req' = [q \in Slots |-> req'[q]]
  BY DEF IInv, TypeOK, FindTokens
<1>2. req[r] \in Request /\ TokensOf(req[r].uid) \in SUBSET Jtis
  BY DEF IInv, TypeOK, TokensOf, Issued
<1>3. /\ req'[r] \in Request
      /\ req'[r].jti = TokensOf(req[r].uid) /\ req'[r].op = req[r].op
      /\ req'[r].uid = req[r].uid /\ req'[r].alone = req[r].alone
  BY <1>1, <1>2 DEF Request
<1>4. TypeOK'
  BY <1>1, <1>3 DEF IInv, TypeOK, FindTokens, Goto, Steps
<1>5. RequestSound(r)' /\ LoginCovers(r)' /\ RefreshCovers(r)'
  BY <1>3 DEF IInv, TypeOK, FindTokens, Goto, RequestSound, LoginCovers, RefreshCovers, Busy,
     TokensOf, Issued
<1>6. \A q \in Slots \ {r} : pc'[q] = pc[q]
  BY DEF IInv, TypeOK, FindTokens, Goto
<1>7. Busy(r) /\ UNCHANGED <<session, token, raced>>
  BY DEF FindTokens, Busy
<1> QED
  BY <1>1, <1>3, <1>4, <1>5, <1>6, <1>7, RequestMoves

LEMMA RevokeAllKeeps ==
  ASSUME IInv, NEW r \in Slots, RevokeAll(r)
  PROVE  IInv'
<1>1. TypeOK'
  BY DEF IInv, TypeOK, RevokeAll, Goto, Request, Steps
<1>2. RequestSound(r)' /\ LoginCovers(r)' /\ RefreshCovers(r)'
  BY DEF IInv, TypeOK, RevokeAll, Goto, RequestSound, LoginCovers, RefreshCovers, Busy,
     TokensOf, Issued, Request
<1> QED
  BY <1>1, <1>2, RequestMoves DEF IInv, TypeOK, RevokeAll, Goto, Busy, Request

LEMMA RevokeRefreshTokenJtiKeeps ==
  ASSUME IInv, NEW r \in Slots, RevokeRefreshTokenJti(r)
  PROVE  IInv'
<1>1. TypeOK'
  BY DEF IInv, TypeOK, RevokeRefreshTokenJti, RevokeJti, Goto, Request, Steps
<1>2. RequestSound(r)' /\ LoginCovers(r)' /\ RefreshCovers(r)'
  BY DEF IInv, TypeOK, RevokeRefreshTokenJti, RevokeJti, Goto, RequestSound, LoginCovers,
     RefreshCovers, Busy, Live, TokensOf, Issued, Request, Admits, ActiveSession
<1> QED
  BY <1>1, <1>2, RequestMoves DEF IInv, TypeOK, RevokeRefreshTokenJti, Goto, Busy, Request

LEMMA IdleIsRequest == Idle \in Request
BY DEF Idle, Request

LEMMA FinishKeeps ==
  ASSUME IInv, NEW r \in Slots, Reply(r) \/ FailRequest(r)
  PROVE  IInv'
<1>1. TypeOK'
  <2>1. failures' \in 0..MaxFailures
    BY ConstantsAssumption DEF IInv, TypeOK, Reply, FailRequest
  <2>2. pc' \in [Slots -> Steps] /\ req' \in [Slots -> Request]
    BY IdleIsRequest DEF IInv, TypeOK, Reply, FailRequest, Finish, Goto, Steps
  <2> QED
    BY <2>1, <2>2 DEF IInv, TypeOK, Reply, FailRequest
<1>2. RequestSound(r)' /\ LoginCovers(r)' /\ RefreshCovers(r)'
  BY DEF IInv, TypeOK, Reply, FailRequest, Finish, Goto, RequestSound, LoginCovers,
     RefreshCovers, Busy
<1> QED
  BY <1>1, <1>2, RequestMoves DEF IInv, TypeOK, Reply, FailRequest, Finish, Goto, Busy

(* A request of a user starts, knowing what t says. Those of the user that *)
(* are under way are not alone any more.                                   *)
LEMMA StartKeeps ==
  ASSUME IInv, NEW r \in Slots, NEW s \in {"update", "session"}, NEW t \in Request,
         t.op \in {"login", "refresh"}, t.uid \in Uids,
         t.op = "login" => s = "update",
         t.op = "refresh" =>
           /\ s = "session" /\ t.sid \in Sids /\ t.exp = t.login + Lifetime
           /\ t.uid \notin raced => Live(t.uid) \subseteq t.jti,
         Start(r, s, t), UNCHANGED <<session, token, now, failures>>
  PROVE  IInv'
<1> DEFINE others == {q \in Slots : pc[q] # "idle" /\ req[q].uid = t.uid}
<1>1. /\ pc[r] = "idle" /\ pc' = [pc EXCEPT ![r] = s]
      /\ raced' = IF others = {} THEN raced ELSE raced \cup {t.uid}
  BY DEF Start, Goto
<1>2. /\ req' = [q \in Slots |-> IF q = r THEN [t EXCEPT !.alone = (others = {})]
                                ELSE IF q \in others THEN [req[q] EXCEPT !.alone = FALSE]
                                ELSE req[q]]
      /\ \A q \in Slots : req[q] \in Request
  BY DEF Start, IInv, TypeOK
<1>3. /\ req'[r] \in Request
      /\ req'[r].op = t.op /\ req'[r].uid = t.uid /\ req'[r].sid = t.sid
      /\ req'[r].exp = t.exp /\ req'[r].login = t.login /\ req'[r].jti = t.jti
      /\ req'[r].alone <=> others = {}
  <2> HIDE DEF others
  <2>1. req'[r] = [t EXCEPT !.alone = (others = {})]
    BY <1>2
  <2> QED
    BY <2>1 DEF Request
<1>4. ASSUME NEW q \in Slots \ {r}
      PROVE  /\ req'[q] \in Request
             /\ req'[q].op = req[q].op /\ req'[q].uid = req[q].uid
             /\ req'[q].sid = req[q].sid /\ req'[q].exp = req[q].exp
             /\ req'[q].login = req[q].login /\ req'[q].jti = req[q].jti
             /\ req'[q].held = req[q].held /\ req'[q].lost = req[q].lost
             /\ q \in others => ~req'[q].alone
             /\ q \notin others => req'[q] = req[q]
  <2> HIDE DEF others
  <2>1. CASE q \in others
    <3>1. req'[q] = [req[q] EXCEPT !.alone = FALSE] /\ req[q] \in Request
      BY <1>2, <2>1
    <3> QED
      BY <2>1, <3>1 DEF Request
  <2>2. CASE q \notin others
    BY <1>2, <2>2
  <2> QED
    BY <2>1, <2>2
<1>5. /\ req' \in [Slots -> Request] /\ pc' \in [Slots -> Steps] /\ pc'[r] = s
      /\ \A q \in Slots \ {r} : pc'[q] = pc[q]
  <2>1. req' \in [Slots -> Request]
    BY <1>2, <1>3, <1>4
  <2> QED
    BY <1>1, <2>1 DEF IInv, TypeOK, Steps
<1>6. TypeOK'
  BY <1>1, <1>5 DEF IInv, TypeOK
<1>7. TokensSound' /\ AtMostOne'
  BY <1>1 DEF IInv, TokensSound, AtMostOne, Live, TokensOf, Issued
<1>8. RequestSound(r)' /\ AloneSound(r)' /\ LoginCovers(r)' /\ RefreshCovers(r)'
  <2>1. RequestSound(r)' /\ LoginCovers(r)'
    BY <1>3, <1>5 DEF RequestSound, LoginCovers, Busy
  <2>2. AloneSound(r)'
    BY <1>1, <1>3, <1>4, <1>5 DEF AloneSound, Busy
  <2>3. RefreshCovers(r)'
    BY <1>1, <1>3, <1>5 DEF RefreshCovers, Busy, Live, TokensOf, Issued
  <2> QED
    BY <2>1, <2>2, <2>3
<1>9. ASSUME NEW q \in Slots \ {r}
      PROVE  RequestSound(q)' /\ AloneSound(q)' /\ LoginCovers(q)' /\ RefreshCovers(q)'
  <2>1. RequestSound(q)'
    BY <1>4, <1>5 DEF IInv, RequestSound, Busy, Admits, ActiveSession
  <2>2. AloneSound(q)'
    <3>1. ASSUME Busy(q)', req'[q].alone, NEW p \in Slots \ {q}, Busy(p)'
          PROVE  req'[p].uid # req'[q].uid
      BY <1>1, <1>3, <1>4, <1>5, <3>1 DEF IInv, AloneSound, Busy
    <3>2. ASSUME Busy(q)', req'[q].uid \notin raced' PROVE req'[q].alone
      BY <1>1, <1>4, <1>5, <3>2 DEF IInv, AloneSound, Busy
    <3> QED
      BY <3>1, <3>2 DEF AloneSound
  <2>3. LoginCovers(q)'
    BY <1>4, <1>5 DEF IInv, LoginCovers, Busy, TokensOf, Issued
  <2>4. RefreshCovers(q)'
    BY <1>1, <1>4, <1>5 DEF IInv, RefreshCovers, Busy, Live, TokensOf, Issued
  <2> QED
    BY <2>1, <2>2, <2>3, <2>4
<1> QED
  BY <1>6, <1>7, <1>8, <1>9 DEF IInv

LEMMA LoginKeeps ==
  ASSUME IInv, NEW r \in Slots, NEW u \in Uids, Login(r, u)
  PROVE  IInv'
<1> DEFINE t == [Idle EXCEPT !.op = "login", !.uid = u]
<1>1. t \in Request /\ t.op = "login" /\ t.uid = u
  BY DEF Idle, Request
<1> QED
  BY <1>1, StartKeeps DEF Login

LEMMA ParseValidRefreshTokenKeeps ==
  ASSUME IInv, NEW r \in Slots, NEW j \in Jtis, ParseValidRefreshToken(r, j)
  PROVE  IInv'
<1> DEFINE t == [Idle EXCEPT !.op = "refresh", !.uid = token[j].uid, !.jti = {j},
                             !.sid = token[j].sid, !.exp = token[j].exp,
                             !.login = token[j].login]
<1>1. /\ j \in Issued /\ token[j] \in Token /\ token[j].uid \in Uids
      /\ token[j].sid \in Sids /\ token[j].exp = token[j].login + Lifetime
      /\ j \in Live(token[j].uid)
  BY DEF ParseValidRefreshToken, IInv, TypeOK, TokensSound, Live, TokensOf
<1>2. /\ t \in Request /\ t.op = "refresh" /\ t.uid = token[j].uid /\ t.jti = {j}
      /\ t.sid = token[j].sid /\ t.exp = token[j].exp /\ t.login = token[j].login
  BY <1>1 DEF Idle, Request, Token
<1>3. t.uid \notin raced => Live(t.uid) \subseteq t.jti
  BY <1>1, <1>2 DEF IInv, AtMostOne
<1>4. Start(r, "session", t) /\ UNCHANGED <<session, token, now, failures>>
  BY DEF ParseValidRefreshToken
<1> HIDE DEF t
<1> QED
  BY <1>1, <1>2, <1>3, <1>4, StartKeeps

LEMMA TickKeeps ==
  ASSUME IInv, Tick
  PROVE  IInv'
<1>1. TypeOK'
  BY ConstantsAssumption DEF IInv, TypeOK, Tick
<1>2. TokensSound' /\ AtMostOne'
  BY DEF IInv, Tick, TokensSound, AtMostOne, Live, TokensOf, Issued
<1>3. ASSUME NEW r \in Slots
      PROVE  RequestSound(r)' /\ AloneSound(r)' /\ LoginCovers(r)' /\ RefreshCovers(r)'
  BY <1>3 DEF IInv, Tick, RequestSound, AloneSound, LoginCovers, RefreshCovers, Busy,
     Live, TokensOf, Issued, Admits, ActiveSession
<1> QED
  BY <1>1, <1>2, <1>3 DEF IInv

(* A logged-out session is one nobody has to be admitted by any more.      *)
LEMMA UpdateUserSessionLogoutKeeps ==
  ASSUME IInv, NEW s \in Sids, UpdateUserSessionLogout(s)
  PROVE  IInv'
<1>1. /\ session' = [session EXCEPT ![s].active = FALSE]
      /\ UNCHANGED <<token, pc, raced, now, failures>>
      /\ \A x \in Sids : session[x] \in Session
      /\ \A r \in Slots : req[r] \in Request
  BY DEF UpdateUserSessionLogout, IInv, TypeOK
<1>2. session' \in [Sids -> Session]
  <2>1. [session[s] EXCEPT !.active = FALSE] \in Session
    BY <1>1 DEF Session
  <2> QED
    BY <1>1, <2>1 DEF IInv, TypeOK
<1>3. ASSUME NEW r \in Slots
      PROVE  /\ req'[r] \in Request
             /\ req'[r].op = req[r].op /\ req'[r].uid = req[r].uid
             /\ req'[r].sid = req[r].sid /\ req'[r].exp = req[r].exp
             /\ req'[r].login = req[r].login /\ req'[r].jti = req[r].jti
             /\ req'[r].held = req[r].held /\ req'[r].alone = req[r].alone
             /\ ~req'[r].lost => ~req[r].lost /\ req[r].sid # s
  <2>1. CASE req[r].sid = s
    <3>1. req'[r] = [req[r] EXCEPT !.lost = TRUE] /\ req[r] \in Request
      BY <1>1, <2>1 DEF UpdateUserSessionLogout
    <3> QED
      BY <3>1 DEF Request
  <2>2. CASE req[r].sid # s
    BY <1>1, <2>2 DEF UpdateUserSessionLogout
  <2> QED
    BY <2>1, <2>2
<1>4. req' \in [Slots -> Request]
  BY <1>3 DEF UpdateUserSessionLogout
<1>5. TypeOK' /\ TokensSound' /\ AtMostOne'
  BY <1>1, <1>2, <1>4 DEF IInv, TypeOK, TokensSound, AtMostOne, Live, TokensOf, Issued
<1>6. ASSUME NEW r \in Slots
      PROVE  RequestSound(r)' /\ AloneSound(r)' /\ LoginCovers(r)' /\ RefreshCovers(r)'
  <2>1. RequestSound(r)'
    <3>1. ASSUME NEW x \in Sids, x # s, NEW u, Admits(u, x) PROVE Admits(u, x)'
      BY <1>1, <3>1 DEF Admits, ActiveSession, IInv, TypeOK
    <3> QED
      BY <1>1, <1>3, <3>1 DEF IInv, RequestSound, Busy
  <2>2. AloneSound(r)' /\ LoginCovers(r)' /\ RefreshCovers(r)'
    BY <1>1, <1>3 DEF IInv, AloneSound, LoginCovers, RefreshCovers, Busy, Live, TokensOf,
       Issued
  <2> QED
    BY <2>1, <2>2
<1> QED
  BY <1>5, <1>6 DEF IInv

(* The new session is nobody's before, so no other request relies on it.   *)
LEMMA CreateSessionKeeps ==
  ASSUME IInv, NEW r \in Slots, NEW s \in {"rotate", "issue"}, pc[r] = "session",
         s = (IF req[r].op = "refresh" THEN "rotate" ELSE "issue"), CreateSession(r, s)
  PROVE  IInv'
<1>1. PICK n \in Sids : n = NewSid /\ session[n].uid = None
  BY DEF CreateSession, NewSid, Unborn
<1>2. /\ session' = [session EXCEPT ![n] = [uid |-> req[r].uid, active |-> TRUE]]
      /\ req' = [req EXCEPT ![r].sid = n, ![r].lost = FALSE] /\ pc' = [pc EXCEPT ![r] = s]
      /\ UNCHANGED <<token, raced, now, failures>>
  BY <1>1 DEF CreateSession, Goto
<1>3. req[r] \in Request /\ req[r].uid \in Uids
  BY DEF IInv, TypeOK, RequestSound, Busy
<1>4. /\ req'[r] \in Request
      /\ req'[r].op = req[r].op /\ req'[r].uid = req[r].uid
      /\ req'[r].sid = n /\ req'[r].exp = req[r].exp
      /\ req'[r].login = req[r].login /\ req'[r].jti = req[r].jti
      /\ req'[r].held = req[r].held /\ req'[r].alone = req[r].alone
  <2>1. req'[r] = [req[r] EXCEPT !.sid = n, !.lost = FALSE]
    BY <1>2 DEF IInv, TypeOK
  <2> QED
    BY <1>1, <1>3, <2>1 DEF Request
<1>5. /\ pc'[r] = s /\ \A q \in Slots \ {r} : req'[q] = req[q] /\ pc'[q] = pc[q]
      /\ req' \in [Slots -> Request] /\ pc' \in [Slots -> Steps]
      /\ UNCHANGED <<token, raced>>
  BY <1>2, <1>4 DEF IInv, TypeOK, Steps
<1>6. TypeOK'
  BY <1>1, <1>2, <1>3, <1>5 DEF IInv, TypeOK, Session
<1>7. TokensSound' /\ AtMostOne'
  BY <1>2 DEF IInv, TokensSound, AtMostOne, Live, TokensOf, Issued
<1>8. /\ session'[n].active /\ session'[n].uid = req[r].uid
      /\ \A u \in Uids, x \in Sids :
           session[x].active /\ session[x].uid = u => session'[x].active /\ session'[x].uid = u
  BY <1>1, <1>2, <1>3, ConstantsAssumption DEF Admits, ActiveSession, IInv, TypeOK
<1>9. ASSUME NEW q \in Slots
      PROVE  RequestSound(q)' /\ AloneSound(q)' /\ LoginCovers(q)' /\ RefreshCovers(q)'
  <2>1. ASSUME q = r PROVE RequestSound(q)'
    <3>1. Admits(req[q].uid, req[q].sid)'
      BY <1>1, <1>4, <1>8, <2>1, ConstantsAssumption DEF Admits, ActiveSession, Sids
    <3> QED
      BY <1>1, <1>4, <1>5, <2>1, <3>1 DEF IInv, RequestSound, Busy
  <2>2. ASSUME q # r PROVE RequestSound(q)'
    <3>1. pc'[q] = pc[q] /\ req'[q] = req[q] /\ RequestSound(q)
      BY <1>5, <2>2 DEF IInv
    <3>2. ASSUME req[q].uid \in Uids, req[q].sid \in Sids, Admits(req[q].uid, req[q].sid)
          PROVE  Admits(req[q].uid, req[q].sid)'
      BY <1>8, <3>1, <3>2 DEF Admits, ActiveSession
    <3> QED
      BY <3>1, <3>2 DEF RequestSound, Busy
  <2>3. AloneSound(q)'
    BY <1>4, <1>5 DEF IInv, AloneSound, Busy
  <2>4. LoginCovers(q)'
    BY <1>4, <1>5 DEF IInv, LoginCovers, Busy, TokensOf, Issued
  <2>5. RefreshCovers(q)'
    BY <1>4, <1>5 DEF IInv, RefreshCovers, Busy, Live, TokensOf, Issued
  <2> QED
    BY <2>1, <2>2, <2>3, <2>4, <2>5
<1> QED
  BY <1>6, <1>7, <1>9 DEF IInv

LEMMA ResolveSessionKeeps ==
  ASSUME IInv, NEW r \in Slots, ResolveSession(r)
  PROVE  IInv'
<1>1. CASE Reusable(r) /\ Goto(r, "rotate") /\ UNCHANGED <<session, token, req, raced, now, failures>>
  <2>1. TypeOK'
    BY <1>1 DEF IInv, TypeOK, Goto, Steps
  <2>2. RequestSound(r)'
    <3>1. req[r].op = "refresh" /\ req[r].sid \in Sids /\ pc[r] = "session"
      BY <1>1 DEF ResolveSession, IInv, RequestSound, Busy
    <3>2. Admits(req[r].uid, req[r].sid)'
      BY <1>1, <3>1, ConstantsAssumption DEF Reusable, Admits, ActiveSession, Sids
    <3> QED
      BY <1>1, <3>1, <3>2 DEF IInv, TypeOK, Goto, RequestSound, Busy
  <2>3. LoginCovers(r)' /\ RefreshCovers(r)'
    BY <1>1 DEF ResolveSession, IInv, TypeOK, Goto, LoginCovers,
       RefreshCovers, Busy, Live, TokensOf, Issued
  <2> QED
    BY <1>1, <2>1, <2>2, <2>3, RequestMoves DEF ResolveSession, IInv, TypeOK, Goto, Busy
<1> QED
  BY <1>1, CreateSessionKeeps DEF ResolveSession

LEMMA LoginSessionKeeps ==
  ASSUME IInv, NEW r \in Slots, LoginSession(r)
  PROVE  IInv'
BY CreateSessionKeeps DEF LoginSession

(* What the request held is revoked, and one token is issued.              *)
LEMMA IssueTokenKeeps ==
  ASSUME IInv, NEW r \in Slots, IssueToken(r)
  PROVE  IInv'
<1>1. PICK n \in Jtis \ Issued : n = NewJti
  BY DEF IssueToken, NewJti
<1>2. PICK new \in Token :
        /\ new = NewToken(r) /\ new.uid = req[r].uid /\ new.sid = req[r].sid /\ new.sid \in Sids
        /\ new.uid \in Uids /\ new.exp = new.login + Lifetime /\ ~new.revoked
  <2>1. /\ req[r] \in Request /\ req[r].uid \in Uids /\ req[r].sid \in Sids
        /\ req[r].op = "login" \/ req[r].exp = req[r].login + Lifetime
        /\ now \in Nat /\ Lifetime \in Nat
    BY ConstantsAssumption DEF IInv, TypeOK, RequestSound, Busy, IssueToken
  <2>2. NewToken(r) \in Token
    BY <2>1 DEF NewToken, Token, Request
  <2> QED
    BY <2>1, <2>2 DEF NewToken
<1>3. /\ token' = [j \in Jtis |-> IF j = n THEN new
                               ELSE IF j \in req[r].held THEN [token[j] EXCEPT !.revoked = TRUE]
                               ELSE token[j]]
      /\ req' = [req EXCEPT ![r].held = {}] /\ pc' = [pc EXCEPT ![r] = "reply"]
      /\ raced' = IF req[r].op = "login" /\ req[r].alone THEN raced \ {req[r].uid} ELSE raced
      /\ UNCHANGED <<session, now, failures>> /\ pc[r] = "issue"
  BY <1>1, <1>2 DEF IssueToken, Goto
<1>4. ASSUME NEW j \in Jtis \ {n}
      PROVE  /\ token'[j] \in Token
             /\ token'[j].uid = token[j].uid /\ token'[j].sid = token[j].sid
             /\ token'[j].exp = token[j].exp /\ token'[j].login = token[j].login
             /\ ~token'[j].revoked => ~token[j].revoked /\ j \notin req[r].held
  <2>1. token[j] \in Token
    BY DEF IInv, TypeOK
  <2>2. CASE j \in req[r].held
    <3>1. token'[j] = [token[j] EXCEPT !.revoked = TRUE]
      BY <1>3, <2>2
    <3> QED
      BY <2>1, <3>1 DEF Token
  <2>3. CASE j \notin req[r].held
    BY <1>3, <2>1, <2>3
  <2> QED
    BY <2>2, <2>3
<1>5. token'[n] = new
  BY <1>3
<1>6. /\ req'[r] \in Request
      /\ req'[r].op = req[r].op /\ req'[r].uid = req[r].uid
      /\ req'[r].sid = req[r].sid /\ req'[r].exp = req[r].exp
      /\ req'[r].login = req[r].login /\ req'[r].lost = req[r].lost
      /\ req'[r].alone = req[r].alone
  <2>1. req'[r] = [req[r] EXCEPT !.held = {}] /\ req[r] \in Request
    BY <1>3 DEF IInv, TypeOK
  <2> QED
    BY <2>1 DEF Request
<1>7. /\ pc'[r] = "reply" /\ \A q \in Slots \ {r} : req'[q] = req[q] /\ pc'[q] = pc[q]
      /\ req' \in [Slots -> Request] /\ pc' \in [Slots -> Steps]
  BY <1>3, <1>6 DEF IInv, TypeOK, Steps
<1>8. TypeOK'
  <2>1. token' \in [Jtis -> Token]
    BY <1>3, <1>4, <1>5
  <2> QED
    BY <1>3, <1>7, <2>1 DEF IInv, TypeOK
<1>9. Issued' = Issued \cup {n}
  BY <1>2, <1>4, <1>5, ConstantsAssumption DEF Issued
<1>10. TokensSound'
  BY <1>2, <1>4, <1>5, <1>9 DEF IInv, TokensSound, Issued
<1>11. ASSUME NEW u \in Uids
       PROVE  /\ u # req[r].uid => TokensOf(u)' = TokensOf(u) /\ Live(u)' \subseteq Live(u)
              /\ Live(u)' \subseteq (Live(u) \ req[r].held) \cup {n}
  BY <1>1, <1>2, <1>4, <1>5, <1>9 DEF Live, TokensOf, Issued
<1>12. req[r].uid \notin raced' => Live(req[r].uid) \subseteq req[r].held
  BY <1>3 DEF IInv, AloneSound, LoginCovers, RefreshCovers, RequestSound, Busy, Live
<1>13. AtMostOne'
  <2>1. ASSUME NEW u \in Uids, u \notin raced', NEW i \in Live(u)', NEW j \in Live(u)'
        PROVE  i = j
    <3>1. CASE u = req[r].uid
      BY <1>11, <1>12, <2>1, <3>1
    <3>2. CASE u # req[r].uid
      BY <1>3, <1>11, <2>1, <3>2 DEF IInv, AtMostOne
    <3> QED
      BY <3>1, <3>2
  <2> QED
    BY <2>1 DEF AtMostOne
<1>14. ASSUME NEW q \in Slots
       PROVE  RequestSound(q)' /\ AloneSound(q)' /\ LoginCovers(q)' /\ RefreshCovers(q)'
  <2>1. RequestSound(q)'
    BY <1>3, <1>6, <1>7 DEF IInv, RequestSound, Busy, Admits, ActiveSession
  <2>2. AloneSound(q)'
    BY <1>3, <1>6, <1>7 DEF IInv, AloneSound, Busy
  <2>3. ASSUME q # r, Busy(q), req[q].alone PROVE req[q].uid \in Uids /\ req[q].uid # req[r].uid
    BY <1>3, <2>3 DEF IInv, AloneSound, RequestSound, Busy
  <2>4. LoginCovers(q)'
    <3>1. CASE q = r
      BY <1>7, <3>1 DEF LoginCovers
    <3>2. CASE q # r
      BY <1>7, <1>11, <2>3, <3>2 DEF IInv, LoginCovers, Busy
    <3> QED
      BY <3>1, <3>2
  <2>5. RefreshCovers(q)'
    <3>1. CASE q = r
      BY <1>7, <3>1 DEF RefreshCovers
    <3>2. ASSUME q # r, Busy(q), req[q].uid \notin raced' PROVE req[q].alone
      BY <1>3, <1>7, <2>2, <3>2 DEF AloneSound, Busy
    <3>3. CASE q # r
      BY <1>3, <1>7, <1>11, <2>3, <3>2, <3>3 DEF IInv, RefreshCovers, Busy
    <3> QED
      BY <3>1, <3>3
  <2> QED
    BY <2>1, <2>2, <2>4, <2>5
<1> QED
  BY <1>8, <1>10, <1>13, <1>14 DEF IInv

(* The invariant of logins and refreshes, for any number of requests that  *)
(* overlap, fail or lose their session.                                    *)
THEOREM Invariance == Spec => []IInv
<1>1. Init => IInv
  <2> SUFFICES ASSUME Init PROVE IInv
    OBVIOUS
  <2>1. TypeOK
    BY ConstantsAssumption, IdleIsRequest
       DEF Init, TypeOK, NoSession, Session, NoToken, Token, Steps
  <2>2. Issued = {}
    BY DEF Init, Issued, NoToken
  <2> QED
    BY <2>1, <2>2 DEF Init, IInv, TokensSound, AtMostOne, Live, TokensOf, RequestSound,
       AloneSound, LoginCovers, RefreshCovers, Busy
<1>2. IInv /\ UNCHANGED vars => IInv'
  BY DEF vars, IInv, TypeOK, TokensSound, AtMostOne, Live, TokensOf, Issued, RequestSound,
     AloneSound, LoginCovers, RefreshCovers, Busy, Admits, ActiveSession
<1>3. IInv /\ Next => IInv'
  BY LoginKeeps, ParseValidRefreshTokenKeeps, FindTokensKeeps, RevokeAllKeeps,
     LoginSessionKeeps, ResolveSessionKeeps, RevokeRefreshTokenJtiKeeps, IssueTokenKeeps,
     FinishKeeps, UpdateUserSessionLogoutKeeps, TickKeeps DEF Next
<1> QED
  BY <1>1, <1>2, <1>3, PTL DEF Spec

(* Sessions, tokens and requests keep their types (auth.go, token_issue.go).*)
THEOREM TypeCorrect == Spec => []TypeOK
<1>1. IInv => TypeOK
  BY DEF IInv
<1> QED
  BY Invariance, <1>1, PTL

(* IssueUserToken revokes before it issues: a user whose requests have not *)
(* overlapped since the last login that ran alone has one live token at    *)
(* most, although the rows revoked are not counted.                        *)
THEOREM OneLiveTokenHolds == Spec => []OneLiveToken
<1>1. IInv => OneLiveToken
  <2> SUFFICES ASSUME IInv, NEW u \in Uids \ raced PROVE Cardinality(Live(u)) <= 1
    BY DEF OneLiveToken
  <2>1. CASE Live(u) = {}
    BY <2>1, FS_EmptySet
  <2>2. CASE Live(u) # {}
    <3>1. PICK i : Live(u) = {i}
      BY <2>2 DEF IInv, AtMostOne
    <3>2. Cardinality({i}) = 1
      BY FS_Singleton
    <3> QED
      BY <3>1, <3>2
  <2> QED
    BY <2>1, <2>2
<1> QED
  BY Invariance, <1>1, PTL

(* A refresh hands the deadline of its login on, through any number of     *)
(* refreshes.                                                              *)
THEOREM ChainKeepsDeadlineHolds == Spec => []ChainKeepsDeadline
<1>1. IInv => ChainKeepsDeadline
  BY DEF IInv, TokensSound, ChainKeepsDeadline
<1> QED
  BY Invariance, <1>1, PTL

(* The tokens in an answer name a session that admits the user, unless it  *)
(* was logged out while the request ran.                                   *)
THEOREM FreshTokensAdmitHolds == Spec => []FreshTokensAdmit
<1>1. IInv => FreshTokensAdmit
  BY DEF IInv, RequestSound, Busy, FreshTokensAdmit
<1> QED
  BY Invariance, <1>1, PTL
=============================================================================
