------------------------------- MODULE Tokens -------------------------------
(***************************************************************************)
(* Logging in and refreshing tokens (http/handler/auth/auth.go,            *)
(* token_issue.go, db/query/user_session.go, jwt/jwt.go).                  *)
(*                                                                         *)
(* A login revokes every refresh token of the user and issues one; a       *)
(* refresh revokes the token it was given and issues its successor, which  *)
(* keeps the deadline of the login. Both do this in a transaction, but the *)
(* token of a refresh is checked, and the session a token names is looked  *)
(* up or created, on other database connections. PostgreSQL runs them as   *)
(* READ COMMITTED: an update sees the rows committed when it starts, and   *)
(* waits for those another transaction has updated.                        *)
(***************************************************************************)
EXTENDS Naturals, FiniteSets

CONSTANTS
  Uids,
  Slots,      \* requests that run at the same time
  MaxSids,    \* bound: sessions
  MaxJtis,    \* bound: refresh tokens
  None,
  Lifetime,   \* of a refresh token, from its login on
  MaxTime,    \* bound: time
  MaxFailures \* bound: requests that fail half way

ASSUME ConstantsAssumption ==
  /\ None \notin Uids \cup 1..MaxSids
  /\ {MaxSids, MaxJtis, Lifetime, MaxTime, MaxFailures} \subseteq Nat

VARIABLES
  session,  \* session[s]: [uid, active], of no one before s is created
  token,    \* token[j]: [uid, sid, exp, revoked, login], likewise
  pc, req,  \* the request in a slot
  raced,    \* history: users some of whose requests have overlapped since the
            \* last login that ran alone
  now, failures

vars == <<session, token, pc, req, raced, now, failures>>

Idle == [op |-> None, uid |-> None, jti |-> {}, exp |-> 0, login |-> 0,
         sid |-> None, held |-> {}, alone |-> TRUE, lost |-> FALSE]
Steps == {"idle", "update", "locks", "session", "rotate", "issue", "reply"}

\* Ids are handed out in order: only that they are new matters.
Sids == 1..MaxSids
Jtis == 1..MaxJtis
NoSession == [uid |-> None, active |-> FALSE]
NoToken == [uid |-> None, sid |-> None, exp |-> 0, revoked |-> FALSE, login |-> 0]
Issued == {j \in Jtis : token[j].uid # None}
TokensOf(u) == {j \in Issued : token[j].uid = u}
Live(u) == {j \in TokensOf(u) : ~token[j].revoked}

Init ==
  /\ session = [s \in Sids |-> NoSession]
  /\ token = [j \in Jtis |-> NoToken]
  /\ pc = [r \in Slots |-> "idle"] /\ req = [r \in Slots |-> Idle]
  /\ raced = {} /\ now = 0 /\ failures = 0

-----------------------------------------------------------------------------
(* Requests and their overlaps.                                            *)

Goto(r, step) == pc' = [pc EXCEPT ![r] = step]

\* A request of user u starts; those of u that are under way overlap with it.
Start(r, step, t) ==
  LET others == {q \in Slots : pc[q] # "idle" /\ req[q].uid = t.uid} IN
    /\ pc[r] = "idle" /\ Goto(r, step)
    /\ req' = [q \in Slots |->
                 IF q = r THEN [t EXCEPT !.alone = (others = {})]
                 ELSE IF q \in others THEN [req[q] EXCEPT !.alone = FALSE]
                 ELSE req[q]]
    /\ raced' = IF others = {} THEN raced ELSE raced \cup {t.uid}

Finish(r) == Goto(r, "idle") /\ req' = [req EXCEPT ![r] = Idle]

\* Rows another transaction has updated and not yet committed.
LockedByOthers(r) == UNION {req[q].held : q \in Slots \ {r}}

-----------------------------------------------------------------------------
(* Login by name, by e-mail or by a remembered device: the user is known   *)
(* and the addresses of the cluster have been fetched.                     *)

Login(r, u) ==
  /\ Start(r, "update", [Idle EXCEPT !.op = "login", !.uid = u])
  /\ UNCHANGED <<session, token, now, failures>>

\* UPDATE ... SET revoked WHERE uid: first the rows that are committed now ...
FindTokens(r) ==
  /\ pc[r] = "update"
  /\ req' = [req EXCEPT ![r].held = {}, ![r].jti = TokensOf(req[r].uid)]
  /\ Goto(r, "locks")
  /\ UNCHANGED <<session, token, raced, now, failures>>

\* ... then, when no one else holds any of them, all of them are updated.
RevokeAll(r) ==
  /\ pc[r] = "locks" /\ req[r].jti \cap LockedByOthers(r) = {}
  /\ req' = [req EXCEPT ![r].held = req[r].jti] /\ Goto(r, "session")
  /\ UNCHANGED <<session, token, raced, now, failures>>

\* createHttpUserSession: committed at once, whatever the login comes to.
Unborn == {s \in Sids : session[s].uid = None}
NewSid == CHOOSE s \in Unborn : TRUE
CreateSession(r, next) ==
  /\ Unborn # {}
  /\ session' = [session EXCEPT ![NewSid] = [uid |-> req[r].uid, active |-> TRUE]]
  /\ req' = [req EXCEPT ![r].sid = NewSid, ![r].lost = FALSE] /\ Goto(r, next)
  /\ UNCHANGED <<token, raced, now, failures>>

LoginSession(r) ==
  /\ pc[r] = "session" /\ req[r].op = "login"
  /\ CreateSession(r, "issue")

-----------------------------------------------------------------------------
(* RefreshAccessToken.                                                     *)

\* parseValidRefreshToken, which remembers the deadline.
ParseValidRefreshToken(r, j) ==
  /\ j \in Issued /\ ~token[j].revoked /\ now <= token[j].exp
  /\ Start(r, "session", [Idle EXCEPT !.op = "refresh", !.uid = token[j].uid,
             !.jti = {j}, !.sid = token[j].sid, !.exp = token[j].exp,
             !.login = token[j].login])
  /\ UNCHANGED <<session, token, now, failures>>

\* Faulty, for the runs' sensitivity: the token that was used stays good.
RevokeNothing(r) == {}

\* Faulty: the session is reused without touching it.
ReusableAnyway(r) == session[req[r].sid].uid = req[r].uid

\* ValidateActiveUserSession.
ActiveSession(u, s) == session[s].active /\ session[s].uid = u

\* Authorization, of an access token that names a session; the QUIC
\* authentication asks the same of it.
Admits(u, s) == s # None /\ ActiveSession(u, s)

\* The refresh also touches the session, which it finds under the same condition.
Reusable(r) == ActiveSession(req[r].uid, req[r].sid)
\* resolveSessionForRefresh: the token's session, or else a new one.
ResolveSession(r) ==
  /\ pc[r] = "session" /\ req[r].op = "refresh"
  /\ \/ /\ Reusable(r) /\ Goto(r, "rotate")
        /\ UNCHANGED <<session, token, req, raced, now, failures>>
     \/ ~Reusable(r) /\ CreateSession(r, "rotate")

\* UPDATE ... SET revoked WHERE jti AND NOT revoked: a row that is revoked is
\* passed over, also when that was decided while the update waited. How many
\* rows were updated is not looked at.
RevokeJti(r) == {j \in req[r].jti : ~token[j].revoked}
RevokeRefreshTokenJti(r) ==
  /\ pc[r] = "rotate" /\ RevokeJti(r) \cap LockedByOthers(r) = {}
  /\ req' = [req EXCEPT ![r].held = RevokeJti(r)] /\ Goto(r, "issue")
  /\ UNCHANGED <<session, token, raced, now, failures>>

-----------------------------------------------------------------------------
(* Both.                                                                   *)

\* Faulty: a refresh renews the deadline.
NewTokenRenewed(r) ==
  [uid |-> req[r].uid, sid |-> req[r].sid, revoked |-> FALSE,
   exp |-> now + Lifetime,
   login |-> IF req[r].op = "login" THEN now ELSE req[r].login]

\* Faulty: the row is written without its session.
NewTokenWithoutSid(r) ==
  [uid |-> req[r].uid, sid |-> 0, revoked |-> FALSE, exp |-> now + Lifetime,
   login |-> now]

\* CreateRefreshToken: a login sets the deadline, a refresh hands it on.
NewToken(r) ==
  [uid |-> req[r].uid, sid |-> req[r].sid, revoked |-> FALSE,
   exp |-> IF req[r].op = "login" THEN now + Lifetime ELSE req[r].exp,
   login |-> IF req[r].op = "login" THEN now ELSE req[r].login]

NewJti == CHOOSE j \in Jtis \ Issued : TRUE

\* The new row is inserted and the transaction commits.
IssueToken(r) ==
  /\ pc[r] = "issue"
  /\ Jtis \ Issued # {}
  /\ token' = [j \in Jtis |->
                 IF j = NewJti THEN NewToken(r)
                 ELSE IF j \in req[r].held THEN [token[j] EXCEPT !.revoked = TRUE]
                 ELSE token[j]]
  /\ req' = [req EXCEPT ![r].held = {}] /\ Goto(r, "reply")
  /\ raced' = IF req[r].op = "login" /\ req[r].alone THEN raced \ {req[r].uid}
              ELSE raced
  /\ UNCHANGED <<session, now, failures>>

Reply(r) ==
  /\ pc[r] = "reply" /\ Finish(r)
  /\ UNCHANGED <<session, token, raced, now, failures>>

\* A missing device header, an error of the database or a crash: the
\* transaction is rolled back, a session that was created stays.
FailRequest(r) ==
  /\ pc[r] \notin {"idle", "reply"} /\ failures < MaxFailures
  /\ failures' = failures + 1 /\ Finish(r)
  /\ UNCHANGED <<session, token, raced, now>>

\* The message server logs a session out when its connection has ended.
UpdateUserSessionLogout(s) ==
  /\ session[s].active
  /\ session' = [session EXCEPT ![s].active = FALSE]
  /\ req' = [r \in Slots |-> IF req[r].sid = s THEN [req[r] EXCEPT !.lost = TRUE]
                             ELSE req[r]]
  /\ UNCHANGED <<token, pc, raced, now, failures>>

Tick ==
  /\ now < MaxTime /\ now' = now + 1
  /\ UNCHANGED <<session, token, pc, req, raced, failures>>

Next ==
  \/ \E r \in Slots, u \in Uids : Login(r, u)
  \/ \E r \in Slots, j \in Jtis : ParseValidRefreshToken(r, j)
  \/ \E r \in Slots :
       \/ FindTokens(r) \/ RevokeAll(r) \/ LoginSession(r) \/ ResolveSession(r)
       \/ RevokeRefreshTokenJti(r) \/ IssueToken(r) \/ Reply(r) \/ FailRequest(r)
  \/ \E s \in Sids : UpdateUserSessionLogout(s)
  \/ Tick

Spec == Init /\ [][Next]_vars

-----------------------------------------------------------------------------
Session == [uid : Uids \cup {None}, active : BOOLEAN]
Token == [uid : Uids \cup {None}, sid : Sids \cup {None}, exp : Nat,
          revoked : BOOLEAN, login : Nat]
Request == [op : {None, "login", "refresh"}, uid : Uids \cup {None},
            jti : SUBSET Jtis, exp : Nat, login : Nat, sid : Sids \cup {None},
            held : SUBSET Jtis, alone : BOOLEAN, lost : BOOLEAN]

TypeOK ==
  /\ session \in [Sids -> Session] /\ token \in [Jtis -> Token]
  /\ pc \in [Slots -> Steps] /\ req \in [Slots -> Request]
  /\ raced \subseteq Uids /\ now \in 0..MaxTime /\ failures \in 0..MaxFailures

\* A user has one refresh token that is not revoked, unless requests of the
\* user have overlapped since the last login that ran alone: one that checked
\* its token before a login revoked it issues another all the same
\* (token_issue.go: the rows updated are not counted).
OneLiveToken == \A u \in Uids \ raced : Cardinality(Live(u)) <= 1

\* "The absolute deadline is inherited from the login and not renewed": a
\* token can be used no longer than Lifetime after the login it descends from,
\* through any number of refreshes and whatever they overlap with.
ChainKeepsDeadline ==
  \A j \in Issued : token[j].exp = token[j].login + Lifetime

\* The tokens a request has just been given admit the user, unless the
\* message server logged their session out while the request ran.
FreshTokensAdmit ==
  \A r \in Slots : pc[r] = "reply" /\ ~req[r].lost => Admits(req[r].uid, req[r].sid)
=============================================================================
