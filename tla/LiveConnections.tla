-------------------------- MODULE LiveConnections --------------------------
(***************************************************************************)
(* The life of a user's QUIC connection on the message nodes               *)
(* (quic/server/server.go, client_registry.go, heartbeat/manager.go,       *)
(* push/presence.go): handleConnect replaces the user's old connection and *)
(* registers the new one; close, timeout and heartbeat events are handled  *)
(* one at a time under the node's event-bus lock; handleUserOffline logs   *)
(* the session out; Shutdown drains the registry; a process may crash.     *)
(*                                                                         *)
(* Each label of pc and hs is one place where a goroutine of the code may  *)
(* be overtaken: a database or Redis call, a mutex, a wait.                *)
(***************************************************************************)
EXTENDS Naturals, FiniteSets

CONSTANTS
  Nodes,          \* message-node processes
  Conns,          \* QUIC connection objects (their addresses are the ConnIDs)
  Uids, Sids,     \* users and login sessions
  None,           \* nil / the empty string
  NodeOf,         \* the node that accepts a connection
  Owner,          \* the user a session belongs to
  MaxHandshakes,  \* handshakes of one user that may overlap on one node
  MayShutdown,    \* nodes on which Shutdown() is called
  Reusable,       \* connections whose address the allocator may use again
  FreshSids,      \* sessions a later login may create
  MayCrash,       \* nodes whose process may die at any point
  DbOutcomes      \* outcomes of a database call: subset of BOOLEAN

ASSUME ConstantsAssumption ==
  /\ IsFiniteSet(Conns) /\ NodeOf \in [Conns -> Nodes]
  /\ Owner \in [Sids -> Uids]
  /\ None \notin Nodes \cup Conns \cup Uids \cup Sids
  /\ MaxHandshakes \in Nat \ {0}
  /\ MayShutdown \subseteq Nodes
  /\ Reusable \subseteq Conns
  /\ FreshSids \subseteq Sids
  /\ MayCrash \subseteq Nodes
  /\ DbOutcomes \subseteq BOOLEAN

VARIABLES
  pc,        \* pc[c]: where handleConnect / acceptConn of c is
  sid,       \* sid[c]: Client.Sid()
  open,      \* open[c]: the QUIC connection is up
  old,       \* old[c]: the client handleConnect of c found in the registry
  beat,      \* beat[c]: a heartbeat was read and waits for the event bus
  hs,        \* hs[c]: step of the offline handler that runs for c
  cause,     \* cause[c]: why it runs
  osid,      \* osid[c]: CurrentSessionId as that handler read it
  onl,       \* onl[c]: the sid a handleUserOnline goroutine carries
  reg,       \* reg[n][u]: clientRegistry.clients
  hb,        \* hb[n]: keys in the heartbeat manager
  expired,   \* expired[n]: keys popped as timed out, callback not run yet
  bus,       \* bus[n]: the connection whose event holds the event-bus lock
  sd,        \* sd[n]: progress of Shutdown
  snap,      \* snap[n]: clients Shutdown took from the registry
  presence,  \* Redis quic:presence:<uid>
  status,    \* Redis/DB UserCurrentStatus.CurrentSessionId
  sess       \* DB user_session.is_active

vars == <<pc, sid, open, old, beat, hs, cause, osid, onl, reg, hb, expired,
          bus, sd, snap, presence, status, sess>>
handlerVars == <<hs, cause, osid>>
shutVars    == <<sd, snap>>
sharedVars  == <<presence, status, sess>>

-----------------------------------------------------------------------------
(* Stages. *)

HandshakeStages == {"auth", "snap", "logoutOld", "closeOld", "removeOld",
                    "presenceOld", "heartbeatOld", "prewrite", "register",
                    "presence", "heartbeat"}
ReplaceStages == {"logoutOld", "closeOld", "removeOld", "presenceOld",
                  "heartbeatOld"}
PcStages  == HandshakeStages \cup {"idle", "live", "ended"}
HsStages  == {"idle", "read", "logout", "status", "remove", "presence",
              "close", "heartbeat"}
Causes    == {"close", "timeout", "shutdown"}
SdStages  == {"up", "unsubscribed", "snapped", "cleared", "down"}

UidOf(c)  == Owner[sid[c]]
KeyWithoutConn(c) == <<CHOOSE d \in Conns : TRUE, sid[c]>>
Key(c)    == <<c, sid[c]>>                    \* heartbeatClientKey
Up(n)     == sd[n] = "up"

(* Handshakes of user u in flight on node n. *)
InHandshake(n, u) ==
  {c \in Conns : /\ NodeOf[c] = n
                 /\ pc[c] \in HandshakeStages \ {"auth"}
                 /\ UidOf(c) = u}

(* Faulty: ConnID reads as 0 once the connection is closed. *)
isCurrentConnWhileOpen(n, u, s, c) == reg[n][u] = c /\ sid[c] = s /\ open[c]

(* clientRegistry.isCurrentConn: same uid, same sid, same connection. *)
isCurrentConn(n, u, s, c) == reg[n][u] = c /\ sid[c] = s

(* Faulty: only the session is compared. *)
RemoveIfSameSid(n, u, s, c) ==
  [reg EXCEPT ![n][u] = IF @ # None /\ sid[@] = s THEN None ELSE @]

(* clientRegistry.removeIfMatch as the registry it leaves. *)
RemoveIfMatch(n, u, s, c) ==
  [reg EXCEPT ![n][u] = IF isCurrentConn(n, u, s, c) THEN None ELSE @]

-----------------------------------------------------------------------------
Init ==
  /\ pc = [c \in Conns |-> "idle"]
  /\ sid = [c \in Conns |-> None]
  /\ open = [c \in Conns |-> FALSE]
  /\ old = [c \in Conns |-> None]
  /\ beat = [c \in Conns |-> FALSE]
  /\ hs = [c \in Conns |-> "idle"]
  /\ cause = [c \in Conns |-> "close"]
  /\ osid = [c \in Conns |-> None]
  /\ onl = [c \in Conns |-> None]
  /\ reg = [n \in Nodes |-> [u \in Uids |-> None]]
  /\ hb = [n \in Nodes |-> {}]
  /\ expired = [n \in Nodes |-> {}]
  /\ bus = [n \in Nodes |-> None]
  /\ sd = [n \in Nodes |-> "up"]
  /\ snap = [n \in Nodes |-> {}]
  /\ presence = [u \in Uids |-> None]
  /\ status = [u \in Uids |-> None]
  /\ sess = [s \in Sids |-> TRUE]

-----------------------------------------------------------------------------
(* handleConnect. *)

(* listenerAccept: a connection object is allocated.  ConnID is its address,
   so an address is free again once no goroutine holds the object; keys that
   only name the address may still sit in hb and expired. *)
AcceptConnect(c) ==
  /\ pc[c] = "idle" \/ (pc[c] = "ended" /\ c \in Reusable)
  /\ hs[c] = "idle" /\ ~beat[c] /\ onl[c] = None
  /\ \A n \in Nodes, u \in Uids : reg[n][u] # c
  /\ \A d \in Conns : old[d] # c
  /\ \A n \in Nodes : c \notin snap[n]
  /\ pc' = [pc EXCEPT ![c] = "auth"]
  /\ open' = [open EXCEPT ![c] = TRUE]
  /\ sid' = [sid EXCEPT ![c] = None]
  /\ UNCHANGED <<old, beat, handlerVars, onl, reg, hb, expired, bus,
                 shutVars, sharedVars>>

(* The auth stream does not come in time or the token is refused. *)
AuthFail(c) ==
  /\ pc[c] = "auth"
  /\ pc' = [pc EXCEPT ![c] = "idle"]
  /\ open' = [open EXCEPT ![c] = FALSE]
  /\ UNCHANGED <<sid, old, beat, handlerVars, onl, reg, hb, expired, bus,
                 shutVars, sharedVars>>

(* Authenticator.Authenticate accepts the token of an active session. *)
Authenticate(c, s) ==
  /\ pc[c] = "auth"
  /\ sess[s]
  /\ Cardinality(InHandshake(NodeOf[c], Owner[s])) < MaxHandshakes
  /\ pc' = [pc EXCEPT ![c] = "snap"]
  /\ sid' = [sid EXCEPT ![c] = s]
  /\ UNCHANGED <<open, old, beat, handlerVars, onl, reg, hb, expired, bus,
                 shutVars, sharedVars>>

(* snapshotForReplace *)
SnapshotForReplace(c) ==
  /\ pc[c] = "snap"
  /\ old' = [old EXCEPT ![c] = reg[NodeOf[c]][UidOf(c)]]
  /\ pc' = [pc EXCEPT ![c] = IF old'[c] = None THEN "prewrite"
                                               ELSE "logoutOld"]
  /\ UNCHANGED <<sid, open, beat, handlerVars, onl, reg, hb, expired, bus,
                 shutVars, sharedVars>>

(* disconnectReplacedClient: a different session is logged out ... *)
LogoutReplaced(c, ok) ==
  /\ pc[c] = "logoutOld"
  /\ pc' = [pc EXCEPT ![c] = "closeOld"]
  /\ sess' = [sess EXCEPT ![sid[old[c]]] =
                IF sid[old[c]] # sid[c] /\ ok THEN FALSE ELSE @]
  /\ UNCHANGED <<sid, open, old, beat, handlerVars, onl, reg, hb, expired,
                 bus, shutVars, presence, status>>

(* Faulty: the old connection is told but not closed. *)
TellReplaced(c) ==
  /\ pc[c] = "closeOld"
  /\ pc' = [pc EXCEPT ![c] = "removeOld"]
  /\ UNCHANGED <<sid, open, old, beat, handlerVars, onl, reg, hb, expired,
                 bus, shutVars, sharedVars>>

(* ... the old connection is told, then closed ... *)
CloseReplaced(c) ==
  /\ pc[c] = "closeOld"
  /\ open' = [open EXCEPT ![old[c]] = FALSE]
  /\ pc' = [pc EXCEPT ![c] = "removeOld"]
  /\ UNCHANGED <<sid, old, beat, handlerVars, onl, reg, hb, expired, bus,
                 shutVars, sharedVars>>

(* ... and unregisterLiveClient runs for it: map entry, presence, key. *)
RemoveReplaced(c) ==
  /\ pc[c] = "removeOld"
  /\ LET n == NodeOf[c]
         u == UidOf(old[c])
         hit == isCurrentConn(n, u, sid[old[c]], old[c])
     IN /\ reg' = RemoveIfMatch(n, u, sid[old[c]], old[c])
        /\ pc' = [pc EXCEPT ![c] = IF hit THEN "presenceOld" ELSE "prewrite"]
        /\ old' = [old EXCEPT ![c] = IF hit THEN @ ELSE None]
  /\ UNCHANGED <<sid, open, beat, handlerVars, onl, hb, expired, bus,
                 shutVars, sharedVars>>

UnregisterReplaced(c) ==
  /\ pc[c] = "presenceOld"
  /\ presence' = [presence EXCEPT ![UidOf(old[c])] = None]
  /\ pc' = [pc EXCEPT ![c] = "heartbeatOld"]
  /\ UNCHANGED <<sid, open, old, beat, handlerVars, onl, reg, hb, expired,
                 bus, shutVars, status, sess>>

ForgetReplaced(c) ==
  /\ pc[c] = "heartbeatOld"
  /\ hb' = [hb EXCEPT ![NodeOf[c]] = @ \ {Key(old[c])}]
  /\ pc' = [pc EXCEPT ![c] = "prewrite"]
  /\ old' = [old EXCEPT ![c] = None]
  /\ UNCHANGED <<sid, open, beat, handlerVars, onl, reg, expired, bus,
                 shutVars, sharedVars>>

(* UpdateUserCurrentStatusOnline before registration; an error is ignored. *)
PrewriteOnline(c, ok) ==
  /\ pc[c] = "prewrite"
  /\ status' = [status EXCEPT ![UidOf(c)] = IF ok THEN sid[c] ELSE @]
  /\ pc' = [pc EXCEPT ![c] = "register"]
  /\ UNCHANGED <<sid, open, old, beat, handlerVars, onl, reg, hb, expired,
                 bus, shutVars, presence, sess>>

(* registerLiveClient: map entry, presence, heartbeat key; then Start. *)
Register(c) ==
  /\ pc[c] = "register"
  /\ reg' = [reg EXCEPT ![NodeOf[c]][UidOf(c)] = c]
  /\ pc' = [pc EXCEPT ![c] = "presence"]
  /\ UNCHANGED <<sid, open, old, beat, handlerVars, onl, hb, expired, bus,
                 shutVars, sharedVars>>

RegisterPresence(c) ==
  /\ pc[c] = "presence"
  /\ presence' = [presence EXCEPT ![UidOf(c)] = NodeOf[c]]
  /\ pc' = [pc EXCEPT ![c] = "heartbeat"]
  /\ UNCHANGED <<sid, open, old, beat, handlerVars, onl, reg, hb, expired,
                 bus, shutVars, status, sess>>

RegisterHeartbeat(c) ==
  /\ pc[c] = "heartbeat"
  /\ hb' = [hb EXCEPT ![NodeOf[c]] = @ \cup {Key(c)}]
  /\ pc' = [pc EXCEPT ![c] = "live"]
  /\ UNCHANGED <<sid, open, old, beat, handlerVars, onl, reg, expired, bus,
                 shutVars, sharedVars>>

-----------------------------------------------------------------------------
(* The client, the network and the clock. *)

(* The peer closes the connection, or QUIC's idle timeout does. *)
ConnLost(c) ==
  /\ open[c]
  /\ open' = [open EXCEPT ![c] = FALSE]
  /\ UNCHANGED <<pc, sid, old, beat, handlerVars, onl, reg, hb, expired, bus,
                 shutVars, sharedVars>>

(* HeartbeatHandler reads a heartbeat and publishes EventHeartbeatUpdate. *)
HeartbeatReceived(c) ==
  /\ pc[c] = "live" /\ open[c] /\ ~beat[c]
  /\ beat' = [beat EXCEPT ![c] = TRUE]
  /\ UNCHANGED <<pc, sid, open, old, handlerVars, onl, reg, hb, expired, bus,
                 shutVars, sharedVars>>

(* Faulty: presence is not refreshed. *)
HeartbeatWithoutRefresh(c) ==
  LET n == NodeOf[c]
  IN /\ beat[c] /\ bus[n] = None
     /\ beat' = [beat EXCEPT ![c] = FALSE]
     /\ hb' = IF Up(n) THEN [hb EXCEPT ![n] = @ \cup {Key(c)}] ELSE hb
     /\ UNCHANGED <<pc, sid, open, old, handlerVars, onl, reg, expired, bus,
                    shutVars, sharedVars>>

(* onHeartbeatUpdate, once the bus lock is free: the key is put back even if
   the connection is no longer the registered one, presence is refreshed.
   After Shutdown unsubscribed, the event has no handler. *)
onHeartbeatUpdate(c) ==
  LET n == NodeOf[c]
  IN /\ beat[c] /\ bus[n] = None
     /\ beat' = [beat EXCEPT ![c] = FALSE]
     /\ hb' = IF Up(n) THEN [hb EXCEPT ![n] = @ \cup {Key(c)}] ELSE hb
     /\ presence' = IF Up(n) THEN [presence EXCEPT ![UidOf(c)] = n]
                             ELSE presence
     /\ UNCHANGED <<pc, sid, open, old, handlerVars, onl, reg, expired, bus,
                    shutVars, status, sess>>

(* Manager.checkTimeouts pops a key without a recent heartbeat; its callback
   runs later in a goroutine of its own. *)
checkTimeouts(n, k) ==
  /\ Up(n) /\ k \in hb[n]
  /\ hb' = [hb EXCEPT ![n] = @ \ {k}]
  /\ expired' = [expired EXCEPT ![n] = @ \cup {k}]
  /\ UNCHANGED <<pc, sid, open, old, beat, handlerVars, onl, reg, bus,
                 shutVars, sharedVars>>

(* Faulty: the key is set without a TTL. *)
PresenceStays(u) == FALSE

(* The presence key of a user nobody refreshes runs out (PresenceTTL). *)
PresenceExpires(u) ==
  /\ presence[u] # None
  /\ \A c \in Conns : ~(pc[c] = "live" /\ open[c] /\ UidOf(c) = u)
  /\ presence' = [presence EXCEPT ![u] = None]
  /\ UNCHANGED <<pc, sid, open, old, beat, handlerVars, onl, reg, hb,
                 expired, bus, shutVars, status, sess>>

(* HTTP login creates a session (CreateUserSession) with a fresh sid. *)
CreateUserSession(s) ==
  /\ s \in FreshSids /\ ~sess[s]
  /\ \A c \in Conns : sid[c] # s /\ osid[c] # s /\ onl[c] # s
  /\ \A u \in Uids : status[u] # s
  /\ \A n \in Nodes, c \in Conns : <<c, s>> \notin hb[n] \cup expired[n]
  /\ sess' = [sess EXCEPT ![s] = TRUE]
  /\ UNCHANGED <<pc, sid, open, old, beat, handlerVars, onl, reg, hb,
                 expired, bus, shutVars, presence, status>>

-----------------------------------------------------------------------------
(* Events under the bus lock. *)

(* Publish runs the handler while it holds the node's bus lock. *)
BeginOffline(c, why) ==
  /\ bus' = [bus EXCEPT ![NodeOf[c]] = c]
  /\ hs' = [hs EXCEPT ![c] = "read"]
  /\ cause' = [cause EXCEPT ![c] = why]
  /\ UNCHANGED osid

(* acceptConn ends and publishes EventClientClose; onClientClose ignores it
   when the registry holds another connection. *)
onClientClose(c) ==
  LET n == NodeOf[c]
  IN /\ pc[c] = "live" /\ ~open[c] /\ bus[n] = None
     /\ pc' = [pc EXCEPT ![c] = "ended"]
     /\ IF Up(n) /\ isCurrentConn(n, UidOf(c), sid[c], c)
          THEN BeginOffline(c, "close")
          ELSE UNCHANGED <<handlerVars, bus>>
     /\ UNCHANGED <<sid, open, old, beat, onl, reg, hb, expired, shutVars,
                    sharedVars>>

(* handleClientTimeout publishes EventClientTimeout for a popped key. *)
onClientTimeout(n, k) ==
  LET c == k[1]
  IN /\ k \in expired[n] /\ bus[n] = None
     /\ expired' = [expired EXCEPT ![n] = @ \ {k}]
     /\ IF Up(n) /\ isCurrentConn(n, Owner[k[2]], k[2], c)
          THEN BeginOffline(c, "timeout")
          ELSE UNCHANGED <<handlerVars, bus>>
     /\ UNCHANGED <<pc, sid, open, old, beat, onl, reg, hb, shutVars,
                    sharedVars>>

(* Shutdown calls handleUserOffline without an unregister after it. *)
AfterOffline(c) == IF cause[c] = "shutdown" THEN "idle" ELSE "remove"

(* handleUserOffline reads CurrentSessionId; a failed read or an empty id
   ends it early. *)
OfflineRead(c, ok) ==
  /\ hs[c] = "read"
  /\ osid' = [osid EXCEPT ![c] = IF ok THEN status[UidOf(c)] ELSE None]
  /\ hs' = [hs EXCEPT ![c] = IF osid'[c] # None THEN "logout"
                                               ELSE AfterOffline(c)]
  /\ UNCHANGED <<pc, sid, open, old, beat, cause, onl, reg, hb, expired, bus,
                 shutVars, sharedVars>>

(* UpdateUserSessionLogout of the session that was read, whichever it is. *)
OfflineLogout(c, ok) ==
  /\ hs[c] = "logout"
  /\ sess' = [sess EXCEPT ![osid[c]] = IF ok THEN FALSE ELSE @]
  /\ hs' = [hs EXCEPT ![c] = "status"]
  /\ UNCHANGED <<pc, sid, open, old, beat, cause, osid, onl, reg, hb,
                 expired, bus, shutVars, presence, status>>

(* UpdateUserCurrentStatusOffline *)
OfflineStatus(c, ok) ==
  /\ hs[c] = "status"
  /\ status' = [status EXCEPT ![UidOf(c)] = IF ok THEN None ELSE @]
  /\ hs' = [hs EXCEPT ![c] = AfterOffline(c)]
  /\ osid' = [osid EXCEPT ![c] = None]
  /\ UNCHANGED <<pc, sid, open, old, beat, cause, onl, reg, hb, expired, bus,
                 shutVars, presence, sess>>

(* unregisterLiveClient: remove if it is still this connection; a mismatch
   ends the handler and frees the bus. *)
UnregisterRemove(c) ==
  LET n == NodeOf[c]
      hit == isCurrentConn(n, UidOf(c), sid[c], c)
  IN /\ hs[c] = "remove"
     /\ reg' = RemoveIfMatch(n, UidOf(c), sid[c], c)
     /\ hs' = [hs EXCEPT ![c] = IF hit THEN "presence" ELSE "idle"]
     /\ bus' = [bus EXCEPT ![n] = IF hit THEN @ ELSE None]
     /\ UNCHANGED <<pc, sid, open, old, beat, cause, osid, onl, hb, expired,
                    shutVars, sharedVars>>

(* push.Unregister deletes the user's key, whatever node it names. *)
UnregisterPresence(c) ==
  /\ hs[c] = "presence"
  /\ presence' = [presence EXCEPT ![UidOf(c)] = None]
  /\ hs' = [hs EXCEPT ![c] = IF cause[c] = "timeout" THEN "close"
                                                     ELSE "heartbeat"]
  /\ UNCHANGED <<pc, sid, open, old, beat, cause, osid, onl, reg, hb,
                 expired, bus, shutVars, status, sess>>

UnregisterClose(c) ==
  /\ hs[c] = "close"
  /\ open' = [open EXCEPT ![c] = FALSE]
  /\ hs' = [hs EXCEPT ![c] = "heartbeat"]
  /\ UNCHANGED <<pc, sid, old, beat, cause, osid, onl, reg, hb, expired, bus,
                 shutVars, sharedVars>>

UnregisterHeartbeat(c) ==
  /\ hs[c] = "heartbeat"
  /\ hb' = [hb EXCEPT ![NodeOf[c]] = @ \ {Key(c)}]
  /\ hs' = [hs EXCEPT ![c] = "idle"]
  /\ bus' = [bus EXCEPT ![NodeOf[c]] = None]
  /\ UNCHANGED <<pc, sid, open, old, beat, cause, osid, onl, reg, expired,
                 shutVars, sharedVars>>

(* onClientOnline starts handleUserOnline in a goroutine: it takes the sid of
   the client registered by then ... *)
HandleUserOnlineRead(c) ==
  LET x == reg[NodeOf[c]][UidOf(c)]
  IN /\ pc[c] \in {"live", "ended"} /\ onl[c] = None
     /\ x # None
     /\ onl' = [onl EXCEPT ![c] = sid[x]]
     /\ UNCHANGED <<pc, sid, open, old, beat, handlerVars, reg, hb, expired,
                    bus, shutVars, sharedVars>>

(* ... and writes it as the user's current session. *)
HandleUserOnlineWrite(c, ok) ==
  /\ onl[c] # None
  /\ status' = [status EXCEPT ![UidOf(c)] = IF ok THEN onl[c] ELSE @]
  /\ onl' = [onl EXCEPT ![c] = None]
  /\ UNCHANGED <<pc, sid, open, old, beat, handlerVars, reg, hb, expired,
                 bus, shutVars, presence, sess>>

-----------------------------------------------------------------------------
(* Shutdown, exit and restart of a node's process. *)

(* isShutdown is set, the handlers are unsubscribed (which waits for the bus
   lock) and the heartbeat loop stops. *)
ShutdownUnsubscribe(n) ==
  /\ n \in MayShutdown /\ Up(n) /\ bus[n] = None
  /\ sd' = [sd EXCEPT ![n] = "unsubscribed"]
  /\ UNCHANGED <<pc, sid, open, old, beat, handlerVars, onl, reg, hb,
                 expired, bus, snap, sharedVars>>

(* Faulty: nil entries are not skipped. *)
SnapshotWithNil(n) ==
  /\ sd[n] = "unsubscribed"
  /\ sd' = [sd EXCEPT ![n] = "snapped"]
  /\ snap' = [snap EXCEPT ![n] = {reg[n][u] : u \in Uids}]
  /\ UNCHANGED <<pc, sid, open, old, beat, handlerVars, onl, reg, hb,
                 expired, bus, sharedVars>>

(* snapshotAll and clear are two separate critical sections. *)
ShutdownSnapshot(n) ==
  /\ sd[n] = "unsubscribed"
  /\ sd' = [sd EXCEPT ![n] = "snapped"]
  /\ snap' = [snap EXCEPT ![n] = {reg[n][u] : u \in Uids} \ {None}]
  /\ UNCHANGED <<pc, sid, open, old, beat, handlerVars, onl, reg, hb,
                 expired, bus, sharedVars>>

(* clear, then handleUserOffline of every snapshot client in parallel. *)
ShutdownClear(n) ==
  /\ sd[n] = "snapped"
  /\ sd' = [sd EXCEPT ![n] = "cleared"]
  /\ reg' = [reg EXCEPT ![n] = [u \in Uids |-> None]]
  /\ hs' = [c \in Conns |-> IF c \in snap[n] THEN "read" ELSE hs[c]]
  /\ cause' = [c \in Conns |-> IF c \in snap[n] THEN "shutdown" ELSE cause[c]]
  /\ UNCHANGED <<pc, sid, open, old, beat, osid, onl, hb, expired, bus, snap,
                 sharedVars>>

(* Once they are all done the snapshot connections are closed. *)
ShutdownClose(n) ==
  /\ sd[n] = "cleared"
  /\ \A c \in snap[n] : hs[c] = "idle"
  /\ open' = [c \in Conns |-> open[c] /\ c \notin snap[n]]
  /\ snap' = [snap EXCEPT ![n] = {}]
  /\ sd' = [sd EXCEPT ![n] = "down"]
  /\ UNCHANGED <<pc, sid, old, beat, handlerVars, onl, reg, hb, expired, bus,
                 sharedVars>>

(* A process ends and a new one starts: all memory is gone, Redis and the
   database stay. *)
FreshProcess(n) ==
  /\ pc' = [c \in Conns |-> IF NodeOf[c] = n THEN "idle" ELSE pc[c]]
  /\ sid' = [c \in Conns |-> IF NodeOf[c] = n THEN None ELSE sid[c]]
  /\ open' = [c \in Conns |-> open[c] /\ NodeOf[c] # n]
  /\ old' = [c \in Conns |-> IF NodeOf[c] = n THEN None ELSE old[c]]
  /\ beat' = [c \in Conns |-> beat[c] /\ NodeOf[c] # n]
  /\ hs' = [c \in Conns |-> IF NodeOf[c] = n THEN "idle" ELSE hs[c]]
  /\ osid' = [c \in Conns |-> IF NodeOf[c] = n THEN None ELSE osid[c]]
  /\ onl' = [c \in Conns |-> IF NodeOf[c] = n THEN None ELSE onl[c]]
  /\ reg' = [reg EXCEPT ![n] = [u \in Uids |-> None]]
  /\ hb' = [hb EXCEPT ![n] = {}]
  /\ expired' = [expired EXCEPT ![n] = {}]
  /\ bus' = [bus EXCEPT ![n] = None]
  /\ sd' = [sd EXCEPT ![n] = "up"]
  /\ snap' = [snap EXCEPT ![n] = {}]
  /\ UNCHANGED <<cause, sharedVars>>

(* main returns after Shutdown, and the node is started again. *)
ExitAndRestart(n) == sd[n] = "down" /\ FreshProcess(n)

(* The process dies without Shutdown. *)
CrashAndRestart(n) == n \in MayCrash /\ FreshProcess(n)

-----------------------------------------------------------------------------
ConnectStep(c) ==
  \/ AuthFail(c)
  \/ \E s \in Sids : Authenticate(c, s)
  \/ SnapshotForReplace(c)
  \/ \E ok \in DbOutcomes : LogoutReplaced(c, ok)
  \/ CloseReplaced(c)
  \/ RemoveReplaced(c)
  \/ UnregisterReplaced(c)
  \/ ForgetReplaced(c)
  \/ \E ok \in DbOutcomes : PrewriteOnline(c, ok)
  \/ Register(c)
  \/ RegisterPresence(c)
  \/ RegisterHeartbeat(c)

OfflineStep(c) ==
  \/ \E ok \in DbOutcomes : \/ OfflineRead(c, ok)
                            \/ OfflineLogout(c, ok)
                            \/ OfflineStatus(c, ok)
  \/ UnregisterRemove(c)
  \/ UnregisterPresence(c)
  \/ UnregisterClose(c)
  \/ UnregisterHeartbeat(c)

OnlineStep(c) ==
  \/ HandleUserOnlineRead(c)
  \/ \E ok \in DbOutcomes : HandleUserOnlineWrite(c, ok)

ShutdownStep(n) ==
  \/ ShutdownSnapshot(n)
  \/ ShutdownClear(n)
  \/ ShutdownClose(n)
  \/ ExitAndRestart(n)

Next ==
  \/ \E c \in Conns : \/ AcceptConnect(c)
                      \/ ConnectStep(c)
                      \/ OfflineStep(c)
                      \/ OnlineStep(c)
                      \/ ConnLost(c)
                      \/ HeartbeatReceived(c)
                      \/ onHeartbeatUpdate(c)
                      \/ onClientClose(c)
  \/ \E n \in Nodes, k \in Conns \X Sids : \/ checkTimeouts(n, k)
                                           \/ onClientTimeout(n, k)
  \/ \E n \in Nodes : \/ ShutdownUnsubscribe(n)
                      \/ ShutdownStep(n)
                      \/ CrashAndRestart(n)
  \/ \E u \in Uids : PresenceExpires(u)
  \/ \E s \in Sids : CreateUserSession(s)

(* Goroutines keep running; sync.Mutex is starvation free, so a Publish that
   waits for the bus lock gets it; Redis drops a key whose TTL ran out; a
   client that stays connected keeps sending heartbeats. *)
Fairness ==
  /\ \A c \in Conns : /\ WF_vars(ConnectStep(c) \/ OfflineStep(c))
                      /\ WF_vars(HeartbeatReceived(c))
                      /\ SF_vars(onHeartbeatUpdate(c))
                      /\ SF_vars(onClientClose(c))
  /\ \A n \in Nodes : WF_vars(ShutdownStep(n))
  /\ \A u \in Uids : WF_vars(PresenceExpires(u))

Spec == Init /\ [][Next]_vars
FairSpec == Spec /\ Fairness

-----------------------------------------------------------------------------
(* The variables hold values of their types. *)
TypeOK ==
  /\ pc \in [Conns -> PcStages]
  /\ sid \in [Conns -> Sids \cup {None}]
  /\ open \in [Conns -> BOOLEAN]
  /\ old \in [Conns -> Conns \cup {None}]
  /\ beat \in [Conns -> BOOLEAN]
  /\ hs \in [Conns -> HsStages]
  /\ cause \in [Conns -> Causes]
  /\ osid \in [Conns -> Sids \cup {None}]
  /\ onl \in [Conns -> Sids \cup {None}]
  /\ reg \in [Nodes -> [Uids -> Conns \cup {None}]]
  /\ hb \in [Nodes -> SUBSET (Conns \X Sids)]
  /\ expired \in [Nodes -> SUBSET (Conns \X Sids)]
  /\ bus \in [Nodes -> Conns \cup {None}]
  /\ sd \in [Nodes -> SdStages]
  /\ snap \in [Nodes -> SUBSET Conns]
  /\ presence \in [Uids -> Nodes \cup {None}]
  /\ status \in [Uids -> Sids \cup {None}]
  /\ sess \in [Sids -> BOOLEAN]

(* The registry of a node that is up never keeps a connection whose accept
   loop has ended (acceptConn's deferred EventClientClose), except while the
   handler of that very event, or of its timeout, still holds the bus. *)
NoDeadRegistration ==
  \A n \in Nodes, u \in Uids :
    reg[n][u] # None /\ pc[reg[n][u]] = "ended" /\ Up(n)
      => bus[n] = reg[n][u]

(* A registered, started connection is always watched: its key is in the
   heartbeat manager, or it was popped and its timeout is due, or its own
   offline handler is running.  Late removals for a replaced connection with
   the same sid must not take the key away. *)
RegisteredIsMonitored ==
  \A n \in Nodes, u \in Uids :
    reg[n][u] # None /\ pc[reg[n][u]] = "live" /\ Up(n)
      => Key(reg[n][u]) \in hb[n] \cup expired[n] \/ bus[n] = reg[n][u]

(* "one active QUIC connection per user" (clientRegistry): on a node that is
   up, two started connections of a user are never open together, but for
   one whose timeout handler is about to close it. *)
OneLiveConnection ==
  \A c, d \in Conns :
    /\ c # d /\ NodeOf[c] = NodeOf[d] /\ Up(NodeOf[c])
    /\ pc[c] = "live" /\ open[c] /\ pc[d] = "live" /\ open[d]
    /\ bus[NodeOf[c]] \notin {c, d}
    => UidOf(c) # UidOf(d)

(* A connection leaves the registry only when it is closed, its own heartbeat
   timeout is being handled, a newer one of the user takes its place, or the
   node goes down: no stale close or timeout event evicts a newer one. *)
OnlyDeadLeaveRegistry ==
  [][\A n \in Nodes, u \in Uids :
       reg[n][u] # None /\ reg'[n][u] = None
         => \/ ~open[reg[n][u]]
            \/ bus[n] = reg[n][u] /\ cause[reg[n][u]] = "timeout"
            \/ sd[n] # "up"
            \/ CrashAndRestart(n)]_reg

(* A closed connection does not stay registered for ever: again and again the
   user's entry in the registry is empty or a connection that is open. *)
ClosedLeavesRegistry ==
  \A n \in Nodes, u \in Uids : []<>(reg[n][u] = None \/ open[reg[n][u]])

(* A registered, open connection whose presence key was deleted by the late
   unregister of an older connection gets it back from its heartbeats. *)
Reachable(n, u) ==
  reg[n][u] # None /\ pc[reg[n][u]] = "live" /\ open[reg[n][u]]

PresenceRestored ==
  \A n \in Nodes, u \in Uids : []<>(Reachable(n, u) => presence[u] # None)

(* A presence key left behind for a user without any connection (a crash, a
   heartbeat handled after the unregister) runs out in the end. *)
HasConnection(u) ==
  \E c \in Conns : pc[c] \notin {"idle", "auth", "ended"} /\ UidOf(c) = u

NoPermanentGhost ==
  \A u \in Uids : []<>(presence[u] # None => HasConnection(u))

-----------------------------------------------------------------------------
(* The inductive invariant behind the registry's safety properties. *)

Started == {"presence", "heartbeat", "live", "ended"}

(* A registry entry is a connection of that node and user that got as far as
   reg.register. *)
RegistrySound ==
  \A n \in Nodes, u \in Uids : reg[n][u] # None =>
    /\ NodeOf[reg[n][u]] = n
    /\ sid[reg[n][u]] # None /\ UidOf(reg[n][u]) = u
    /\ pc[reg[n][u]] \in Started

(* Past authentication the session id is set; only started connections have a
   heartbeat in flight. *)
SidSet ==
  \A c \in Conns : /\ pc[c] \notin {"idle", "auth"} => sid[c] # None
                   /\ beat[c] => pc[c] \in {"live", "ended"}

(* handleConnect holds an old client exactly while it replaces it; the old one
   is closed before its map entry goes and is gone from the map before its
   presence and key are deleted. *)
ReplacementSound ==
  \A c \in Conns :
    /\ (old[c] # None) <=> pc[c] \in ReplaceStages
    /\ old[c] # None =>
         /\ NodeOf[old[c]] = NodeOf[c]
         /\ sid[old[c]] # None /\ UidOf(old[c]) = UidOf(c)
         /\ pc[old[c]] \in Started
         /\ pc[c] \in ReplaceStages \ {"logoutOld", "closeOld"}
              => ~open[old[c]]
         /\ pc[c] \in {"presenceOld", "heartbeatOld"}
              => reg[NodeOf[c]][UidOf(c)] # old[c]

(* The bus is held by the one offline handler that runs for an event, and only
   while the node is up. *)
BusSound ==
  /\ \A n \in Nodes : bus[n] # None =>
       /\ NodeOf[bus[n]] = n /\ Up(n)
       /\ hs[bus[n]] # "idle" /\ cause[bus[n]] # "shutdown"
  /\ \A c \in Conns : hs[c] # "idle" =>
       /\ pc[c] \in Started
       /\ \/ bus[NodeOf[c]] = c
          \/ /\ cause[c] = "shutdown" /\ c \in snap[NodeOf[c]]
             /\ hs[c] \in {"read", "logout", "status"}
       /\ hs[c] \in {"presence", "close", "heartbeat"}
            => reg[NodeOf[c]][UidOf(c)] # c

(* A close event is about a connection that is closed. *)
CloseSound ==
  \A n \in Nodes :
    bus[n] # None /\ cause[bus[n]] = "close" => ~open[bus[n]]

(* Clients are in Shutdown's hands only between snapshotAll and the closes. *)
SnapshotSound ==
  \A n \in Nodes :
    /\ snap[n] # {} => sd[n] \in {"snapped", "cleared"}
    /\ \A c \in snap[n] : NodeOf[c] = n /\ pc[c] \in Started

IInv ==
  /\ TypeOK
  /\ RegistrySound
  /\ SidSet
  /\ ReplacementSound
  /\ BusSound
  /\ CloseSound
  /\ SnapshotSound
  /\ NoDeadRegistration
  /\ RegisteredIsMonitored
=============================================================================
