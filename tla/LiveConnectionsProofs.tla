----------------------- MODULE LiveConnectionsProofs -----------------------
(***************************************************************************)
(* Proofs about LiveConnections, for every set of nodes, connections,      *)
(* users and sessions: IInv is an inductive invariant of Spec; with it     *)
(* come type correctness, NoDeadRegistration, RegisteredIsMonitored and    *)
(* the action property OnlyDeadLeaveRegistry. OneLiveConnection needs      *)
(* OneInv, which is inductive while handshakes of a user do not overlap.   *)
(***************************************************************************)
EXTENDS LiveConnections, FiniteSetTheorems, TLAPS

(* What the invariant says about one connection. *)
LEMMA ConnFacts ==
  ASSUME IInv, NEW c \in Conns
  PROVE  /\ NodeOf[c] \in Nodes
         /\ sid[c] # None => sid[c] \in Sids /\ UidOf(c) \in Uids
         /\ old[c] # None => /\ old[c] \in Conns
                             /\ sid[old[c]] \in Sids
                             /\ UidOf(old[c]) = UidOf(c)
                             /\ NodeOf[old[c]] = NodeOf[c]
         /\ pc[c] \notin {"idle", "auth"} => sid[c] # None
         /\ pc[c] \in ReplaceStages => old[c] # None
         /\ hs[c] # "idle" => sid[c] # None
         /\ beat[c] => sid[c] # None
<1>1. NodeOf[c] \in Nodes
  BY ConstantsAssumption
<1>2. ASSUME NEW d \in Conns, sid[d] # None
      PROVE  sid[d] \in Sids /\ UidOf(d) \in Uids
  BY <1>2, ConstantsAssumption DEF IInv, TypeOK, UidOf
<1>3. old[c] # None => /\ old[c] \in Conns
                       /\ sid[old[c]] \in Sids
                       /\ UidOf(old[c]) = UidOf(c)
                       /\ NodeOf[old[c]] = NodeOf[c]
  BY <1>2 DEF IInv, TypeOK, ReplacementSound
<1>4. pc[c] \notin {"idle", "auth"} => sid[c] # None
  BY DEF IInv, SidSet
<1>5. pc[c] \in ReplaceStages => old[c] # None
  BY DEF IInv, ReplacementSound
<1>6. (hs[c] # "idle" => sid[c] # None) /\ (beat[c] => sid[c] # None)
  BY <1>4 DEF IInv, BusSound, Started, SidSet
<1> QED
  BY <1>1, <1>2, <1>3, <1>4, <1>5, <1>6

(* clientRegistry.removeIfMatch changes at most the entry it names. *)
LEMMA RemoveIfMatchEffect ==
  ASSUME TypeOK, NEW n \in Nodes, NEW u \in Uids, NEW s, NEW c
  PROVE  /\ RemoveIfMatch(n, u, s, c) \in [Nodes -> [Uids -> Conns \cup {None}]]
         /\ \A m \in Nodes, v \in Uids :
              RemoveIfMatch(n, u, s, c)[m][v] =
                IF m = n /\ v = u /\ isCurrentConn(n, u, s, c)
                  THEN None ELSE reg[m][v]
BY DEF TypeOK, RemoveIfMatch

(* Publishing an event changes only the handler's bookkeeping. *)
LEMMA BeginOfflineEffect ==
  ASSUME IInv, NEW c \in Conns, NEW why \in {"close", "timeout"},
         BeginOffline(c, why) \/ UNCHANGED <<handlerVars, bus>>
  PROVE  /\ hs' \in [Conns -> HsStages]
         /\ cause' \in [Conns -> Causes]
         /\ osid' = osid
         /\ bus' \in [Nodes -> Conns \cup {None}]
<1>1. NodeOf[c] \in Nodes /\ "read" \in HsStages /\ why \in Causes
  BY ConstantsAssumption DEF HsStages, Causes
<1>2. CASE UNCHANGED <<handlerVars, bus>>
  BY <1>2 DEF IInv, TypeOK, handlerVars
<1>3. CASE BeginOffline(c, why)
  BY <1>1, <1>3 DEF BeginOffline, IInv, TypeOK
<1> QED
  BY <1>2, <1>3

(* An event that starts a handler for a started connection leaves the bus
   sound. *)
LEMMA BeginOfflineKeepsBus ==
  ASSUME IInv, NEW c \in Conns, NEW why \in {"close", "timeout"},
         bus[NodeOf[c]] = None, Up(NodeOf[c]), pc[c] \in Started,
         BeginOffline(c, why),
         UNCHANGED <<sid, reg, shutVars>>,
         \A d \in Conns : pc[d] \in Started => pc'[d] \in Started
  PROVE  BusSound'
<1>1. /\ NodeOf[c] \in Nodes /\ c # None
      /\ \A d \in Conns : hs'[d] = IF d = c THEN "read" ELSE hs[d]
      /\ \A d \in Conns : cause'[d] = IF d = c THEN why ELSE cause[d]
      /\ \A m \in Nodes : bus'[m] = IF m = NodeOf[c] THEN c ELSE bus[m]
      /\ snap' = snap /\ sd' = sd /\ reg' = reg
  BY ConstantsAssumption DEF BeginOffline, IInv, TypeOK, shutVars
<1>2. \A d \in Conns : UidOf(d)' = UidOf(d)
  BY DEF UidOf
<1>3. ASSUME NEW m \in Nodes, bus'[m] # None
      PROVE  /\ NodeOf[bus'[m]] = m /\ sd'[m] = "up"
             /\ hs'[bus'[m]] # "idle" /\ cause'[bus'[m]] # "shutdown"
  <2>1. CASE m = NodeOf[c]
    BY <2>1, <1>1 DEF Up
  <2>2. CASE m # NodeOf[c]
    <3>1. bus'[m] = bus[m] /\ bus[m] \in Conns /\ bus[m] # c
      BY <2>2, <1>1, <1>3 DEF IInv, TypeOK, BusSound
    <3> QED BY <3>1, <1>1, <1>3 DEF IInv, BusSound, Up
  <2> QED BY <2>1, <2>2
<1>4. ASSUME NEW d \in Conns, hs'[d] # "idle"
      PROVE  /\ pc'[d] \in Started
             /\ \/ bus'[NodeOf[d]] = d
                \/ /\ cause'[d] = "shutdown" /\ d \in snap'[NodeOf[d]]
                   /\ hs'[d] \in {"read", "logout", "status"}
             /\ hs'[d] \in {"presence", "close", "heartbeat"}
                  => reg'[NodeOf[d]][UidOf(d)'] # d
  <2>1. CASE d = c
    BY <2>1, <1>1
  <2>2. CASE d # c
    <3>1. d # None /\ NodeOf[d] \in Nodes
      BY ConstantsAssumption
    <3>2. bus[NodeOf[d]] = d => bus'[NodeOf[d]] = d
      BY <3>1, <1>1
    <3> QED BY <2>2, <3>2, <1>1, <1>2, <1>4 DEF IInv, BusSound
  <2> QED BY <2>1, <2>2
<1> QED
  BY <1>3, <1>4 DEF BusSound, Up

(* A close handler starts for a closed connection. *)
LEMMA BeginOfflineKeepsClose ==
  ASSUME IInv, NEW c \in Conns, NEW why \in {"close", "timeout"},
         BeginOffline(c, why), why = "close" => ~open[c], open' = open
  PROVE  CloseSound'
<1>1. /\ NodeOf[c] \in Nodes
      /\ \A d \in Conns : cause'[d] = IF d = c THEN why ELSE cause[d]
      /\ \A m \in Nodes : bus'[m] = IF m = NodeOf[c] THEN c ELSE bus[m]
  BY ConstantsAssumption DEF BeginOffline, IInv, TypeOK
<1>2. ASSUME NEW m \in Nodes, bus'[m] # None, cause'[bus'[m]] = "close"
      PROVE  ~open[bus'[m]]
  <2>1. CASE m = NodeOf[c]
    BY <2>1, <1>1, <1>2
  <2>2. CASE m # NodeOf[c]
    <3>1. bus'[m] = bus[m] /\ bus[m] \in Conns /\ bus[m] # c
      BY <2>2, <1>1, <1>2 DEF IInv, TypeOK, BusSound
    <3> QED BY <3>1, <1>1, <1>2 DEF IInv, CloseSound
  <2> QED BY <2>1, <2>2
<1> QED BY <1>2 DEF CloseSound

(* AcceptConnect keeps the inductive invariant. *)
LEMMA AcceptConnectKeeps ==
  ASSUME IInv, NEW c \in Conns,
         AcceptConnect(c)
  PROVE  IInv'
<1>1. TypeOK'
  BY ConstantsAssumption DEF IInv, TypeOK, AcceptConnect, PcStages,
        HandshakeStages, HsStages, Causes, SdStages, handlerVars, shutVars,
        sharedVars
<1>2. RegistrySound'
  BY ConstantsAssumption DEF IInv, TypeOK, RegistrySound, AcceptConnect,
        PcStages, HandshakeStages, HsStages, Causes, SdStages, Started, UidOf,
        handlerVars, shutVars, sharedVars
<1>3. SidSet'
  BY ConstantsAssumption DEF IInv, TypeOK, SidSet, AcceptConnect, PcStages,
        HandshakeStages, HsStages, Causes, SdStages, handlerVars, shutVars,
        sharedVars
<1>4. ReplacementSound'
  BY ConstantsAssumption DEF IInv, TypeOK, ReplacementSound, AcceptConnect,
        PcStages, HandshakeStages, ReplaceStages, HsStages, Causes, SdStages,
        Started, UidOf, handlerVars, shutVars, sharedVars
<1>5. BusSound'
  BY ConstantsAssumption DEF IInv, TypeOK, BusSound, AcceptConnect, PcStages,
        HandshakeStages, HsStages, Causes, SdStages, Started, UidOf, Up,
        handlerVars, shutVars, sharedVars
<1>6. CloseSound'
  BY ConstantsAssumption DEF IInv, TypeOK, BusSound, CloseSound,
        AcceptConnect, PcStages, HandshakeStages, HsStages, Causes, SdStages,
        Started, UidOf, Up, handlerVars, shutVars, sharedVars
<1>7. SnapshotSound'
  BY ConstantsAssumption DEF IInv, TypeOK, SnapshotSound, AcceptConnect,
        PcStages, HandshakeStages, HsStages, Causes, SdStages, Started,
        handlerVars, shutVars, sharedVars
<1>8. NoDeadRegistration'
  BY ConstantsAssumption DEF IInv, TypeOK, NoDeadRegistration, AcceptConnect,
        PcStages, HandshakeStages, HsStages, Causes, SdStages, Up,
        handlerVars, shutVars, sharedVars
<1>9. RegisteredIsMonitored'
  BY ConstantsAssumption DEF IInv, TypeOK, RegistrySound,
        RegisteredIsMonitored, AcceptConnect, PcStages, HandshakeStages,
        HsStages, Causes, SdStages, Started, UidOf, Key, Up, handlerVars,
        shutVars, sharedVars
<1> QED
  BY <1>1, <1>2, <1>3, <1>4, <1>5, <1>6, <1>7, <1>8, <1>9 DEF IInv

(* AuthFail keeps the inductive invariant. *)
LEMMA AuthFailKeeps ==
  ASSUME IInv, NEW c \in Conns,
         AuthFail(c)
  PROVE  IInv'
<1>1. TypeOK'
  BY ConstantsAssumption DEF IInv, TypeOK, AuthFail, PcStages,
        HandshakeStages, HsStages, Causes, SdStages, handlerVars, shutVars,
        sharedVars
<1>2. RegistrySound'
  BY ConstantsAssumption DEF IInv, TypeOK, RegistrySound, AuthFail, PcStages,
        HandshakeStages, HsStages, Causes, SdStages, Started, UidOf,
        handlerVars, shutVars, sharedVars
<1>3. SidSet'
  BY ConstantsAssumption DEF IInv, TypeOK, SidSet, AuthFail, PcStages,
        HandshakeStages, HsStages, Causes, SdStages, handlerVars, shutVars,
        sharedVars
<1>4. ReplacementSound'
  BY ConstantsAssumption DEF IInv, TypeOK, ReplacementSound, AuthFail,
        PcStages, HandshakeStages, ReplaceStages, HsStages, Causes, SdStages,
        Started, UidOf, handlerVars, shutVars, sharedVars
<1>5. BusSound'
  BY ConstantsAssumption DEF IInv, TypeOK, BusSound, AuthFail, PcStages,
        HandshakeStages, HsStages, Causes, SdStages, Started, UidOf, Up,
        handlerVars, shutVars, sharedVars
<1>6. CloseSound'
  BY ConstantsAssumption DEF IInv, TypeOK, BusSound, CloseSound, AuthFail,
        PcStages, HandshakeStages, HsStages, Causes, SdStages, Started, UidOf,
        Up, handlerVars, shutVars, sharedVars
<1>7. SnapshotSound'
  BY ConstantsAssumption DEF IInv, TypeOK, SnapshotSound, AuthFail, PcStages,
        HandshakeStages, HsStages, Causes, SdStages, Started, handlerVars,
        shutVars, sharedVars
<1>8. NoDeadRegistration'
  BY ConstantsAssumption DEF IInv, TypeOK, NoDeadRegistration, AuthFail,
        PcStages, HandshakeStages, HsStages, Causes, SdStages, Up,
        handlerVars, shutVars, sharedVars
<1>9. RegisteredIsMonitored'
  BY ConstantsAssumption DEF IInv, TypeOK, RegistrySound,
        RegisteredIsMonitored, AuthFail, PcStages, HandshakeStages, HsStages,
        Causes, SdStages, Started, UidOf, Key, Up, handlerVars, shutVars,
        sharedVars
<1> QED
  BY <1>1, <1>2, <1>3, <1>4, <1>5, <1>6, <1>7, <1>8, <1>9 DEF IInv

(* Authenticate keeps the inductive invariant. *)
LEMMA AuthenticateKeeps ==
  ASSUME IInv, NEW c \in Conns, NEW s \in Sids,
         Authenticate(c, s)
  PROVE  IInv'
<1>1. TypeOK'
  BY ConstantsAssumption DEF IInv, TypeOK, Authenticate, PcStages,
        HandshakeStages, HsStages, Causes, SdStages, handlerVars, shutVars,
        sharedVars
<1>2. RegistrySound'
  BY ConstantsAssumption DEF IInv, TypeOK, RegistrySound, Authenticate,
        PcStages, HandshakeStages, HsStages, Causes, SdStages, Started, UidOf,
        handlerVars, shutVars, sharedVars
<1>3. SidSet'
  BY ConstantsAssumption DEF IInv, TypeOK, SidSet, Authenticate, PcStages,
        HandshakeStages, HsStages, Causes, SdStages, handlerVars, shutVars,
        sharedVars
<1>4. ReplacementSound'
  BY ConstantsAssumption DEF IInv, TypeOK, ReplacementSound, Authenticate,
        PcStages, HandshakeStages, ReplaceStages, HsStages, Causes, SdStages,
        Started, UidOf, handlerVars, shutVars, sharedVars
<1>5. BusSound'
  BY ConstantsAssumption DEF IInv, TypeOK, BusSound, Authenticate, PcStages,
        HandshakeStages, HsStages, Causes, SdStages, Started, UidOf, Up,
        handlerVars, shutVars, sharedVars
<1>6. SnapshotSound'
  BY ConstantsAssumption DEF IInv, TypeOK, SnapshotSound, Authenticate,
        PcStages, HandshakeStages, HsStages, Causes, SdStages, Started,
        handlerVars, shutVars, sharedVars
<1>7. NoDeadRegistration'
  BY ConstantsAssumption DEF IInv, TypeOK, NoDeadRegistration, Authenticate,
        PcStages, HandshakeStages, HsStages, Causes, SdStages, Up,
        handlerVars, shutVars, sharedVars
<1>8. RegisteredIsMonitored'
  BY ConstantsAssumption DEF IInv, TypeOK, RegisteredIsMonitored,
        Authenticate, PcStages, HandshakeStages, HsStages, Causes, SdStages,
        Key, Up, handlerVars, shutVars, sharedVars
<1>9. CloseSound'
  BY DEF IInv, CloseSound, Authenticate, handlerVars, shutVars, sharedVars
<1> QED
  BY <1>1, <1>2, <1>3, <1>4, <1>5, <1>6, <1>7, <1>8, <1>9 DEF IInv

(* What snapshotForReplace finds is a started connection of the same user and
   node, so the replacement that begins is sound. *)
LEMMA SnapshotTakesARegistered == ASSUME IInv, NEW c \in Conns, SnapshotForReplace(c) PROVE TypeOK' /\ ReplacementSound'
<1>1. /\ NodeOf[c] \in Nodes /\ UidOf(c) \in Uids /\ pc[c] = "snap" /\ sid[c] # None /\ old[c] = None
  BY ConnFacts DEF SnapshotForReplace, IInv, ReplacementSound, ReplaceStages
<1> DEFINE x == reg[NodeOf[c]][UidOf(c)]
<1>2. x \in Conns \cup {None}
  BY <1>1 DEF IInv, TypeOK
<1>3. /\ old' = [old EXCEPT ![c] = x]
      /\ pc' = [pc EXCEPT ![c] = IF x = None THEN "prewrite" ELSE "logoutOld"]
  BY <1>1 DEF SnapshotForReplace, IInv, TypeOK
<1>4. x # None => NodeOf[x] = NodeOf[c] /\ sid[x] # None /\ UidOf(x) = UidOf(c) /\ pc[x] \in Started /\ x # c
  BY <1>1, ConstantsAssumption DEF IInv, RegistrySound, Started
<1> HIDE DEF x
<1>5. TypeOK'
  BY <1>2, <1>3 DEF SnapshotForReplace, IInv, TypeOK, PcStages, HandshakeStages, handlerVars, shutVars, sharedVars
<1>6. ReplacementSound'
  <2>1. ASSUME NEW d \in Conns
       PROVE  UidOf(d)' = UidOf(d) /\ pc'[d] \in Started <=> pc[d] \in Started
    BY <1>1, <1>3 DEF UidOf, SnapshotForReplace, Started, IInv, TypeOK
  <2>2. sid' = sid /\ open' = open /\ reg' = reg
    BY DEF SnapshotForReplace
  <2> QED
    <3>1. SUFFICES ASSUME NEW d \in Conns
          PROVE  /\ (old'[d] # None) <=> pc'[d] \in ReplaceStages
                 /\ old'[d] # None =>
                    /\ old'[d] \in Conns
                    /\ NodeOf[old'[d]] = NodeOf[d]
                    /\ sid[old'[d]] # None /\ UidOf(old'[d]) = UidOf(d)
                    /\ pc'[old'[d]] \in Started
                    /\ pc'[d] \in ReplaceStages \ {"logoutOld", "closeOld"}
                         => ~open[old'[d]]
                    /\ pc'[d] \in {"presenceOld", "heartbeatOld"}
                         => reg[NodeOf[d]][UidOf(d)] # old'[d]
      BY <2>2 DEF ReplacementSound, UidOf
    <3>2. CASE d = c
      BY <3>2, <1>1, <1>2, <1>3, <1>4, <2>1 DEF IInv, TypeOK, ReplaceStages
    <3>3. CASE d # c
      <4>1. old'[d] = old[d] /\ pc'[d] = pc[d]
        BY <3>3, <1>3 DEF IInv, TypeOK
      <4> QED BY <4>1, <2>1 DEF IInv, TypeOK, ReplacementSound
    <3> QED BY <3>2, <3>3
<1> QED BY <1>5, <1>6

(* SnapshotForReplace keeps the inductive invariant. *)
LEMMA SnapshotForReplaceKeeps ==
  ASSUME IInv, NEW c \in Conns,
         SnapshotForReplace(c)
  PROVE  IInv'
<1>1. TypeOK'
  BY SnapshotTakesARegistered
<1>2. RegistrySound'
  BY ConstantsAssumption DEF IInv, TypeOK, RegistrySound, SnapshotForReplace,
        PcStages, HandshakeStages, HsStages, Causes, SdStages, Started, UidOf,
        handlerVars, shutVars, sharedVars
<1>3. SidSet'
  BY ConstantsAssumption DEF IInv, TypeOK, SidSet, SnapshotForReplace,
        PcStages, HandshakeStages, HsStages, Causes, SdStages, UidOf,
        handlerVars, shutVars, sharedVars
<1>4. ReplacementSound'
  BY SnapshotTakesARegistered
<1>5. BusSound'
  BY ConstantsAssumption DEF IInv, TypeOK, BusSound, SnapshotForReplace,
        PcStages, HandshakeStages, HsStages, Causes, SdStages, Started, UidOf,
        Up, handlerVars, shutVars, sharedVars
<1>6. SnapshotSound'
  BY ConstantsAssumption DEF IInv, TypeOK, SnapshotSound, SnapshotForReplace,
        PcStages, HandshakeStages, HsStages, Causes, SdStages, Started, UidOf,
        handlerVars, shutVars, sharedVars
<1>7. NoDeadRegistration'
  BY ConstantsAssumption DEF IInv, TypeOK, NoDeadRegistration,
        SnapshotForReplace, PcStages, HandshakeStages, HsStages, Causes,
        SdStages, UidOf, Up, handlerVars, shutVars, sharedVars
<1>8. RegisteredIsMonitored'
  BY ConstantsAssumption DEF IInv, TypeOK, RegisteredIsMonitored,
        SnapshotForReplace, PcStages, HandshakeStages, HsStages, Causes,
        SdStages, UidOf, Key, Up, handlerVars, shutVars, sharedVars
<1>9. CloseSound'
  BY DEF IInv, CloseSound, SnapshotForReplace, UidOf, handlerVars, shutVars,
        sharedVars
<1> QED
  BY <1>1, <1>2, <1>3, <1>4, <1>5, <1>6, <1>7, <1>8, <1>9 DEF IInv

(* LogoutReplaced keeps the inductive invariant. *)
LEMMA LogoutReplacedKeeps ==
  ASSUME IInv, NEW c \in Conns, NEW ok \in BOOLEAN,
         LogoutReplaced(c, ok)
  PROVE  IInv'
<1>1. TypeOK'
  BY ConstantsAssumption DEF IInv, TypeOK, LogoutReplaced, PcStages,
        HandshakeStages, HsStages, Causes, SdStages, handlerVars, shutVars
<1>2. RegistrySound'
  BY ConstantsAssumption DEF IInv, TypeOK, RegistrySound, LogoutReplaced,
        PcStages, HandshakeStages, HsStages, Causes, SdStages, Started, UidOf,
        handlerVars, shutVars
<1>3. SidSet'
  BY ConstantsAssumption DEF IInv, TypeOK, SidSet, LogoutReplaced, PcStages,
        HandshakeStages, HsStages, Causes, SdStages, handlerVars, shutVars
<1>4. ReplacementSound'
  BY ConstantsAssumption DEF IInv, TypeOK, ReplacementSound, LogoutReplaced,
        PcStages, HandshakeStages, ReplaceStages, HsStages, Causes, SdStages,
        Started, UidOf, handlerVars, shutVars
<1>5. BusSound'
  BY ConstantsAssumption DEF IInv, TypeOK, BusSound, LogoutReplaced, PcStages,
        HandshakeStages, HsStages, Causes, SdStages, Started, UidOf, Up,
        handlerVars, shutVars
<1>6. SnapshotSound'
  BY ConstantsAssumption DEF IInv, TypeOK, SnapshotSound, LogoutReplaced,
        PcStages, HandshakeStages, HsStages, Causes, SdStages, Started,
        handlerVars, shutVars
<1>7. NoDeadRegistration'
  BY ConstantsAssumption DEF IInv, TypeOK, NoDeadRegistration, LogoutReplaced,
        PcStages, HandshakeStages, HsStages, Causes, SdStages, Up,
        handlerVars, shutVars
<1>8. RegisteredIsMonitored'
  BY ConstantsAssumption DEF IInv, TypeOK, RegistrySound,
        RegisteredIsMonitored, LogoutReplaced, PcStages, HandshakeStages,
        HsStages, Causes, SdStages, Started, UidOf, Key, Up, handlerVars,
        shutVars
<1>9. CloseSound'
  BY DEF IInv, CloseSound, LogoutReplaced, handlerVars, shutVars
<1> QED
  BY <1>1, <1>2, <1>3, <1>4, <1>5, <1>6, <1>7, <1>8, <1>9 DEF IInv

(* CloseReplaced keeps the inductive invariant. *)
LEMMA CloseReplacedKeeps ==
  ASSUME IInv, NEW c \in Conns,
         CloseReplaced(c)
  PROVE  IInv'
<1>1. TypeOK'
  BY ConstantsAssumption DEF IInv, TypeOK, CloseReplaced, PcStages,
        HandshakeStages, HsStages, Causes, SdStages, handlerVars, shutVars,
        sharedVars
<1>2. RegistrySound'
  BY ConstantsAssumption DEF IInv, TypeOK, RegistrySound, CloseReplaced,
        PcStages, HandshakeStages, HsStages, Causes, SdStages, Started, UidOf,
        handlerVars, shutVars, sharedVars
<1>3. SidSet'
  BY ConstantsAssumption DEF IInv, TypeOK, SidSet, CloseReplaced, PcStages,
        HandshakeStages, HsStages, Causes, SdStages, handlerVars, shutVars,
        sharedVars
<1>4. ReplacementSound'
  BY ConstantsAssumption DEF IInv, TypeOK, ReplacementSound, CloseReplaced,
        PcStages, HandshakeStages, ReplaceStages, HsStages, Causes, SdStages,
        Started, UidOf, handlerVars, shutVars, sharedVars
<1>5. BusSound'
  BY ConstantsAssumption DEF IInv, TypeOK, BusSound, CloseReplaced, PcStages,
        HandshakeStages, HsStages, Causes, SdStages, Started, UidOf, Up,
        handlerVars, shutVars, sharedVars
<1>6. CloseSound'
  BY ConstantsAssumption DEF IInv, TypeOK, BusSound, CloseSound,
        CloseReplaced, PcStages, HandshakeStages, HsStages, Causes, SdStages,
        Started, UidOf, Up, handlerVars, shutVars, sharedVars
<1>7. SnapshotSound'
  BY ConstantsAssumption DEF IInv, TypeOK, SnapshotSound, CloseReplaced,
        PcStages, HandshakeStages, HsStages, Causes, SdStages, Started,
        handlerVars, shutVars, sharedVars
<1>8. NoDeadRegistration'
  BY ConstantsAssumption DEF IInv, TypeOK, NoDeadRegistration, CloseReplaced,
        PcStages, HandshakeStages, HsStages, Causes, SdStages, Up,
        handlerVars, shutVars, sharedVars
<1>9. RegisteredIsMonitored'
  BY ConstantsAssumption DEF IInv, TypeOK, RegisteredIsMonitored,
        CloseReplaced, PcStages, HandshakeStages, HsStages, Causes, SdStages,
        Key, Up, handlerVars, shutVars, sharedVars
<1> QED
  BY <1>1, <1>2, <1>3, <1>4, <1>5, <1>6, <1>7, <1>8, <1>9 DEF IInv

(* RemoveReplaced keeps the inductive invariant. *)
LEMMA RemoveReplacedKeeps == ASSUME IInv, NEW c \in Conns, RemoveReplaced(c) PROVE IInv'
<1> DEFINE n == NodeOf[c]
           u == UidOf(c)
           x == old[c]
           hit == reg[n][u] = x
<1>1. /\ n \in Nodes /\ u \in Uids /\ x \in Conns /\ sid[x] \in Sids
      /\ UidOf(x) = u /\ NodeOf[x] = n /\ pc[c] = "removeOld" /\ ~open[x] /\ pc[x] \in Started /\ x # c
      /\ x # None /\ sid[x] # None
  BY ConnFacts, ConstantsAssumption DEF RemoveReplaced, ReplaceStages, IInv, ReplacementSound, Started
<1>2. /\ reg' \in [Nodes -> [Uids -> Conns \cup {None}]]
      /\ \A m \in Nodes, v \in Uids :
           reg'[m][v] = IF m = n /\ v = u /\ hit THEN None ELSE reg[m][v]
  BY <1>1, RemoveIfMatchEffect DEF RemoveReplaced, IInv, isCurrentConn
<1>3. /\ pc' = [pc EXCEPT ![c] = IF hit THEN "presenceOld" ELSE "prewrite"]
      /\ old' = [old EXCEPT ![c] = IF hit THEN @ ELSE None]
      /\ UNCHANGED <<sid, open, beat, hs, cause, osid, onl, hb, expired, bus,
                 sd, snap, presence, status, sess>>
  BY <1>1 DEF RemoveReplaced, isCurrentConn, handlerVars, shutVars, sharedVars
<1> HIDE DEF n, u, x, hit
<1>a. n = NodeOf[c] /\ u = UidOf(c) /\ x = old[c]
  BY DEF n, u, x
<1>b. \A d \in Conns : UidOf(d)' = UidOf(d) /\ Key(d)' = Key(d)
  BY <1>3 DEF UidOf, Key
<1>c. \A d \in Conns : d # c => pc'[d] = pc[d] /\ old'[d] = old[d]
  BY <1>3 DEF IInv, TypeOK
<1>d. pc'[c] = (IF hit THEN "presenceOld" ELSE "prewrite") /\ old'[c] = (IF hit THEN x ELSE None)
  BY <1>3, <1>a DEF IInv, TypeOK
<1>4. TypeOK'
  BY <1>1, <1>2, <1>3, <1>a DEF IInv, TypeOK, PcStages, HandshakeStages
<1>5. RegistrySound'
  BY <1>1, <1>2, <1>3, <1>b, <1>c DEF IInv, TypeOK, RegistrySound, Started
<1>6. SidSet'
  BY <1>1, <1>3, <1>c, <1>d DEF IInv, TypeOK, SidSet
<1>7. ReplacementSound'
  <2>1. ASSUME NEW d \in Conns
        PROVE  /\ (old'[d] # None) <=> pc'[d] \in ReplaceStages
               /\ old'[d] # None =>
                    /\ old'[d] \in Conns
                    /\ NodeOf[old'[d]] = NodeOf[d]
                    /\ sid[old'[d]] # None /\ UidOf(old'[d]) = UidOf(d)
                    /\ pc'[old'[d]] \in Started
                    /\ pc'[d] \in ReplaceStages \ {"logoutOld", "closeOld"}
                         => ~open[old'[d]]
                    /\ pc'[d] \in {"presenceOld", "heartbeatOld"}
                         => reg'[NodeOf[d]][UidOf(d)] # old'[d]
    <3>1. CASE d = c
      <4>1. CASE hit
        <5>1. reg'[n][u] = None
          BY <4>1, <1>1, <1>2
        <5>2. pc'[c] = "presenceOld" /\ old'[c] = x /\ pc'[x] = pc[x]
          BY <4>1, <1>1, <1>c, <1>d
        <5> QED BY <3>1, <5>1, <5>2, <1>1, <1>a DEF ReplaceStages
      <4>2. CASE ~hit
        BY <3>1, <4>2, <1>d DEF ReplaceStages
      <4> QED BY <4>1, <4>2
    <3>2. CASE d # c
      <4>1. old'[d] = old[d] /\ pc'[d] = pc[d]
        BY <3>2, <1>c
      <4>2. old[d] # None => old[d] # c /\ old[d] \in Conns /\ sid[d] # None
        <5>1. old[d] # None => old[d] \in Conns /\ pc[old[d]] \in Started
          BY DEF IInv, TypeOK, ReplacementSound
        <5>2. old[d] # None => pc[d] \notin {"idle", "auth"}
          BY DEF IInv, ReplacementSound, ReplaceStages
        <5> QED BY <1>1, <5>1, <5>2, ConnFacts DEF Started
      <4>3. old[d] # None => reg'[NodeOf[d]][UidOf(d)] \in {None, reg[NodeOf[d]][UidOf(d)]}
        BY <4>2, <1>2, ConnFacts
      <4> QED BY <4>1, <4>2, <4>3, <1>3, <1>b, <1>c DEF IInv, ReplacementSound
    <3> QED BY <3>1, <3>2
  <2> QED BY <2>1, <1>3 DEF ReplacementSound, UidOf
<1>8. BusSound'
  <2>1. \A d \in Conns : (hs[d] # "idle") => (pc'[d] \in Started /\ reg'[NodeOf[d]][UidOf(d)] \in {None, reg[NodeOf[d]][UidOf(d)]})
    <3>1. ASSUME NEW d \in Conns, hs[d] # "idle"
          PROVE  /\ pc'[d] \in Started
                 /\ reg'[NodeOf[d]][UidOf(d)] \in {None, reg[NodeOf[d]][UidOf(d)]}
      <4>1. d # c /\ pc[d] \in Started
        BY <3>1, <1>1 DEF IInv, BusSound, Started
      <4>2. NodeOf[d] \in Nodes /\ UidOf(d) \in Uids
        BY <3>1, ConnFacts
      <4> QED BY <4>1, <4>2, <1>2, <1>c
    <3> QED BY <3>1
  <2>2. \A m \in Nodes : bus'[m] # None =>
          /\ NodeOf[bus'[m]] = m /\ sd'[m] = "up"
          /\ hs'[bus'[m]] # "idle" /\ cause'[bus'[m]] # "shutdown"
    BY <1>3 DEF IInv, BusSound, Up
  <2>3. ASSUME NEW d \in Conns, hs'[d] # "idle"
        PROVE  /\ pc'[d] \in Started
               /\ \/ bus'[NodeOf[d]] = d
                  \/ /\ cause'[d] = "shutdown" /\ d \in snap'[NodeOf[d]]
                     /\ hs'[d] \in {"read", "logout", "status"}
               /\ hs'[d] \in {"presence", "close", "heartbeat"}
                    => reg'[NodeOf[d]][UidOf(d)'] # d
    <3>1. hs[d] # "idle" /\ UidOf(d)' = UidOf(d) /\ d # None
      BY <2>3, <1>3, <1>b, ConstantsAssumption
    <3> QED BY <3>1, <2>1, <1>3 DEF IInv, BusSound
  <2> QED BY <2>2, <2>3 DEF BusSound, Up
<1>9. SnapshotSound'
  BY <1>1, <1>3, <1>c DEF IInv, TypeOK, SnapshotSound, Started
<1>10. NoDeadRegistration' /\ RegisteredIsMonitored'
  <2>1. ASSUME NEW m \in Nodes, NEW v \in Uids, reg'[m][v] # None
        PROVE  /\ reg'[m][v] = reg[m][v]
               /\ pc'[reg[m][v]] = pc[reg[m][v]]
               /\ Key(reg[m][v])' = Key(reg'[m][v])
    <3>1. reg'[m][v] = reg[m][v] /\ reg[m][v] \in Conns
      BY <2>1, <1>2 DEF IInv, TypeOK
    <3>2. reg[m][v] # c
      BY <2>1, <3>1, <1>1 DEF IInv, RegistrySound, Started
    <3> QED BY <3>1, <3>2, <1>3, <1>c DEF Key
  <2> QED BY <2>1, <1>3 DEF IInv, NoDeadRegistration, RegisteredIsMonitored, Up
<1>11. CloseSound'
  BY <1>3 DEF IInv, CloseSound
<1> QED
  BY <1>4, <1>5, <1>6, <1>7, <1>8, <1>9, <1>10, <1>11 DEF IInv

(* UnregisterReplaced keeps the inductive invariant. *)
LEMMA UnregisterReplacedKeeps ==
  ASSUME IInv, NEW c \in Conns,
         UnregisterReplaced(c)
  PROVE  IInv'
<1>1. TypeOK'
  BY ConstantsAssumption DEF IInv, TypeOK, UnregisterReplaced, PcStages,
        HandshakeStages, HsStages, Causes, SdStages, UidOf, handlerVars,
        shutVars
<1>2. RegistrySound'
  BY ConstantsAssumption DEF IInv, TypeOK, RegistrySound, UnregisterReplaced,
        PcStages, HandshakeStages, HsStages, Causes, SdStages, Started, UidOf,
        handlerVars, shutVars
<1>3. SidSet'
  BY ConstantsAssumption DEF IInv, TypeOK, SidSet, UnregisterReplaced,
        PcStages, HandshakeStages, HsStages, Causes, SdStages, UidOf,
        handlerVars, shutVars
<1>4. ReplacementSound'
  BY ConstantsAssumption DEF IInv, TypeOK, ReplacementSound,
        UnregisterReplaced, PcStages, HandshakeStages, ReplaceStages,
        HsStages, Causes, SdStages, Started, UidOf, handlerVars, shutVars
<1>5. BusSound'
  BY ConstantsAssumption DEF IInv, TypeOK, BusSound, UnregisterReplaced,
        PcStages, HandshakeStages, HsStages, Causes, SdStages, Started, UidOf,
        Up, handlerVars, shutVars
<1>6. SnapshotSound'
  BY ConstantsAssumption DEF IInv, TypeOK, SnapshotSound, UnregisterReplaced,
        PcStages, HandshakeStages, HsStages, Causes, SdStages, Started, UidOf,
        handlerVars, shutVars
<1>7. NoDeadRegistration'
  BY ConstantsAssumption DEF IInv, TypeOK, NoDeadRegistration,
        UnregisterReplaced, PcStages, HandshakeStages, HsStages, Causes,
        SdStages, UidOf, Up, handlerVars, shutVars
<1>8. RegisteredIsMonitored'
  BY ConstantsAssumption DEF IInv, TypeOK, RegistrySound,
        RegisteredIsMonitored, UnregisterReplaced, PcStages, HandshakeStages,
        HsStages, Causes, SdStages, Started, UidOf, Key, Up, handlerVars,
        shutVars
<1>9. CloseSound'
  BY DEF IInv, CloseSound, UnregisterReplaced, UidOf, handlerVars, shutVars
<1> QED
  BY <1>1, <1>2, <1>3, <1>4, <1>5, <1>6, <1>7, <1>8, <1>9 DEF IInv

(* The key deleted for the replaced connection is not that of a registered one. *)
LEMMA ForgettingTheOldKeepsMonitored ==
  ASSUME IInv, NEW c \in Conns, ForgetReplaced(c)
  PROVE  RegisteredIsMonitored'
<1>1. /\ old[c] \in Conns /\ sid[old[c]] # None
      /\ \A m \in Nodes, v \in Uids : reg[m][v] # None => reg[m][v] # old[c]
  BY ConnFacts DEF ForgetReplaced, IInv, ReplacementSound, RegistrySound, ReplaceStages
<1>2. /\ hb' = [hb EXCEPT ![NodeOf[c]] = @ \ {Key(old[c])}]
      /\ pc' = [pc EXCEPT ![c] = "prewrite"]
      /\ UNCHANGED <<sid, reg, expired, bus, sd>>
  BY DEF ForgetReplaced, shutVars
<1>3. ASSUME NEW m \in Nodes, NEW v \in Uids, reg[m][v] # None
      PROVE  /\ Key(reg[m][v])' = Key(reg[m][v])
             /\ Key(reg[m][v]) \in hb[m] => Key(reg[m][v]) \in hb'[m]
             /\ pc'[reg[m][v]] = "live" => pc[reg[m][v]] = "live"
  BY <1>1, <1>2, <1>3 DEF IInv, TypeOK, Key
<1> QED BY <1>2, <1>3 DEF IInv, RegisteredIsMonitored, Up

(* ForgetReplaced keeps the inductive invariant. *)
LEMMA ForgetReplacedKeeps ==
  ASSUME IInv, NEW c \in Conns,
         ForgetReplaced(c)
  PROVE  IInv'
<1>1. TypeOK'
  BY ConstantsAssumption DEF IInv, TypeOK, ForgetReplaced, PcStages,
        HandshakeStages, HsStages, Causes, SdStages, Key, handlerVars,
        shutVars, sharedVars
<1>2. RegistrySound'
  BY ConstantsAssumption DEF IInv, TypeOK, RegistrySound, ForgetReplaced,
        PcStages, HandshakeStages, HsStages, Causes, SdStages, Started, UidOf,
        Key, handlerVars, shutVars, sharedVars
<1>3. SidSet'
  BY ConstantsAssumption DEF IInv, TypeOK, SidSet, ForgetReplaced, PcStages,
        HandshakeStages, HsStages, Causes, SdStages, Key, handlerVars,
        shutVars, sharedVars
<1>4. ReplacementSound'
  BY ConstantsAssumption DEF IInv, TypeOK, ReplacementSound, ForgetReplaced,
        PcStages, HandshakeStages, ReplaceStages, HsStages, Causes, SdStages,
        Started, UidOf, Key, handlerVars, shutVars, sharedVars
<1>5. BusSound'
  BY ConstantsAssumption DEF IInv, TypeOK, BusSound, ForgetReplaced, PcStages,
        HandshakeStages, HsStages, Causes, SdStages, Started, UidOf, Key, Up,
        handlerVars, shutVars, sharedVars
<1>6. SnapshotSound'
  BY ConstantsAssumption DEF IInv, TypeOK, SnapshotSound, ForgetReplaced,
        PcStages, HandshakeStages, HsStages, Causes, SdStages, Started, Key,
        handlerVars, shutVars, sharedVars
<1>7. NoDeadRegistration'
  BY ConstantsAssumption DEF IInv, TypeOK, NoDeadRegistration, ForgetReplaced,
        PcStages, HandshakeStages, HsStages, Causes, SdStages, Key, Up,
        handlerVars, shutVars, sharedVars
<1>8. RegisteredIsMonitored'
  BY ForgettingTheOldKeepsMonitored
<1>9. CloseSound'
  BY DEF IInv, CloseSound, ForgetReplaced, Key, handlerVars, shutVars,
        sharedVars
<1> QED
  BY <1>1, <1>2, <1>3, <1>4, <1>5, <1>6, <1>7, <1>8, <1>9 DEF IInv

(* PrewriteOnline keeps the inductive invariant. *)
LEMMA PrewriteOnlineKeeps ==
  ASSUME IInv, NEW c \in Conns, NEW ok \in BOOLEAN,
         PrewriteOnline(c, ok)
  PROVE  IInv'
<1>1. TypeOK'
  BY ConstantsAssumption DEF IInv, TypeOK, PrewriteOnline, PcStages,
        HandshakeStages, HsStages, Causes, SdStages, UidOf, handlerVars,
        shutVars
<1>2. RegistrySound'
  BY ConstantsAssumption DEF IInv, TypeOK, RegistrySound, PrewriteOnline,
        PcStages, HandshakeStages, HsStages, Causes, SdStages, Started, UidOf,
        handlerVars, shutVars
<1>3. SidSet'
  BY ConstantsAssumption DEF IInv, TypeOK, SidSet, PrewriteOnline, PcStages,
        HandshakeStages, HsStages, Causes, SdStages, UidOf, handlerVars,
        shutVars
<1>4. ReplacementSound'
  BY ConstantsAssumption DEF IInv, TypeOK, ReplacementSound, PrewriteOnline,
        PcStages, HandshakeStages, ReplaceStages, HsStages, Causes, SdStages,
        Started, UidOf, handlerVars, shutVars
<1>5. BusSound'
  BY ConstantsAssumption DEF IInv, TypeOK, BusSound, PrewriteOnline, PcStages,
        HandshakeStages, HsStages, Causes, SdStages, Started, UidOf, Up,
        handlerVars, shutVars
<1>6. SnapshotSound'
  BY ConstantsAssumption DEF IInv, TypeOK, SnapshotSound, PrewriteOnline,
        PcStages, HandshakeStages, HsStages, Causes, SdStages, Started, UidOf,
        handlerVars, shutVars
<1>7. NoDeadRegistration'
  BY ConstantsAssumption DEF IInv, TypeOK, NoDeadRegistration, PrewriteOnline,
        PcStages, HandshakeStages, HsStages, Causes, SdStages, UidOf, Up,
        handlerVars, shutVars
<1>8. RegisteredIsMonitored'
  BY ConstantsAssumption DEF IInv, TypeOK, RegistrySound,
        RegisteredIsMonitored, PrewriteOnline, PcStages, HandshakeStages,
        HsStages, Causes, SdStages, Started, UidOf, Key, Up, handlerVars,
        shutVars
<1>9. CloseSound'
  BY DEF IInv, CloseSound, PrewriteOnline, UidOf, handlerVars, shutVars
<1> QED
  BY <1>1, <1>2, <1>3, <1>4, <1>5, <1>6, <1>7, <1>8, <1>9 DEF IInv

(* reg.register puts a connection where it belongs. *)
LEMMA RegisterIsSound ==
  ASSUME IInv, NEW c \in Conns, Register(c)
  PROVE  RegistrySound'
<1>1. NodeOf[c] \in Nodes /\ UidOf(c) \in Uids /\ sid[c] # None
  BY ConnFacts DEF Register
<1>2. /\ \A m \in Nodes, v \in Uids : reg'[m][v] = IF m = NodeOf[c] /\ v = UidOf(c) THEN c ELSE reg[m][v]
      /\ \A d \in Conns : pc'[d] = IF d = c THEN "presence" ELSE pc[d]
      /\ sid' = sid
  BY <1>1 DEF Register, IInv, TypeOK
<1>3. \A d \in Conns : UidOf(d)' = UidOf(d)
  BY <1>2 DEF UidOf
<1>4. ASSUME NEW m \in Nodes, NEW v \in Uids, reg'[m][v] # None
      PROVE  /\ NodeOf[reg'[m][v]] = m
             /\ sid[reg'[m][v]] # None /\ UidOf(reg'[m][v]) = v
             /\ pc'[reg'[m][v]] \in Started
  <2>1. CASE m = NodeOf[c] /\ v = UidOf(c)
    BY <2>1, <1>1, <1>2 DEF Started
  <2>2. CASE ~(m = NodeOf[c] /\ v = UidOf(c))
    <3>1. reg'[m][v] = reg[m][v] /\ reg[m][v] \in Conns
      BY <2>2, <1>2, <1>4 DEF IInv, TypeOK
    <3> QED BY <3>1, <1>2, <1>4 DEF IInv, RegistrySound, Started
  <2> QED BY <2>1, <2>2
<1> QED BY <1>2, <1>4 DEF RegistrySound, UidOf

(* Register keeps the inductive invariant. *)
LEMMA RegisterKeeps ==
  ASSUME IInv, NEW c \in Conns,
         Register(c)
  PROVE  IInv'
<1>1. TypeOK'
  BY ConstantsAssumption DEF IInv, TypeOK, Register, PcStages,
        HandshakeStages, HsStages, Causes, SdStages, UidOf, handlerVars,
        shutVars, sharedVars
<1>2. RegistrySound'
  BY RegisterIsSound
<1>3. SidSet'
  BY ConstantsAssumption DEF IInv, TypeOK, SidSet, Register, PcStages,
        HandshakeStages, HsStages, Causes, SdStages, UidOf, handlerVars,
        shutVars, sharedVars
<1>4. ReplacementSound'
  BY ConstantsAssumption DEF IInv, TypeOK, ReplacementSound, Register,
        PcStages, HandshakeStages, ReplaceStages, HsStages, Causes, SdStages,
        Started, UidOf, handlerVars, shutVars, sharedVars
<1>5. BusSound'
  BY ConstantsAssumption DEF IInv, TypeOK, BusSound, Register, PcStages,
        HandshakeStages, HsStages, Causes, SdStages, Started, UidOf, Up,
        handlerVars, shutVars, sharedVars
<1>6. SnapshotSound'
  BY ConstantsAssumption DEF IInv, TypeOK, SnapshotSound, Register, PcStages,
        HandshakeStages, HsStages, Causes, SdStages, Started, UidOf,
        handlerVars, shutVars, sharedVars
<1>7. NoDeadRegistration'
  BY ConstantsAssumption DEF IInv, TypeOK, NoDeadRegistration, Register,
        PcStages, HandshakeStages, HsStages, Causes, SdStages, UidOf, Up,
        handlerVars, shutVars, sharedVars
<1>8. RegisteredIsMonitored'
  BY ConstantsAssumption DEF IInv, TypeOK, RegisteredIsMonitored, Register,
        PcStages, HandshakeStages, HsStages, Causes, SdStages, UidOf, Key, Up,
        handlerVars, shutVars, sharedVars
<1>9. CloseSound'
  BY DEF IInv, CloseSound, Register, UidOf, handlerVars, shutVars, sharedVars
<1> QED
  BY <1>1, <1>2, <1>3, <1>4, <1>5, <1>6, <1>7, <1>8, <1>9 DEF IInv

(* RegisterPresence keeps the inductive invariant. *)
LEMMA RegisterPresenceKeeps ==
  ASSUME IInv, NEW c \in Conns,
         RegisterPresence(c)
  PROVE  IInv'
<1>1. TypeOK'
  BY ConstantsAssumption DEF IInv, TypeOK, RegisterPresence, PcStages,
        HandshakeStages, HsStages, Causes, SdStages, UidOf, handlerVars,
        shutVars
<1>2. RegistrySound'
  BY ConstantsAssumption DEF IInv, TypeOK, RegistrySound, RegisterPresence,
        PcStages, HandshakeStages, HsStages, Causes, SdStages, Started, UidOf,
        handlerVars, shutVars
<1>3. SidSet'
  BY ConstantsAssumption DEF IInv, TypeOK, SidSet, RegisterPresence, PcStages,
        HandshakeStages, HsStages, Causes, SdStages, UidOf, handlerVars,
        shutVars
<1>4. ReplacementSound'
  BY ConstantsAssumption DEF IInv, TypeOK, ReplacementSound, RegisterPresence,
        PcStages, HandshakeStages, ReplaceStages, HsStages, Causes, SdStages,
        Started, UidOf, handlerVars, shutVars
<1>5. BusSound'
  BY ConstantsAssumption DEF IInv, TypeOK, BusSound, RegisterPresence,
        PcStages, HandshakeStages, HsStages, Causes, SdStages, Started, UidOf,
        Up, handlerVars, shutVars
<1>6. SnapshotSound'
  BY ConstantsAssumption DEF IInv, TypeOK, SnapshotSound, RegisterPresence,
        PcStages, HandshakeStages, HsStages, Causes, SdStages, Started, UidOf,
        handlerVars, shutVars
<1>7. NoDeadRegistration'
  BY ConstantsAssumption DEF IInv, TypeOK, NoDeadRegistration,
        RegisterPresence, PcStages, HandshakeStages, HsStages, Causes,
        SdStages, UidOf, Up, handlerVars, shutVars
<1>8. RegisteredIsMonitored'
  BY ConstantsAssumption DEF IInv, TypeOK, RegistrySound,
        RegisteredIsMonitored, RegisterPresence, PcStages, HandshakeStages,
        HsStages, Causes, SdStages, Started, UidOf, Key, Up, handlerVars,
        shutVars
<1>9. CloseSound'
  BY DEF IInv, CloseSound, RegisterPresence, UidOf, handlerVars, shutVars
<1> QED
  BY <1>1, <1>2, <1>3, <1>4, <1>5, <1>6, <1>7, <1>8, <1>9 DEF IInv

(* The key registered is made of the connection and its session. *)
LEMMA RegisterHeartbeatTypes ==
  ASSUME IInv, NEW c \in Conns, RegisterHeartbeat(c)
  PROVE  TypeOK'
<1>1. NodeOf[c] \in Nodes /\ Key(c) \in Conns \X Sids
  BY ConnFacts DEF RegisterHeartbeat, Key
<1>2. hb' \in [Nodes -> SUBSET (Conns \X Sids)]
  BY <1>1 DEF RegisterHeartbeat, IInv, TypeOK
<1> QED
  BY <1>2 DEF RegisterHeartbeat, IInv, TypeOK, PcStages, handlerVars, shutVars, sharedVars

(* RegisterHeartbeat keeps the inductive invariant. *)
LEMMA RegisterHeartbeatKeeps ==
  ASSUME IInv, NEW c \in Conns,
         RegisterHeartbeat(c)
  PROVE  IInv'
<1>1. TypeOK'
  BY RegisterHeartbeatTypes
<1>2. RegistrySound'
  BY ConstantsAssumption DEF IInv, TypeOK, RegistrySound, RegisterHeartbeat,
        PcStages, HandshakeStages, HsStages, Causes, SdStages, Started, UidOf,
        Key, handlerVars, shutVars, sharedVars
<1>3. SidSet'
  BY ConstantsAssumption DEF IInv, TypeOK, SidSet, RegisterHeartbeat,
        PcStages, HandshakeStages, HsStages, Causes, SdStages, Key,
        handlerVars, shutVars, sharedVars
<1>4. ReplacementSound'
  BY ConstantsAssumption DEF IInv, TypeOK, ReplacementSound,
        RegisterHeartbeat, PcStages, HandshakeStages, ReplaceStages, HsStages,
        Causes, SdStages, Started, UidOf, Key, handlerVars, shutVars,
        sharedVars
<1>5. BusSound'
  BY ConstantsAssumption DEF IInv, TypeOK, BusSound, RegisterHeartbeat,
        PcStages, HandshakeStages, HsStages, Causes, SdStages, Started, UidOf,
        Key, Up, handlerVars, shutVars, sharedVars
<1>6. SnapshotSound'
  BY ConstantsAssumption DEF IInv, TypeOK, SnapshotSound, RegisterHeartbeat,
        PcStages, HandshakeStages, HsStages, Causes, SdStages, Started, Key,
        handlerVars, shutVars, sharedVars
<1>7. NoDeadRegistration'
  BY ConstantsAssumption DEF IInv, TypeOK, NoDeadRegistration,
        RegisterHeartbeat, PcStages, HandshakeStages, HsStages, Causes,
        SdStages, Key, Up, handlerVars, shutVars, sharedVars
<1>8. RegisteredIsMonitored'
  BY ConstantsAssumption DEF IInv, TypeOK, RegistrySound,
        RegisteredIsMonitored, RegisterHeartbeat, PcStages, HandshakeStages,
        HsStages, Causes, SdStages, Started, UidOf, Key, Up, handlerVars,
        shutVars, sharedVars
<1>9. CloseSound'
  BY DEF IInv, CloseSound, RegisterHeartbeat, Key, handlerVars, shutVars,
        sharedVars
<1> QED
  BY <1>1, <1>2, <1>3, <1>4, <1>5, <1>6, <1>7, <1>8, <1>9 DEF IInv

(* What handleUserOffline reads is a session id or none. *)
LEMMA OfflineReadTypes ==
  ASSUME IInv, NEW c \in Conns, NEW ok \in BOOLEAN, OfflineRead(c, ok)
  PROVE  TypeOK'
<1>1. UidOf(c) \in Uids
  BY ConnFacts DEF OfflineRead
<1>2. osid' \in [Conns -> Sids \cup {None}]
  BY <1>1 DEF OfflineRead, IInv, TypeOK
<1>3. hs' \in [Conns -> HsStages]
  BY DEF OfflineRead, IInv, TypeOK, HsStages, AfterOffline
<1> QED
  BY <1>2, <1>3 DEF OfflineRead, IInv, TypeOK, shutVars, sharedVars

(* OfflineRead keeps the inductive invariant. *)
LEMMA OfflineReadKeeps ==
  ASSUME IInv, NEW c \in Conns, NEW ok \in BOOLEAN,
         OfflineRead(c, ok)
  PROVE  IInv'
<1>1. TypeOK'
  BY OfflineReadTypes
<1>2. BusSound'
  BY ConstantsAssumption DEF IInv, TypeOK, BusSound, OfflineRead, PcStages,
        HandshakeStages, HsStages, Causes, SdStages, Started, UidOf, Up,
        AfterOffline, shutVars, sharedVars
<1>3. /\ RegistrySound' /\ SidSet' /\ ReplacementSound' /\ CloseSound'
      /\ SnapshotSound' /\ NoDeadRegistration' /\ RegisteredIsMonitored'
  BY DEF IInv, RegistrySound, SidSet, ReplacementSound, CloseSound,
        SnapshotSound, NoDeadRegistration, RegisteredIsMonitored, OfflineRead,
        UidOf, Key, Up, shutVars, sharedVars
<1> QED
  BY <1>1, <1>2, <1>3 DEF IInv

(* OfflineLogout keeps the inductive invariant. *)
LEMMA OfflineLogoutKeeps ==
  ASSUME IInv, NEW c \in Conns, NEW ok \in BOOLEAN,
         OfflineLogout(c, ok)
  PROVE  IInv'
<1>1. TypeOK'
  BY ConstantsAssumption DEF IInv, TypeOK, OfflineLogout, PcStages,
        HandshakeStages, HsStages, Causes, SdStages, shutVars
<1>2. BusSound'
  BY ConstantsAssumption DEF IInv, TypeOK, BusSound, OfflineLogout, PcStages,
        HandshakeStages, HsStages, Causes, SdStages, Started, UidOf, Up,
        shutVars
<1>3. /\ RegistrySound' /\ SidSet' /\ ReplacementSound' /\ CloseSound'
      /\ SnapshotSound' /\ NoDeadRegistration' /\ RegisteredIsMonitored'
  BY DEF IInv, RegistrySound, SidSet, ReplacementSound, CloseSound,
        SnapshotSound, NoDeadRegistration, RegisteredIsMonitored,
        OfflineLogout, UidOf, Key, Up, shutVars
<1> QED
  BY <1>1, <1>2, <1>3 DEF IInv

(* OfflineStatus keeps the inductive invariant. *)
LEMMA OfflineStatusKeeps ==
  ASSUME IInv, NEW c \in Conns, NEW ok \in BOOLEAN,
         OfflineStatus(c, ok)
  PROVE  IInv'
<1>1. TypeOK'
  BY ConstantsAssumption DEF IInv, TypeOK, OfflineStatus, PcStages,
        HandshakeStages, HsStages, Causes, SdStages, UidOf, AfterOffline,
        shutVars
<1>2. BusSound'
  BY ConstantsAssumption DEF IInv, TypeOK, BusSound, OfflineStatus, PcStages,
        HandshakeStages, HsStages, Causes, SdStages, Started, UidOf, Up,
        AfterOffline, shutVars
<1>3. /\ RegistrySound' /\ SidSet' /\ ReplacementSound' /\ CloseSound'
      /\ SnapshotSound' /\ NoDeadRegistration' /\ RegisteredIsMonitored'
  BY DEF IInv, RegistrySound, SidSet, ReplacementSound, CloseSound,
        SnapshotSound, NoDeadRegistration, RegisteredIsMonitored,
        OfflineStatus, UidOf, Key, Up, shutVars
<1> QED
  BY <1>1, <1>2, <1>3 DEF IInv

(* UnregisterRemove keeps the inductive invariant. *)
LEMMA UnregisterRemoveKeeps ==
  ASSUME IInv, NEW c \in Conns, UnregisterRemove(c)
  PROVE  IInv'
<1> DEFINE n == NodeOf[c]
           u == UidOf(c)
           hit == reg[n][u] = c
<1>1. n \in Nodes /\ u \in Uids /\ hs[c] = "remove" /\ c # None
  BY ConnFacts, ConstantsAssumption DEF UnregisterRemove
<1>2. /\ reg' \in [Nodes -> [Uids -> Conns \cup {None}]]
      /\ \A m \in Nodes, v \in Uids :
           reg'[m][v] = IF m = n /\ v = u /\ hit THEN None ELSE reg[m][v]
  BY <1>1, RemoveIfMatchEffect DEF UnregisterRemove, IInv, isCurrentConn
<1>3. /\ hs' = [hs EXCEPT ![c] = IF hit THEN "presence" ELSE "idle"]
      /\ bus' = [bus EXCEPT ![n] = IF hit THEN @ ELSE None]
      /\ UNCHANGED <<pc, sid, open, old, beat, cause, osid, onl, hb, expired,
                     sd, snap, presence, status, sess>>
  BY DEF UnregisterRemove, isCurrentConn, shutVars, sharedVars
<1> HIDE DEF n, u, hit
<1>4. n = NodeOf[c] /\ u = UidOf(c) /\ (hit <=> reg[n][u] = c)
  BY DEF n, u, hit
<1>5. \A d \in Conns : UidOf(d)' = UidOf(d) /\ Key(d)' = Key(d)
  BY <1>3 DEF UidOf, Key
<1>6. /\ \A d \in Conns : d # c => hs'[d] = hs[d]
      /\ hs'[c] = IF hit THEN "presence" ELSE "idle"
      /\ \A m \in Nodes : m # n => bus'[m] = bus[m]
      /\ bus'[n] = IF hit THEN bus[n] ELSE None
  BY <1>1, <1>3 DEF IInv, TypeOK
<1>7. bus[n] = c
  BY <1>1, <1>4 DEF IInv, BusSound
<1>8. ~hit => \A m \in Nodes, v \in Uids : reg[m][v] # c
  BY <1>1, <1>4 DEF IInv, RegistrySound
<1>9. \A m \in Nodes, v \in Uids :
        reg'[m][v] # None => reg'[m][v] = reg[m][v] /\ reg[m][v] # c
  BY <1>1, <1>2, <1>4, <1>8 DEF IInv, RegistrySound
<1>10. TypeOK'
  BY <1>1, <1>2, <1>3 DEF IInv, TypeOK, HsStages
<1>11. RegistrySound'
  BY <1>3, <1>5, <1>9, <1>10 DEF IInv, TypeOK, RegistrySound
<1>12. SidSet' /\ SnapshotSound'
  BY <1>3 DEF IInv, SidSet, SnapshotSound
<1>13. ReplacementSound'
  <2>1. \A d \in Conns :
          old[d] # None => old[d] \in Conns /\ NodeOf[d] \in Nodes /\ UidOf(d) \in Uids
    BY ConnFacts DEF IInv, ReplacementSound, UidOf
  <2>2. \A d \in Conns : old[d] # None =>
          reg'[NodeOf[d]][UidOf(d)] \in {None, reg[NodeOf[d]][UidOf(d)]}
    BY <1>2, <2>1
  <2> QED
    BY <2>1, <2>2, <1>3, <1>5 DEF IInv, ReplacementSound
<1>14. BusSound'
  <2>1. \A m \in Nodes : bus'[m] # None =>
          /\ NodeOf[bus'[m]] = m /\ sd'[m] = "up"
          /\ hs'[bus'[m]] # "idle" /\ cause'[bus'[m]] # "shutdown"
    <3>1. ASSUME NEW m \in Nodes, bus'[m] # None
          PROVE  bus'[m] = bus[m] /\ bus[m] \in Conns /\ (m # n => bus[m] # c)
      BY <3>1, <1>1, <1>4, <1>6, ConstantsAssumption DEF IInv, TypeOK, BusSound
    <3>2. ASSUME NEW m \in Nodes, bus'[m] # None
          PROVE  hs'[bus[m]] # "idle"
      BY <3>1, <3>2, <1>6, <1>7 DEF IInv, BusSound
    <3> QED BY <3>1, <3>2, <1>3 DEF IInv, BusSound, Up
  <2>2. ASSUME NEW d \in Conns, hs'[d] # "idle"
        PROVE  /\ pc'[d] \in Started
               /\ \/ bus'[NodeOf[d]] = d
                  \/ /\ cause'[d] = "shutdown" /\ d \in snap'[NodeOf[d]]
                     /\ hs'[d] \in {"read", "logout", "status"}
               /\ hs'[d] \in {"presence", "close", "heartbeat"}
                    => reg'[NodeOf[d]][UidOf(d)'] # d
    <3>1. CASE d = c
      <4>1. hit
        BY <3>1, <2>2, <1>6
      <4> QED BY <3>1, <4>1, <1>1, <1>2, <1>3, <1>4, <1>5, <1>6, <1>7
              DEF IInv, BusSound
    <3>2. CASE d # c
      <4>1. hs'[d] = hs[d] /\ NodeOf[d] \in Nodes /\ UidOf(d) \in Uids /\ d # None
        BY <3>2, <2>2, <1>6, ConnFacts, ConstantsAssumption
      <4>2. bus[NodeOf[d]] = d => bus'[NodeOf[d]] = d
        BY <3>2, <4>1, <1>6, <1>7
      <4>3. reg'[NodeOf[d]][UidOf(d)] \in {None, reg[NodeOf[d]][UidOf(d)]}
        BY <4>1, <1>2
      <4> QED BY <4>1, <4>2, <4>3, <2>2, <1>3, <1>5 DEF IInv, BusSound
    <3> QED BY <3>1, <3>2
  <2> QED BY <2>1, <2>2 DEF BusSound, Up
<1>15. NoDeadRegistration' /\ RegisteredIsMonitored'
  <2>1. ASSUME NEW m \in Nodes, NEW v \in Uids, reg'[m][v] # None
        PROVE  /\ reg'[m][v] = reg[m][v] /\ Key(reg[m][v])' = Key(reg'[m][v])
               /\ bus[m] = reg[m][v] => bus'[m] = reg[m][v]
    <3>1. reg'[m][v] = reg[m][v] /\ reg[m][v] # c
      BY <2>1, <1>9
    <3>2. bus[m] = reg[m][v] => m # n
      BY <3>1, <1>7
    <3> QED BY <3>1, <3>2, <1>3, <1>6 DEF Key
  <2> QED BY <2>1, <1>3 DEF IInv, NoDeadRegistration, RegisteredIsMonitored, Up
<1>16. CloseSound'
  <2>1. \A m \in Nodes : bus'[m] # None => bus'[m] = bus[m]
    BY <1>1, <1>6
  <2> QED BY <2>1, <1>3 DEF IInv, CloseSound
<1> QED
  BY <1>16, <1>10, <1>11, <1>12, <1>13, <1>14, <1>15 DEF IInv

(* UnregisterPresence keeps the inductive invariant. *)
LEMMA UnregisterPresenceKeeps ==
  ASSUME IInv, NEW c \in Conns,
         UnregisterPresence(c)
  PROVE  IInv'
<1>1. TypeOK'
  BY ConstantsAssumption DEF IInv, TypeOK, UnregisterPresence, PcStages,
        HandshakeStages, HsStages, Causes, SdStages, UidOf, shutVars
<1>2. BusSound'
  BY ConstantsAssumption DEF IInv, TypeOK, BusSound, UnregisterPresence,
        PcStages, HandshakeStages, HsStages, Causes, SdStages, Started, UidOf,
        Up, shutVars
<1>3. /\ RegistrySound' /\ SidSet' /\ ReplacementSound' /\ CloseSound'
      /\ SnapshotSound' /\ NoDeadRegistration' /\ RegisteredIsMonitored'
  BY DEF IInv, RegistrySound, SidSet, ReplacementSound, CloseSound,
        SnapshotSound, NoDeadRegistration, RegisteredIsMonitored,
        UnregisterPresence, UidOf, Key, Up, shutVars
<1> QED
  BY <1>1, <1>2, <1>3 DEF IInv

(* UnregisterClose keeps the inductive invariant. *)
LEMMA UnregisterCloseKeeps ==
  ASSUME IInv, NEW c \in Conns,
         UnregisterClose(c)
  PROVE  IInv'
<1>1. TypeOK'
  BY ConstantsAssumption DEF IInv, TypeOK, UnregisterClose, PcStages,
        HandshakeStages, HsStages, Causes, SdStages, shutVars, sharedVars
<1>2. ReplacementSound'
  BY ConstantsAssumption DEF IInv, TypeOK, ReplacementSound, UnregisterClose,
        PcStages, HandshakeStages, ReplaceStages, HsStages, Causes, SdStages,
        Started, UidOf, shutVars, sharedVars
<1>3. BusSound'
  BY ConstantsAssumption DEF IInv, TypeOK, BusSound, UnregisterClose,
        PcStages, HandshakeStages, HsStages, Causes, SdStages, Started, UidOf,
        Up, shutVars, sharedVars
<1>4. CloseSound'
  BY ConstantsAssumption DEF IInv, TypeOK, BusSound, CloseSound,
        UnregisterClose, PcStages, HandshakeStages, HsStages, Causes,
        SdStages, Started, UidOf, Up, shutVars, sharedVars
<1>5. /\ RegistrySound' /\ SidSet' /\ SnapshotSound'
      /\ NoDeadRegistration' /\ RegisteredIsMonitored'
  BY DEF IInv, RegistrySound, SidSet, SnapshotSound, NoDeadRegistration,
        RegisteredIsMonitored, UnregisterClose, UidOf, Key, Up, shutVars,
        sharedVars
<1> QED
  BY <1>1, <1>2, <1>3, <1>4, <1>5 DEF IInv

(* The handler's last step frees the bus; the connection it drops is no longer
   registered. *)
LEMMA ReleasingTheBus ==
  ASSUME IInv, NEW c \in Conns, UnregisterHeartbeat(c)
  PROVE  BusSound' /\ NoDeadRegistration' /\ RegisteredIsMonitored'
<1>1. /\ NodeOf[c] \in Nodes /\ sid[c] # None /\ hs[c] = "heartbeat"
      /\ bus[NodeOf[c]] = c /\ reg[NodeOf[c]][UidOf(c)] # c
  BY ConnFacts DEF UnregisterHeartbeat, IInv, BusSound
<1>2. \A m \in Nodes, v \in Uids : reg[m][v] # None => reg[m][v] # c
  BY <1>1 DEF IInv, RegistrySound
<1>3. /\ hs' = [hs EXCEPT ![c] = "idle"]
      /\ bus' = [bus EXCEPT ![NodeOf[c]] = None]
      /\ hb' = [hb EXCEPT ![NodeOf[c]] = @ \ {Key(c)}]
      /\ UNCHANGED <<pc, sid, cause, reg, expired, sd, snap>>
  BY DEF UnregisterHeartbeat, shutVars
<1>4. /\ \A d \in Conns : d # c => hs'[d] = hs[d]
      /\ hs'[c] = "idle"
      /\ \A m \in Nodes : m # NodeOf[c] => bus'[m] = bus[m]
      /\ bus'[NodeOf[c]] = None
      /\ \A m \in Nodes, d \in Conns : d # c /\ Key(d) \in hb[m] => Key(d) \in hb'[m]
  BY <1>1, <1>3 DEF IInv, TypeOK, Key
<1>5. BusSound'
  <2>1. ASSUME NEW m \in Nodes, bus'[m] # None
        PROVE  m # NodeOf[c] /\ bus'[m] = bus[m] /\ bus[m] \in Conns /\ bus[m] # c
    BY <2>1, <1>4 DEF IInv, TypeOK, BusSound
  <2>2. ASSUME NEW d \in Conns, hs'[d] # "idle"
        PROVE  /\ d # c /\ hs'[d] = hs[d]
               /\ bus[NodeOf[d]] = d => bus'[NodeOf[d]] = d
    BY <2>2, <1>1, <1>4, ConstantsAssumption
  <2>3. \A d \in Conns : UidOf(d)' = UidOf(d)
    BY <1>3 DEF UidOf
  <2>4. ASSUME NEW m \in Nodes, bus'[m] # None
        PROVE  NodeOf[bus'[m]] = m /\ sd'[m] = "up" /\ hs'[bus'[m]] # "idle" /\ cause'[bus'[m]] # "shutdown"
    BY <2>1, <2>4, <1>3, <1>4 DEF IInv, BusSound, Up
  <2>5. ASSUME NEW d \in Conns, hs'[d] # "idle"
        PROVE  /\ pc'[d] \in Started
               /\ \/ bus'[NodeOf[d]] = d
                  \/ /\ cause'[d] = "shutdown" /\ d \in snap'[NodeOf[d]]
                     /\ hs'[d] \in {"read", "logout", "status"}
               /\ hs'[d] \in {"presence", "close", "heartbeat"}
                    => reg'[NodeOf[d]][UidOf(d)'] # d
    BY <2>2, <2>3, <2>5, <1>3 DEF IInv, BusSound
  <2> QED
    BY <2>4, <2>5 DEF BusSound, Up
<1>6. NoDeadRegistration' /\ RegisteredIsMonitored'
  <2>1. ASSUME NEW m \in Nodes, NEW v \in Uids, reg[m][v] # None
        PROVE  /\ reg[m][v] \in Conns /\ Key(reg[m][v])' = Key(reg'[m][v])
               /\ Key(reg[m][v]) \in hb[m] => Key(reg[m][v]) \in hb'[m]
               /\ bus[m] = reg[m][v] => bus'[m] = reg[m][v]
               /\ Key(reg'[m][v]) = Key(reg[m][v])
    <3>1. reg[m][v] \in Conns /\ reg[m][v] # c
      BY <2>1, <1>2 DEF IInv, TypeOK
    <3>2. bus[m] = reg[m][v] => m # NodeOf[c]
      BY <3>1, <1>1
    <3> QED BY <3>1, <3>2, <1>3, <1>4 DEF Key
  <2> QED BY <2>1, <1>3 DEF IInv, NoDeadRegistration, RegisteredIsMonitored, Up
<1> QED BY <1>5, <1>6

(* UnregisterHeartbeat keeps the inductive invariant. *)
LEMMA UnregisterHeartbeatKeeps ==
  ASSUME IInv, NEW c \in Conns,
         UnregisterHeartbeat(c)
  PROVE  IInv'
<1>1. TypeOK'
  BY ConstantsAssumption DEF IInv, TypeOK, UnregisterHeartbeat, PcStages,
        HandshakeStages, HsStages, Causes, SdStages, Key, shutVars, sharedVars
<1>2. BusSound'
  BY ReleasingTheBus
<1>3. CloseSound'
  BY ConstantsAssumption DEF IInv, TypeOK, BusSound, CloseSound,
        UnregisterHeartbeat, PcStages, HandshakeStages, HsStages, Causes,
        SdStages, Started, UidOf, Key, Up, shutVars, sharedVars
<1>4. NoDeadRegistration'
  BY ReleasingTheBus
<1>5. RegisteredIsMonitored'
  BY ReleasingTheBus
<1>6. RegistrySound' /\ SidSet' /\ ReplacementSound' /\ SnapshotSound'
  BY DEF IInv, RegistrySound, SidSet, ReplacementSound, SnapshotSound,
        UnregisterHeartbeat, UidOf, Key, shutVars, sharedVars
<1> QED
  BY <1>1, <1>2, <1>3, <1>4, <1>5, <1>6 DEF IInv

(* handleUserOnline takes the sid of a registered client. *)
LEMMA OnlineReadTypes ==
  ASSUME IInv, NEW c \in Conns, HandleUserOnlineRead(c)
  PROVE  TypeOK'
<1>1. NodeOf[c] \in Nodes /\ UidOf(c) \in Uids
  BY ConnFacts DEF HandleUserOnlineRead
<1>2. reg[NodeOf[c]][UidOf(c)] \in Conns
  BY <1>1 DEF HandleUserOnlineRead, IInv, TypeOK
<1>3. onl' \in [Conns -> Sids \cup {None}]
  BY <1>2 DEF HandleUserOnlineRead, IInv, TypeOK
<1> QED
  BY <1>3 DEF HandleUserOnlineRead, IInv, TypeOK, handlerVars, shutVars, sharedVars

(* HandleUserOnlineRead keeps the inductive invariant. *)
LEMMA HandleUserOnlineReadKeeps ==
  ASSUME IInv, NEW c \in Conns,
         HandleUserOnlineRead(c)
  PROVE  IInv'
<1>1. TypeOK'
  BY OnlineReadTypes
<1>2. /\ RegistrySound' /\ SidSet' /\ ReplacementSound' /\ BusSound'
      /\ CloseSound' /\ SnapshotSound' /\ NoDeadRegistration' /\ RegisteredIsMonitored'
  BY DEF IInv, RegistrySound, SidSet, ReplacementSound, BusSound, CloseSound,
        SnapshotSound, NoDeadRegistration, RegisteredIsMonitored,
        HandleUserOnlineRead, UidOf, Key, Up, handlerVars, shutVars,
        sharedVars
<1> QED
  BY <1>1, <1>2 DEF IInv

(* HandleUserOnlineWrite keeps the inductive invariant. *)
LEMMA HandleUserOnlineWriteKeeps ==
  ASSUME IInv, NEW c \in Conns, NEW ok \in BOOLEAN,
         HandleUserOnlineWrite(c, ok)
  PROVE  IInv'
<1>1. TypeOK'
  BY ConstantsAssumption DEF IInv, TypeOK, HandleUserOnlineWrite, PcStages,
        HandshakeStages, HsStages, Causes, SdStages, UidOf, handlerVars,
        shutVars
<1>2. /\ RegistrySound' /\ SidSet' /\ ReplacementSound' /\ BusSound'
      /\ CloseSound' /\ SnapshotSound' /\ NoDeadRegistration' /\ RegisteredIsMonitored'
  BY DEF IInv, RegistrySound, SidSet, ReplacementSound, BusSound, CloseSound,
        SnapshotSound, NoDeadRegistration, RegisteredIsMonitored,
        HandleUserOnlineWrite, UidOf, Key, Up, handlerVars, shutVars
<1> QED
  BY <1>1, <1>2 DEF IInv

(* ConnLost keeps the inductive invariant. *)
LEMMA ConnLostKeeps ==
  ASSUME IInv, NEW c \in Conns,
         ConnLost(c)
  PROVE  IInv'
<1>1. TypeOK'
  BY ConstantsAssumption DEF IInv, TypeOK, ConnLost, PcStages,
        HandshakeStages, HsStages, Causes, SdStages, handlerVars, shutVars,
        sharedVars
<1>2. ReplacementSound'
  BY ConstantsAssumption DEF IInv, TypeOK, ReplacementSound, ConnLost,
        PcStages, HandshakeStages, ReplaceStages, HsStages, Causes, SdStages,
        Started, UidOf, handlerVars, shutVars, sharedVars
<1>3. CloseSound'
  BY ConstantsAssumption DEF IInv, TypeOK, BusSound, CloseSound, ConnLost,
        PcStages, HandshakeStages, HsStages, Causes, SdStages, Started, UidOf,
        Up, handlerVars, shutVars, sharedVars
<1>4. /\ RegistrySound' /\ SidSet' /\ BusSound'
      /\ SnapshotSound' /\ NoDeadRegistration' /\ RegisteredIsMonitored'
  BY DEF IInv, RegistrySound, SidSet, BusSound, SnapshotSound,
        NoDeadRegistration, RegisteredIsMonitored, ConnLost, UidOf, Key, Up,
        handlerVars, shutVars, sharedVars
<1> QED
  BY <1>1, <1>2, <1>3, <1>4 DEF IInv

(* HeartbeatReceived keeps the inductive invariant. *)
LEMMA HeartbeatReceivedKeeps ==
  ASSUME IInv, NEW c \in Conns,
         HeartbeatReceived(c)
  PROVE  IInv'
<1>1. TypeOK'
  BY ConstantsAssumption DEF IInv, TypeOK, HeartbeatReceived, PcStages,
        HandshakeStages, HsStages, Causes, SdStages, handlerVars, shutVars,
        sharedVars
<1>2. SidSet'
  BY ConstantsAssumption DEF IInv, TypeOK, SidSet, HeartbeatReceived,
        PcStages, HandshakeStages, HsStages, Causes, SdStages, handlerVars,
        shutVars, sharedVars
<1>3. /\ RegistrySound' /\ ReplacementSound' /\ BusSound' /\ CloseSound'
      /\ SnapshotSound' /\ NoDeadRegistration' /\ RegisteredIsMonitored'
  BY DEF IInv, RegistrySound, ReplacementSound, BusSound, CloseSound,
        SnapshotSound, NoDeadRegistration, RegisteredIsMonitored,
        HeartbeatReceived, UidOf, Key, Up, handlerVars, shutVars, sharedVars
<1> QED
  BY <1>1, <1>2, <1>3 DEF IInv

(* A heartbeat writes a well-formed key and the node's own name. *)
LEMMA HeartbeatTypes ==
  ASSUME IInv, NEW c \in Conns, onHeartbeatUpdate(c)
  PROVE  TypeOK'
<1>1. NodeOf[c] \in Nodes /\ Key(c) \in Conns \X Sids /\ UidOf(c) \in Uids
  BY ConnFacts DEF onHeartbeatUpdate, Key
<1>2. hb' \in [Nodes -> SUBSET (Conns \X Sids)]
  BY <1>1 DEF onHeartbeatUpdate, IInv, TypeOK
<1>3. presence' \in [Uids -> Nodes \cup {None}]
  BY <1>1 DEF onHeartbeatUpdate, IInv, TypeOK
<1> QED
  BY <1>2, <1>3 DEF onHeartbeatUpdate, IInv, TypeOK, handlerVars, shutVars

(* onHeartbeatUpdate keeps the inductive invariant. *)
LEMMA onHeartbeatUpdateKeeps ==
  ASSUME IInv, NEW c \in Conns,
         onHeartbeatUpdate(c)
  PROVE  IInv'
<1>1. TypeOK'
  BY HeartbeatTypes
<1>2. SidSet'
  BY ConstantsAssumption DEF IInv, TypeOK, SidSet, onHeartbeatUpdate,
        PcStages, HandshakeStages, HsStages, Causes, SdStages, UidOf, Key, Up,
        handlerVars, shutVars
<1>3. RegisteredIsMonitored'
  BY ConstantsAssumption DEF IInv, TypeOK, RegisteredIsMonitored,
        onHeartbeatUpdate, PcStages, HandshakeStages, HsStages, Causes,
        SdStages, UidOf, Key, Up, handlerVars, shutVars
<1>4. /\ RegistrySound' /\ ReplacementSound' /\ BusSound'
      /\ CloseSound' /\ SnapshotSound' /\ NoDeadRegistration'
  BY DEF IInv, RegistrySound, ReplacementSound, BusSound, CloseSound,
        SnapshotSound, NoDeadRegistration, onHeartbeatUpdate, UidOf, Key, Up,
        handlerVars, shutVars
<1> QED
  BY <1>1, <1>2, <1>3, <1>4 DEF IInv

(* onClientClose keeps the bus discipline. *)
LEMMA CloseEventTakesTheBus ==
  ASSUME IInv, NEW c \in Conns, onClientClose(c)
  PROVE  TypeOK' /\ BusSound'
<1>1. /\ pc' = [pc EXCEPT ![c] = "ended"] /\ pc[c] = "live"
      /\ bus[NodeOf[c]] = None
      /\ \/ Up(NodeOf[c]) /\ BeginOffline(c, "close")
         \/ UNCHANGED <<handlerVars, bus>>
      /\ UNCHANGED <<sid, open, old, beat, onl, reg, hb, expired, sd, snap,
                     presence, status, sess>>
  BY DEF onClientClose, shutVars, sharedVars
<1>2. TypeOK'
  BY <1>1, BeginOfflineEffect DEF IInv, TypeOK, PcStages
<1>3. \A d \in Conns : pc[d] \in Started => pc'[d] \in Started
  BY <1>1 DEF IInv, TypeOK, Started
<1>4. BusSound'
  <2>1. CASE UNCHANGED <<handlerVars, bus>>
    BY <2>1, <1>1, <1>3 DEF IInv, BusSound, handlerVars, Up, UidOf
  <2>2. CASE Up(NodeOf[c]) /\ BeginOffline(c, "close")
    BY <2>2, <1>1, <1>3, BeginOfflineKeepsBus DEF shutVars, Started
  <2> QED BY <2>1, <2>2, <1>1
<1> QED BY <1>2, <1>4

(* onClientClose keeps the inductive invariant. *)
LEMMA onClientCloseKeeps ==
  ASSUME IInv, NEW c \in Conns,
         onClientClose(c)
  PROVE  IInv'
<1>1. TypeOK'
  BY CloseEventTakesTheBus
<1>2. RegistrySound'
  BY ConstantsAssumption DEF IInv, TypeOK, RegistrySound, onClientClose,
        PcStages, HandshakeStages, HsStages, Causes, SdStages, Started, UidOf,
        Up, isCurrentConn, BeginOffline, handlerVars, shutVars, sharedVars
<1>3. SidSet'
  BY ConstantsAssumption DEF IInv, TypeOK, SidSet, onClientClose, PcStages,
        HandshakeStages, HsStages, Causes, SdStages, UidOf, Up, isCurrentConn,
        BeginOffline, handlerVars, shutVars, sharedVars
<1>4. ReplacementSound'
  BY ConstantsAssumption DEF IInv, TypeOK, ReplacementSound, onClientClose,
        PcStages, HandshakeStages, ReplaceStages, HsStages, Causes, SdStages,
        Started, UidOf, Up, isCurrentConn, BeginOffline, handlerVars,
        shutVars, sharedVars
<1>5. BusSound'
  BY CloseEventTakesTheBus
<1>6. CloseSound'
  <2>1. CASE UNCHANGED <<handlerVars, bus>>
    BY <2>1 DEF onClientClose, IInv, CloseSound, handlerVars
  <2>2. CASE BeginOffline(c, "close")
    BY <2>2, BeginOfflineKeepsClose DEF onClientClose
  <2> QED BY <2>1, <2>2 DEF onClientClose
<1>7. SnapshotSound'
  BY ConstantsAssumption DEF IInv, TypeOK, SnapshotSound, onClientClose,
        PcStages, HandshakeStages, HsStages, Causes, SdStages, Started, UidOf,
        Up, isCurrentConn, BeginOffline, handlerVars, shutVars, sharedVars
<1>8. NoDeadRegistration'
  BY ConstantsAssumption DEF IInv, TypeOK, RegistrySound, BusSound,
        NoDeadRegistration, onClientClose, PcStages, HandshakeStages,
        HsStages, Causes, SdStages, Started, UidOf, Up, isCurrentConn,
        BeginOffline, handlerVars, shutVars, sharedVars
<1>9. RegisteredIsMonitored'
  BY ConstantsAssumption DEF IInv, TypeOK, RegistrySound,
        RegisteredIsMonitored, onClientClose, PcStages, HandshakeStages,
        HsStages, Causes, SdStages, Started, UidOf, Key, Up, isCurrentConn,
        BeginOffline, handlerVars, shutVars, sharedVars
<1> QED
  BY <1>1, <1>2, <1>3, <1>4, <1>5, <1>6, <1>7, <1>8, <1>9 DEF IInv

(* checkTimeouts keeps the inductive invariant. *)
LEMMA checkTimeoutsKeeps ==
  ASSUME IInv, NEW n \in Nodes, NEW k \in Conns \X Sids,
         checkTimeouts(n, k)
  PROVE  IInv'
<1>1. TypeOK'
  BY ConstantsAssumption DEF IInv, TypeOK, checkTimeouts, PcStages,
        HandshakeStages, HsStages, Causes, SdStages, Up, handlerVars,
        shutVars, sharedVars
<1>2. RegisteredIsMonitored'
  BY ConstantsAssumption DEF IInv, TypeOK, RegisteredIsMonitored,
        checkTimeouts, PcStages, HandshakeStages, HsStages, Causes, SdStages,
        Key, Up, handlerVars, shutVars, sharedVars
<1>3. /\ RegistrySound' /\ SidSet' /\ ReplacementSound' /\ BusSound'
      /\ CloseSound' /\ SnapshotSound' /\ NoDeadRegistration'
  BY DEF IInv, RegistrySound, SidSet, ReplacementSound, BusSound, CloseSound,
        SnapshotSound, NoDeadRegistration, checkTimeouts, UidOf, Up,
        handlerVars, shutVars, sharedVars
<1> QED
  BY <1>1, <1>2, <1>3 DEF IInv

(* onClientTimeout keeps the bus discipline; its handler runs for the
   registered connection. *)
LEMMA TimeoutEventTakesTheBus ==
  ASSUME IInv, NEW n \in Nodes, NEW k \in Conns \X Sids, onClientTimeout(n, k)
  PROVE  TypeOK' /\ BusSound' /\ NoDeadRegistration'
<1> DEFINE c == k[1]
<1>1. /\ c \in Conns /\ bus[n] = None
      /\ expired' = [expired EXCEPT ![n] = @ \ {k}]
      /\ \/ Up(n) /\ isCurrentConn(n, Owner[k[2]], k[2], c) /\ BeginOffline(c, "timeout")
         \/ UNCHANGED <<handlerVars, bus>>
      /\ UNCHANGED <<pc, sid, open, old, beat, onl, reg, hb, sd, snap,
                     presence, status, sess>>
  BY DEF onClientTimeout, shutVars, sharedVars
<1>2. isCurrentConn(n, Owner[k[2]], k[2], c) => NodeOf[c] = n /\ pc[c] \in Started
  BY <1>1, ConstantsAssumption DEF isCurrentConn, IInv, RegistrySound
<1> HIDE DEF c
<1>3. TypeOK'
  <2>1. expired' \in [Nodes -> SUBSET (Conns \X Sids)]
    BY <1>1 DEF IInv, TypeOK
  <2> QED BY <2>1, <1>1, BeginOfflineEffect DEF IInv, TypeOK
<1>4. BusSound'
  <2>1. CASE UNCHANGED <<handlerVars, bus>>
    BY <2>1, <1>1 DEF IInv, BusSound, handlerVars, Up, UidOf
  <2>2. CASE Up(n) /\ isCurrentConn(n, Owner[k[2]], k[2], c) /\ BeginOffline(c, "timeout")
    BY <2>2, <1>1, <1>2, BeginOfflineKeepsBus DEF shutVars
  <2> QED BY <2>1, <2>2, <1>1
<1>5. NoDeadRegistration'
  <2>1. ASSUME NEW m \in Nodes, bus[m] # None
        PROVE  bus'[m] = bus[m]
    BY <2>1, <1>1, <1>2 DEF IInv, TypeOK, BeginOffline
  <2>2. ASSUME NEW m \in Nodes, NEW v \in Uids, reg'[m][v] # None,
               pc'[reg'[m][v]] = "ended", Up(m)'
        PROVE  bus'[m] = reg'[m][v]
    <3>1. bus[m] = reg[m][v]
      BY <2>2, <1>1 DEF IInv, NoDeadRegistration, Up
    <3> QED BY <3>1, <2>1, <2>2, <1>1
  <2> QED BY <2>2 DEF NoDeadRegistration
<1> QED BY <1>3, <1>4, <1>5

(* onClientTimeout keeps the inductive invariant. *)
LEMMA onClientTimeoutKeeps ==
  ASSUME IInv, NEW n \in Nodes, NEW k \in Conns \X Sids,
         onClientTimeout(n, k)
  PROVE  IInv'
<1>1. TypeOK'
  BY TimeoutEventTakesTheBus
<1>2. BusSound'
  BY TimeoutEventTakesTheBus
<1>3. CloseSound'
  <2>1. CASE UNCHANGED <<handlerVars, bus>>
    BY <2>1 DEF onClientTimeout, IInv, CloseSound, handlerVars
  <2>2. CASE BeginOffline(k[1], "timeout")
    BY <2>2, BeginOfflineKeepsClose DEF onClientTimeout
  <2> QED BY <2>1, <2>2 DEF onClientTimeout
<1>4. NoDeadRegistration'
  BY TimeoutEventTakesTheBus
<1>5. RegisteredIsMonitored'
  BY ConstantsAssumption DEF IInv, TypeOK, RegistrySound,
        RegisteredIsMonitored, onClientTimeout, PcStages, HandshakeStages,
        HsStages, Causes, SdStages, Started, UidOf, Key, Up, isCurrentConn,
        BeginOffline, handlerVars, shutVars, sharedVars
<1>6. RegistrySound' /\ SidSet' /\ ReplacementSound' /\ SnapshotSound'
  BY DEF IInv, RegistrySound, SidSet, ReplacementSound, SnapshotSound,
        onClientTimeout, UidOf, Up, handlerVars, shutVars, sharedVars
<1> QED
  BY <1>1, <1>2, <1>3, <1>4, <1>5, <1>6 DEF IInv

(* ShutdownUnsubscribe keeps the inductive invariant. *)
LEMMA ShutdownUnsubscribeKeeps ==
  ASSUME IInv, NEW n \in Nodes,
         ShutdownUnsubscribe(n)
  PROVE  IInv'
<1>1. TypeOK'
  BY ConstantsAssumption DEF IInv, TypeOK, ShutdownUnsubscribe, PcStages,
        HandshakeStages, HsStages, Causes, SdStages, Up, handlerVars,
        sharedVars
<1>2. BusSound'
  BY ConstantsAssumption DEF IInv, TypeOK, BusSound, ShutdownUnsubscribe,
        PcStages, HandshakeStages, HsStages, Causes, SdStages, Started, UidOf,
        Up, handlerVars, sharedVars
<1>3. SnapshotSound'
  BY ConstantsAssumption DEF IInv, TypeOK, SnapshotSound, ShutdownUnsubscribe,
        PcStages, HandshakeStages, HsStages, Causes, SdStages, Started, Up,
        handlerVars, sharedVars
<1>4. NoDeadRegistration'
  BY ConstantsAssumption DEF IInv, TypeOK, NoDeadRegistration,
        ShutdownUnsubscribe, PcStages, HandshakeStages, HsStages, Causes,
        SdStages, Up, handlerVars, sharedVars
<1>5. RegisteredIsMonitored'
  BY ConstantsAssumption DEF IInv, TypeOK, RegisteredIsMonitored,
        ShutdownUnsubscribe, PcStages, HandshakeStages, HsStages, Causes,
        SdStages, Key, Up, handlerVars, sharedVars
<1>6. RegistrySound' /\ SidSet' /\ ReplacementSound' /\ CloseSound'
  BY DEF IInv, RegistrySound, SidSet, ReplacementSound, CloseSound,
        ShutdownUnsubscribe, UidOf, Up, handlerVars, sharedVars
<1> QED
  BY <1>1, <1>2, <1>3, <1>4, <1>5, <1>6 DEF IInv

(* snapshotAll does not touch the handlers. *)
LEMMA SnapshotKeepsBus ==
  ASSUME IInv, NEW n \in Nodes, ShutdownSnapshot(n)
  PROVE  BusSound'
<1>1. \A c \in Conns : UidOf(c)' = UidOf(c)
  BY DEF ShutdownSnapshot, UidOf
<1>2. /\ snap[n] = {} /\ sd[n] = "unsubscribed"
      /\ \A m \in Nodes : snap'[m] = IF m = n THEN {reg[n][u] : u \in Uids} \ {None} ELSE snap[m]
      /\ \A m \in Nodes : sd'[m] = IF m = n THEN "snapped" ELSE sd[m]
      /\ UNCHANGED <<pc, sid, hs, cause, bus, reg>>
  BY DEF ShutdownSnapshot, IInv, TypeOK, SnapshotSound, handlerVars
<1>3. ASSUME NEW m \in Nodes, bus'[m] # None
      PROVE  /\ NodeOf[bus'[m]] = m /\ sd'[m] = "up"
             /\ hs'[bus'[m]] # "idle" /\ cause'[bus'[m]] # "shutdown"
  BY <1>2, <1>3 DEF IInv, BusSound, Up
<1>4. ASSUME NEW d \in Conns, hs'[d] # "idle"
      PROVE  /\ pc'[d] \in Started
             /\ \/ bus'[NodeOf[d]] = d
                \/ /\ cause'[d] = "shutdown" /\ d \in snap'[NodeOf[d]]
                   /\ hs'[d] \in {"read", "logout", "status"}
             /\ hs'[d] \in {"presence", "close", "heartbeat"}
                  => reg'[NodeOf[d]][UidOf(d)'] # d
  <2>1. NodeOf[d] \in Nodes /\ (d \in snap[NodeOf[d]] => NodeOf[d] # n)
    BY <1>2, ConstantsAssumption
  <2> QED BY <2>1, <1>1, <1>2, <1>4 DEF IInv, BusSound
<1> QED BY <1>3, <1>4 DEF BusSound, Up

(* ShutdownSnapshot keeps the inductive invariant. *)
LEMMA ShutdownSnapshotKeeps ==
  ASSUME IInv, NEW n \in Nodes,
         ShutdownSnapshot(n)
  PROVE  IInv'
<1>1. TypeOK'
  BY ConstantsAssumption DEF IInv, TypeOK, ShutdownSnapshot, PcStages,
        HandshakeStages, HsStages, Causes, SdStages, handlerVars, sharedVars
<1>2. BusSound'
  BY SnapshotKeepsBus
<1>3. SnapshotSound'
  BY ConstantsAssumption DEF IInv, TypeOK, RegistrySound, SnapshotSound,
        ShutdownSnapshot, PcStages, HandshakeStages, HsStages, Causes,
        SdStages, Started, UidOf, handlerVars, sharedVars
<1>4. NoDeadRegistration'
  BY ConstantsAssumption DEF IInv, TypeOK, NoDeadRegistration,
        ShutdownSnapshot, PcStages, HandshakeStages, HsStages, Causes,
        SdStages, Up, handlerVars, sharedVars
<1>5. RegisteredIsMonitored'
  BY ConstantsAssumption DEF IInv, TypeOK, RegisteredIsMonitored,
        ShutdownSnapshot, PcStages, HandshakeStages, HsStages, Causes,
        SdStages, Key, Up, handlerVars, sharedVars
<1>6. RegistrySound' /\ SidSet' /\ ReplacementSound' /\ CloseSound'
  BY DEF IInv, RegistrySound, SidSet, ReplacementSound, CloseSound,
        ShutdownSnapshot, UidOf, handlerVars, sharedVars
<1> QED
  BY <1>1, <1>2, <1>3, <1>4, <1>5, <1>6 DEF IInv

(* ShutdownClear keeps the inductive invariant. *)
LEMMA ShutdownClearKeeps ==
  ASSUME IInv, NEW n \in Nodes,
         ShutdownClear(n)
  PROVE  IInv'
<1>1. TypeOK'
  BY ConstantsAssumption DEF IInv, TypeOK, ShutdownClear, PcStages,
        HandshakeStages, HsStages, Causes, SdStages, sharedVars
<1>2. RegistrySound'
  BY ConstantsAssumption DEF IInv, TypeOK, RegistrySound, ShutdownClear,
        PcStages, HandshakeStages, HsStages, Causes, SdStages, Started, UidOf,
        sharedVars
<1>3. ReplacementSound'
  BY ConstantsAssumption DEF IInv, TypeOK, ReplacementSound, ShutdownClear,
        PcStages, HandshakeStages, ReplaceStages, HsStages, Causes, SdStages,
        Started, UidOf, sharedVars
<1>4. BusSound'
  BY ConstantsAssumption DEF IInv, TypeOK, BusSound, RegistrySound,
        SnapshotSound, ShutdownClear, PcStages, HandshakeStages, HsStages,
        Causes, SdStages, Started, UidOf, Up, sharedVars
<1>5. CloseSound'
  BY ConstantsAssumption DEF IInv, TypeOK, BusSound, CloseSound,
        ShutdownClear, PcStages, HandshakeStages, HsStages, Causes, SdStages,
        Started, UidOf, Up, sharedVars
<1>6. SnapshotSound'
  BY ConstantsAssumption DEF IInv, TypeOK, SnapshotSound, ShutdownClear,
        PcStages, HandshakeStages, HsStages, Causes, SdStages, Started,
        sharedVars
<1>7. NoDeadRegistration'
  BY ConstantsAssumption DEF IInv, TypeOK, NoDeadRegistration, ShutdownClear,
        PcStages, HandshakeStages, HsStages, Causes, SdStages, Up, sharedVars
<1>8. RegisteredIsMonitored'
  BY ConstantsAssumption DEF IInv, TypeOK, RegisteredIsMonitored,
        ShutdownClear, PcStages, HandshakeStages, HsStages, Causes, SdStages,
        Key, Up, sharedVars
<1>9. SidSet'
  BY DEF IInv, SidSet, ShutdownClear, sharedVars
<1> QED
  BY <1>1, <1>2, <1>3, <1>4, <1>5, <1>6, <1>7, <1>8, <1>9 DEF IInv

(* ShutdownClose keeps the inductive invariant. *)
LEMMA ShutdownCloseKeeps ==
  ASSUME IInv, NEW n \in Nodes,
         ShutdownClose(n)
  PROVE  IInv'
<1>1. TypeOK'
  BY ConstantsAssumption DEF IInv, TypeOK, ShutdownClose, PcStages,
        HandshakeStages, HsStages, Causes, SdStages, handlerVars, sharedVars
<1>2. ReplacementSound'
  BY ConstantsAssumption DEF IInv, TypeOK, ReplacementSound, ShutdownClose,
        PcStages, HandshakeStages, ReplaceStages, HsStages, Causes, SdStages,
        Started, UidOf, handlerVars, sharedVars
<1>3. BusSound'
  BY ConstantsAssumption DEF IInv, TypeOK, BusSound, ShutdownClose, PcStages,
        HandshakeStages, HsStages, Causes, SdStages, Started, UidOf, Up,
        handlerVars, sharedVars
<1>4. CloseSound'
  BY ConstantsAssumption DEF IInv, TypeOK, BusSound, CloseSound,
        ShutdownClose, PcStages, HandshakeStages, HsStages, Causes, SdStages,
        Started, UidOf, Up, handlerVars, sharedVars
<1>5. SnapshotSound'
  BY ConstantsAssumption DEF IInv, TypeOK, SnapshotSound, ShutdownClose,
        PcStages, HandshakeStages, HsStages, Causes, SdStages, Started,
        handlerVars, sharedVars
<1>6. NoDeadRegistration'
  BY ConstantsAssumption DEF IInv, TypeOK, NoDeadRegistration, ShutdownClose,
        PcStages, HandshakeStages, HsStages, Causes, SdStages, Up,
        handlerVars, sharedVars
<1>7. RegisteredIsMonitored'
  BY ConstantsAssumption DEF IInv, TypeOK, RegisteredIsMonitored,
        ShutdownClose, PcStages, HandshakeStages, HsStages, Causes, SdStages,
        Key, Up, handlerVars, sharedVars
<1>8. RegistrySound' /\ SidSet'
  BY DEF IInv, RegistrySound, SidSet, ShutdownClose, UidOf, handlerVars,
        sharedVars
<1> QED
  BY <1>1, <1>2, <1>3, <1>4, <1>5, <1>6, <1>7, <1>8 DEF IInv

(* FreshProcess keeps the inductive invariant. *)
LEMMA FreshProcessKeeps ==
  ASSUME IInv, NEW n \in Nodes,
         FreshProcess(n)
  PROVE  IInv'
<1>1. TypeOK'
  BY ConstantsAssumption DEF IInv, TypeOK, FreshProcess, PcStages,
        HandshakeStages, HsStages, Causes, SdStages, sharedVars
<1>2. RegistrySound'
  BY ConstantsAssumption DEF IInv, TypeOK, RegistrySound, FreshProcess,
        PcStages, HandshakeStages, HsStages, Causes, SdStages, Started, UidOf,
        sharedVars
<1>3. SidSet'
  BY ConstantsAssumption DEF IInv, TypeOK, SidSet, FreshProcess, PcStages,
        HandshakeStages, HsStages, Causes, SdStages, sharedVars
<1>4. ReplacementSound'
  BY ConstantsAssumption DEF IInv, TypeOK, ReplacementSound, FreshProcess,
        PcStages, HandshakeStages, ReplaceStages, HsStages, Causes, SdStages,
        Started, UidOf, sharedVars
<1>5. BusSound'
  BY ConstantsAssumption DEF IInv, TypeOK, BusSound, FreshProcess, PcStages,
        HandshakeStages, HsStages, Causes, SdStages, Started, UidOf, Up,
        sharedVars
<1>6. CloseSound'
  BY ConstantsAssumption DEF IInv, TypeOK, BusSound, CloseSound, FreshProcess,
        PcStages, HandshakeStages, HsStages, Causes, SdStages, Started, UidOf,
        Up, sharedVars
<1>7. SnapshotSound'
  BY ConstantsAssumption DEF IInv, TypeOK, SnapshotSound, FreshProcess,
        PcStages, HandshakeStages, HsStages, Causes, SdStages, Started,
        sharedVars
<1>8. NoDeadRegistration'
  BY ConstantsAssumption DEF IInv, TypeOK, NoDeadRegistration, FreshProcess,
        PcStages, HandshakeStages, HsStages, Causes, SdStages, Up, sharedVars
<1>9. RegisteredIsMonitored'
  BY ConstantsAssumption DEF IInv, TypeOK, RegisteredIsMonitored,
        FreshProcess, PcStages, HandshakeStages, HsStages, Causes, SdStages,
        Key, Up, sharedVars
<1> QED
  BY <1>1, <1>2, <1>3, <1>4, <1>5, <1>6, <1>7, <1>8, <1>9 DEF IInv

(* PresenceExpires keeps the inductive invariant. *)
LEMMA PresenceExpiresKeeps ==
  ASSUME IInv, NEW u \in Uids,
         PresenceExpires(u)
  PROVE  IInv'
<1>1. TypeOK'
  BY ConstantsAssumption DEF IInv, TypeOK, PresenceExpires, PcStages,
        HandshakeStages, HsStages, Causes, SdStages, UidOf, handlerVars,
        shutVars
<1>2. /\ RegistrySound' /\ SidSet' /\ ReplacementSound' /\ BusSound'
      /\ CloseSound' /\ SnapshotSound' /\ NoDeadRegistration' /\ RegisteredIsMonitored'
  BY DEF IInv, RegistrySound, SidSet, ReplacementSound, BusSound, CloseSound,
        SnapshotSound, NoDeadRegistration, RegisteredIsMonitored,
        PresenceExpires, UidOf, Key, Up, handlerVars, shutVars
<1> QED
  BY <1>1, <1>2 DEF IInv

(* CreateUserSession keeps the inductive invariant. *)
LEMMA CreateUserSessionKeeps ==
  ASSUME IInv, NEW s \in Sids,
         CreateUserSession(s)
  PROVE  IInv'
<1>1. TypeOK'
  BY ConstantsAssumption DEF IInv, TypeOK, CreateUserSession, PcStages,
        HandshakeStages, HsStages, Causes, SdStages, handlerVars, shutVars
<1>2. /\ RegistrySound' /\ SidSet' /\ ReplacementSound' /\ BusSound'
      /\ CloseSound' /\ SnapshotSound' /\ NoDeadRegistration' /\ RegisteredIsMonitored'
  BY DEF IInv, RegistrySound, SidSet, ReplacementSound, BusSound, CloseSound,
        SnapshotSound, NoDeadRegistration, RegisteredIsMonitored,
        CreateUserSession, UidOf, Key, Up, handlerVars, shutVars
<1> QED
  BY <1>1, <1>2 DEF IInv

(* The initial state satisfies the invariant. *)
LEMMA InitIInv == Init => IInv
BY ConstantsAssumption
   DEF Init, IInv, TypeOK, RegistrySound, SidSet, ReplacementSound, BusSound,
       CloseSound, SnapshotSound, NoDeadRegistration, RegisteredIsMonitored,
       PcStages, ReplaceStages, HandshakeStages, HsStages, Causes, SdStages

(* A stuttering step keeps it. *)
LEMMA StutterKeeps == IInv /\ UNCHANGED vars => IInv'
BY DEF vars, handlerVars, shutVars, sharedVars, IInv, TypeOK, RegistrySound, SidSet, ReplacementSound,
       BusSound, CloseSound, SnapshotSound, NoDeadRegistration,
       RegisteredIsMonitored, UidOf, Key, Up

(* Every step of the specification keeps it. *)
LEMMA NextKeeps == IInv /\ [Next]_vars => IInv'
<1> SUFFICES ASSUME IInv, Next PROVE IInv'
  BY StutterKeeps
<1>1. ASSUME NEW c \in Conns, ConnectStep(c)
      PROVE  IInv'
  BY <1>1, ConstantsAssumption, AuthFailKeeps, AuthenticateKeeps,
     SnapshotForReplaceKeeps, LogoutReplacedKeeps, CloseReplacedKeeps,
     RemoveReplacedKeeps, UnregisterReplacedKeeps, ForgetReplacedKeeps,
     PrewriteOnlineKeeps, RegisterKeeps, RegisterPresenceKeeps,
     RegisterHeartbeatKeeps DEF ConnectStep
<1>2. ASSUME NEW c \in Conns, OfflineStep(c)
      PROVE  IInv'
  BY <1>2, ConstantsAssumption, OfflineReadKeeps, OfflineLogoutKeeps,
     OfflineStatusKeeps, UnregisterRemoveKeeps, UnregisterPresenceKeeps,
     UnregisterCloseKeeps, UnregisterHeartbeatKeeps DEF OfflineStep
<1>3. ASSUME NEW c \in Conns, OnlineStep(c)
      PROVE  IInv'
  BY <1>3, ConstantsAssumption, HandleUserOnlineReadKeeps,
     HandleUserOnlineWriteKeeps DEF OnlineStep
<1>4. ASSUME NEW c \in Conns,
             \/ AcceptConnect(c) \/ ConnLost(c) \/ HeartbeatReceived(c)
             \/ onHeartbeatUpdate(c) \/ onClientClose(c)
      PROVE  IInv'
  BY <1>4, AcceptConnectKeeps, ConnLostKeeps, HeartbeatReceivedKeeps,
     onHeartbeatUpdateKeeps, onClientCloseKeeps
<1>5. ASSUME NEW n \in Nodes, NEW k \in Conns \X Sids,
             checkTimeouts(n, k) \/ onClientTimeout(n, k)
      PROVE  IInv'
  BY <1>5, checkTimeoutsKeeps, onClientTimeoutKeeps
<1>6. ASSUME NEW n \in Nodes,
             ShutdownUnsubscribe(n) \/ ShutdownStep(n) \/ CrashAndRestart(n)
      PROVE  IInv'
  BY <1>6, ShutdownUnsubscribeKeeps, ShutdownSnapshotKeeps,
     ShutdownClearKeeps, ShutdownCloseKeeps, FreshProcessKeeps
     DEF ShutdownStep, ExitAndRestart, CrashAndRestart
<1>7. ASSUME NEW u \in Uids, PresenceExpires(u)
      PROVE  IInv'
  BY <1>7, PresenceExpiresKeeps
<1>8. ASSUME NEW s \in Sids, CreateUserSession(s)
      PROVE  IInv'
  BY <1>8, CreateUserSessionKeeps
<1> QED
  BY <1>1, <1>2, <1>3, <1>4, <1>5, <1>6, <1>7, <1>8 DEF Next

(* IInv holds in every reachable state, whatever the constants. *)
THEOREM Invariance == Spec => []IInv
BY InitIInv, NextKeeps, PTL DEF Spec

(* The variables of the connection life cycle keep their types. *)
THEOREM TypeCorrect == Spec => []TypeOK
<1>1. IInv => TypeOK
  BY DEF IInv
<1> QED BY <1>1, Invariance, PTL

(* acceptConn's EventClientClose is never lost on a node that is up: the
   registry does not keep a connection whose accept loop has ended, but for
   the time its handler runs. *)
THEOREM NoDeadRegistrationHolds == Spec => []NoDeadRegistration
<1>1. IInv => NoDeadRegistration
  BY DEF IInv
<1> QED BY <1>1, Invariance, PTL

(* Every registered, started connection stays under heartbeat supervision. *)
THEOREM RegisteredIsMonitoredHolds == Spec => []RegisteredIsMonitored
<1>1. IInv => RegisteredIsMonitored
  BY DEF IInv
<1> QED BY <1>1, Invariance, PTL

(* What may empty a registry entry: the replaced connection is closed by then,
   a close event is about a closed connection, and the rest is named. *)
LEMMA LeavingStep ==
  ASSUME IInv, Next, NEW n \in Nodes, NEW u \in Uids,
         reg[n][u] # None, reg'[n][u] = None
  PROVE  \/ ~open[reg[n][u]]
         \/ bus[n] = reg[n][u] /\ cause[reg[n][u]] = "timeout"
         \/ sd[n] # "up"
         \/ CrashAndRestart(n)
<1>1. reg' # reg
  OBVIOUS
<1>2. ASSUME NEW c \in Conns, RemoveReplaced(c)
      PROVE  ~open[reg[n][u]]
  <2>1. /\ NodeOf[c] \in Nodes /\ UidOf(old[c]) \in Uids /\ old[c] \in Conns
        /\ ~open[old[c]]
    BY <1>2, ConnFacts DEF RemoveReplaced, ReplaceStages, IInv, ReplacementSound
  <2>2. reg[n][u] = old[c]
    BY <1>2, <2>1, RemoveIfMatchEffect
       DEF RemoveReplaced, IInv, isCurrentConn
  <2> QED BY <2>1, <2>2
<1>3. ASSUME NEW c \in Conns, UnregisterRemove(c)
      PROVE  \/ ~open[reg[n][u]]
             \/ bus[n] = reg[n][u] /\ cause[reg[n][u]] = "timeout"
  <2>1. NodeOf[c] \in Nodes /\ UidOf(c) \in Uids
    BY <1>3, ConnFacts DEF UnregisterRemove
  <2>2. reg[n][u] = c /\ n = NodeOf[c]
    BY <1>3, <2>1, RemoveIfMatchEffect DEF UnregisterRemove, IInv, isCurrentConn
  <2>3. bus[n] = c /\ cause[c] # "shutdown"
    BY <1>3, <2>2, <2>1, ConstantsAssumption DEF UnregisterRemove, IInv, BusSound
  <2>4. cause[c] \in {"close", "timeout"}
    BY <2>3 DEF IInv, TypeOK, Causes
  <2> QED BY <2>1, <2>2, <2>3, <2>4, ConstantsAssumption DEF IInv, CloseSound
<1>4. ASSUME NEW c \in Conns, Register(c)
      PROVE  FALSE
  <2>1. reg'[n][u] \in {c, reg[n][u]}
    BY <1>4 DEF Register, IInv, TypeOK
  <2> QED BY <2>1, ConstantsAssumption
<1>5. ASSUME NEW m \in Nodes, ShutdownClear(m)
      PROVE  sd[n] # "up"
  <2>1. m = n
    BY <1>5 DEF ShutdownClear, IInv, TypeOK
  <2> QED BY <2>1, <1>5 DEF ShutdownClear
<1>6. ASSUME NEW m \in Nodes, ExitAndRestart(m) \/ CrashAndRestart(m)
      PROVE  sd[n] # "up" \/ CrashAndRestart(n)
  <2>1. m = n
    BY <1>6 DEF ExitAndRestart, CrashAndRestart, FreshProcess, IInv, TypeOK
  <2> QED BY <2>1, <1>6 DEF ExitAndRestart
<1>7. ASSUME NEW c \in Conns, ConnectStep(c)
      PROVE  RemoveReplaced(c) \/ Register(c)
  BY <1>1, <1>7 DEF ConnectStep, AuthFail, Authenticate, SnapshotForReplace,
     LogoutReplaced, CloseReplaced, UnregisterReplaced, ForgetReplaced,
     PrewriteOnline, RegisterPresence, RegisterHeartbeat
<1>8. ASSUME NEW c \in Conns, OfflineStep(c)
      PROVE  UnregisterRemove(c)
  BY <1>1, <1>8 DEF OfflineStep, OfflineRead, OfflineLogout, OfflineStatus,
     UnregisterPresence, UnregisterClose, UnregisterHeartbeat
<1>9. ASSUME NEW m \in Nodes, ShutdownStep(m)
      PROVE  ShutdownClear(m) \/ ExitAndRestart(m)
  BY <1>1, <1>9 DEF ShutdownStep, ShutdownSnapshot, ShutdownClose
<1>10. \/ \E c \in Conns : ConnectStep(c) \/ OfflineStep(c)
       \/ \E m \in Nodes : ShutdownStep(m) \/ CrashAndRestart(m)
  BY <1>1 DEF Next, AcceptConnect, OnlineStep, HandleUserOnlineRead,
     HandleUserOnlineWrite, ConnLost, HeartbeatReceived, onHeartbeatUpdate,
     onClientClose, checkTimeouts, onClientTimeout, ShutdownUnsubscribe,
     PresenceExpires, CreateUserSession
<1> QED
  BY <1>2, <1>3, <1>4, <1>5, <1>6, <1>7, <1>8, <1>9, <1>10

(* No stale close or timeout event, and no replacement, takes a newer open
   connection out of the registry (removeIfMatch, isCurrentConn). *)
THEOREM OnlyDeadLeaveRegistryHolds == Spec => OnlyDeadLeaveRegistry
<1> DEFINE A == \A n \in Nodes, u \in Uids :
                  reg[n][u] # None /\ reg'[n][u] = None
                    => \/ ~open[reg[n][u]]
                       \/ bus[n] = reg[n][u] /\ cause[reg[n][u]] = "timeout"
                       \/ sd[n] # "up"
                       \/ CrashAndRestart(n)
<1>1. IInv /\ [Next]_vars => [A]_reg
  <2>1. ASSUME IInv, Next PROVE A
    BY <2>1, LeavingStep
  <2>2. UNCHANGED vars => UNCHANGED reg
    BY DEF vars
  <2> QED BY <2>1, <2>2
<1> QED
  BY <1>1, Invariance, PTL DEF Spec, OnlyDeadLeaveRegistry

-----------------------------------------------------------------------------
(* One live connection per user, when handshakes of a user do not overlap  *)
(* on a node (MaxHandshakes = 1): what a handshake found in the registry   *)
(* is still there, or nothing is, until it puts its own connection there.  *)

Handshaking == HandshakeStages \ {"auth"}
Serving == {"presence", "heartbeat", "live"}
Registered(c) == reg[NodeOf[c]][UidOf(c)]

OneHandshake ==
  \A c, d \in Conns :
    /\ pc[c] \in Handshaking /\ pc[d] \in Handshaking
    /\ NodeOf[c] = NodeOf[d] /\ UidOf(c) = UidOf(d)
    => c = d

(* Nothing registers next to a handshake. *)
NothingNewer ==
  \A c \in Conns :
    /\ pc[c] \in ReplaceStages => Registered(c) \in {None, old[c]}
    /\ pc[c] \in {"prewrite", "register"} => Registered(c) = None

(* A connection that serves is registered, or its handler has taken it out of
   the registry and is about to close it. *)
OpenIsRegistered ==
  \A c \in Conns :
    pc[c] \in Serving /\ open[c] /\ Up(NodeOf[c]) =>
      \/ Registered(c) = c
      \/ bus[NodeOf[c]] = c /\ hs[c] \in {"presence", "close"}

OneInv == IInv /\ OneHandshake /\ NothingNewer /\ OpenIsRegistered

(* A step that registers and unregisters nobody.                           *)
LEMMA OneUndisturbed ==
  ASSUME OneInv, IInv', UNCHANGED <<sid, reg>>,
         \A c \in Conns :
           /\ pc'[c] \in Handshaking => pc[c] \in Handshaking
           /\ pc'[c] \in ReplaceStages => pc[c] \in ReplaceStages /\ old'[c] = old[c]
           /\ pc'[c] \in {"prewrite", "register"} =>
                pc[c] \in {"prewrite", "register"} \/ Registered(c) = None
           /\ pc'[c] \in Serving => pc[c] \in Serving,
         \A c \in Conns :
           /\ open'[c] => open[c] \/ pc'[c] \notin Serving
           /\ Up(NodeOf[c])' => Up(NodeOf[c])
           /\ Up(NodeOf[c])' /\ open'[c] /\ bus[NodeOf[c]] = c /\ hs[c] \in {"presence", "close"} =>
                bus'[NodeOf[c]] = c /\ hs'[c] \in {"presence", "close"}
  PROVE  OneInv'
<1>1. \A c \in Conns : UidOf(c)' = UidOf(c) /\ Registered(c)' = Registered(c)
  BY DEF UidOf, Registered
<1>2. OneHandshake'
  BY <1>1 DEF OneInv, OneHandshake
<1>3. NothingNewer'
  BY <1>1 DEF OneInv, NothingNewer
<1>4. OpenIsRegistered'
  BY <1>1 DEF OneInv, OpenIsRegistered
<1> QED
  BY <1>2, <1>3, <1>4 DEF OneInv

(* The steps of a handshake that neither begin it nor write the registry.  *)
LEMMA HandshakeKeepsOne ==
  ASSUME OneInv, IInv', NEW c \in Conns,
         \/ AuthFail(c) \/ CloseReplaced(c) \/ UnregisterReplaced(c) \/ ForgetReplaced(c)
         \/ RegisterPresence(c) \/ RegisterHeartbeat(c)
         \/ \E ok \in DbOutcomes : LogoutReplaced(c, ok) \/ PrewriteOnline(c, ok)
  PROVE  OneInv'
<1> USE DEF Handshaking, HandshakeStages, ReplaceStages, Serving
<1>1. TypeOK
  BY DEF OneInv, IInv
<1>2. pc[c] = "heartbeatOld" => Registered(c) = None
  BY DEF OneInv, NothingNewer, IInv, ReplacementSound, Registered
<1>3. UNCHANGED <<sid, reg, sd, bus, hs>>
  BY DEF AuthFail, LogoutReplaced, CloseReplaced, UnregisterReplaced, ForgetReplaced,
     PrewriteOnline, RegisterPresence, RegisterHeartbeat, handlerVars, shutVars
<1>4. \A d \in Conns \ {c} : pc'[d] = pc[d] /\ old'[d] = old[d]
  BY <1>1 DEF TypeOK, AuthFail, LogoutReplaced, CloseReplaced, UnregisterReplaced,
     ForgetReplaced, PrewriteOnline, RegisterPresence, RegisterHeartbeat
<1>5. /\ pc'[c] \in Handshaking => pc[c] \in Handshaking
      /\ pc'[c] \in ReplaceStages => pc[c] \in ReplaceStages /\ old'[c] = old[c]
      /\ pc'[c] \in {"prewrite", "register"} =>
           pc[c] \in {"prewrite", "register"} \/ Registered(c) = None
      /\ pc'[c] \in Serving => pc[c] \in Serving
  BY <1>1, <1>2 DEF TypeOK, AuthFail, LogoutReplaced, CloseReplaced, UnregisterReplaced,
     ForgetReplaced, PrewriteOnline, RegisterPresence, RegisterHeartbeat
<1>6. \A d \in Conns : open'[d] => open[d]
  BY <1>1 DEF TypeOK, AuthFail, LogoutReplaced, CloseReplaced, UnregisterReplaced,
     ForgetReplaced, PrewriteOnline, RegisterPresence, RegisterHeartbeat
<1>7. \A d \in Conns : Up(NodeOf[d])' <=> Up(NodeOf[d])
  BY <1>3 DEF Up
<1> QED
  BY <1>3, <1>4, <1>5, <1>6, <1>7, OneUndisturbed

(* Clients, clocks, the presence key: nothing the argument looks at.       *)
LEMMA OutsideKeepsOne ==
  ASSUME OneInv, IInv', NEW c \in Conns,
         \/ OnlineStep(c) \/ ConnLost(c) \/ HeartbeatReceived(c) \/ onHeartbeatUpdate(c)
         \/ \E n \in Nodes, k \in Conns \X Sids : checkTimeouts(n, k)
         \/ \E u \in Uids : PresenceExpires(u)
         \/ \E s \in Sids : CreateUserSession(s)
  PROVE  OneInv'
<1>1. UNCHANGED <<sid, reg, sd, bus, hs, pc, old>>
  BY DEF OnlineStep, HandleUserOnlineRead, HandleUserOnlineWrite, ConnLost,
     HeartbeatReceived, onHeartbeatUpdate, checkTimeouts, PresenceExpires,
     CreateUserSession, handlerVars, shutVars
<1>2. \A d \in Conns : open'[d] => open[d]
  BY DEF OneInv, IInv, TypeOK, OnlineStep, HandleUserOnlineRead, HandleUserOnlineWrite,
     ConnLost, HeartbeatReceived, onHeartbeatUpdate, checkTimeouts, PresenceExpires,
     CreateUserSession
<1>3. \A d \in Conns : Up(NodeOf[d])' <=> Up(NodeOf[d])
  BY <1>1 DEF Up
<1> QED
  BY <1>1, <1>2, <1>3, OneUndisturbed

(* An event takes the bus while it is free.                                *)
LEMMA EventKeepsOne ==
  ASSUME OneInv, IInv', NEW c \in Conns,
         onClientClose(c) \/ \E n \in Nodes, s \in Sids : onClientTimeout(n, <<c, s>>)
  PROVE  OneInv'
<1>1. TypeOK /\ RegistrySound
  BY DEF OneInv, IInv
<1>2. /\ UNCHANGED <<sid, reg, sd, old, open>>
      /\ \A d \in Conns : pc'[d] # pc[d] => pc[d] = "live" /\ pc'[d] = "ended"
  <2>1. CASE onClientClose(c)
    BY <1>1, <2>1 DEF TypeOK, onClientClose, shutVars
  <2>2. ASSUME NEW n \in Nodes, NEW s \in Sids, onClientTimeout(n, <<c, s>>)
        PROVE  UNCHANGED <<sid, reg, sd, old, open, pc>>
    BY <2>2 DEF onClientTimeout, shutVars
  <2> QED
    BY <2>1, <2>2
<1>3. \/ UNCHANGED <<bus, hs>>
      \/ /\ bus[NodeOf[c]] = None /\ bus' = [bus EXCEPT ![NodeOf[c]] = c]
         /\ hs' = [hs EXCEPT ![c] = "read"]
  <2>1. ASSUME onClientClose(c)
        PROVE  \/ UNCHANGED <<bus, hs>>
               \/ bus[NodeOf[c]] = None /\ BeginOffline(c, "close")
    BY <2>1 DEF onClientClose, handlerVars
  <2>2. ASSUME NEW n \in Nodes, NEW s \in Sids, onClientTimeout(n, <<c, s>>)
        PROVE  \/ UNCHANGED <<bus, hs>>
               \/ bus[NodeOf[c]] = None /\ BeginOffline(c, "timeout")
    <3>1. isCurrentConn(n, Owner[s], s, c) => NodeOf[c] = n
      BY <1>1, ConstantsAssumption DEF RegistrySound, isCurrentConn
    <3> QED
      BY <2>2, <3>1 DEF onClientTimeout, handlerVars
  <2> QED
    BY <2>1, <2>2 DEF BeginOffline
<1>4. ASSUME NEW d \in Conns, bus[NodeOf[d]] = d, hs[d] \in {"presence", "close"}
      PROVE  bus'[NodeOf[d]] = d /\ hs'[d] \in {"presence", "close"}
  <2>1. CASE UNCHANGED <<bus, hs>>
    BY <1>4, <2>1
  <2>2. CASE /\ bus[NodeOf[c]] = None /\ bus' = [bus EXCEPT ![NodeOf[c]] = c]
             /\ hs' = [hs EXCEPT ![c] = "read"]
    <3>1. d # None /\ NodeOf[d] # NodeOf[c] /\ NodeOf[d] \in Nodes
      BY <1>4, <2>2, ConstantsAssumption
    <3> QED
      BY <1>1, <1>4, <2>2, <3>1 DEF TypeOK
  <2> QED
    BY <1>3, <2>1, <2>2
<1>5. \A d \in Conns : Up(NodeOf[d])' <=> Up(NodeOf[d])
  BY <1>2 DEF Up
<1> QED
  BY <1>2, <1>4, <1>5, OneUndisturbed DEF Handshaking, HandshakeStages, ReplaceStages, Serving

(* The offline handler, but for its removal from the registry: it gives    *)
(* the bus back when its connection is closed.                             *)
LEMMA OfflineKeepsOne ==
  ASSUME OneInv, IInv', NEW c \in Conns, OfflineStep(c), ~UnregisterRemove(c)
  PROVE  OneInv'
<1>1. /\ TypeOK /\ BusSound /\ CloseSound
      /\ NodeOf[c] \in Nodes /\ c # None
  BY ConstantsAssumption DEF OneInv, IInv
<1>2. UNCHANGED <<sid, reg, sd, old, pc>>
  BY DEF OfflineStep, OfflineRead, OfflineLogout, OfflineStatus, UnregisterPresence,
     UnregisterClose, UnregisterHeartbeat, handlerVars, shutVars
<1>3. \A d \in Conns : open'[d] => open[d]
  BY <1>1 DEF TypeOK, OfflineStep, OfflineRead, OfflineLogout, OfflineStatus,
     UnregisterPresence, UnregisterClose, UnregisterHeartbeat
<1>4. \A d \in Conns \ {c} : hs'[d] = hs[d]
  BY <1>1 DEF TypeOK, OfflineStep, OfflineRead, OfflineLogout, OfflineStatus,
     UnregisterPresence, UnregisterClose, UnregisterHeartbeat
<1>5. \A d \in Conns : Up(NodeOf[d])' <=> Up(NodeOf[d])
  BY <1>2 DEF Up
<1>6. ASSUME NEW d \in Conns, d # c, bus[NodeOf[d]] = d
      PROVE  bus'[NodeOf[d]] = d
  <2>1. CASE UnregisterHeartbeat(c)
    <3>1. bus[NodeOf[c]] = c
      BY <1>1, <2>1 DEF BusSound, UnregisterHeartbeat
    <3>2. NodeOf[d] # NodeOf[c] /\ NodeOf[d] \in Nodes
      BY <1>6, <3>1, ConstantsAssumption
    <3> QED
      BY <1>1, <1>6, <2>1, <3>2 DEF TypeOK, UnregisterHeartbeat
  <2>2. CASE ~UnregisterHeartbeat(c)
    <3>1. bus' = bus
      BY <2>2 DEF OfflineStep, OfflineRead, OfflineLogout, OfflineStatus, UnregisterPresence,
         UnregisterClose, UnregisterHeartbeat
    <3> QED
      BY <1>6, <3>1
  <2> QED
    BY <2>1, <2>2
<1>7. ASSUME bus[NodeOf[c]] = c, hs[c] \in {"presence", "close"}, open'[c]
      PROVE  bus'[NodeOf[c]] = c /\ hs'[c] \in {"presence", "close"}
  <2>1. UnregisterPresence(c)
    <3>1. UnregisterPresence(c) \/ UnregisterClose(c)
      BY <1>7 DEF OfflineStep, OfflineRead, OfflineLogout, OfflineStatus, UnregisterHeartbeat
    <3>2. ~UnregisterClose(c)
      BY <1>1, <1>7 DEF TypeOK, UnregisterClose
    <3> QED
      BY <3>1, <3>2
  <2>2. cause[c] = "timeout"
    <3>1. cause[c] \in {"close", "timeout"}
      BY <1>1, <1>7 DEF TypeOK, Causes, BusSound
    <3>2. open[c]
      BY <1>3, <1>7
    <3> QED
      BY <1>1, <1>7, <3>1, <3>2 DEF CloseSound
  <2> QED
    BY <1>1, <1>7, <2>1, <2>2 DEF TypeOK, UnregisterPresence
<1> QED
  BY <1>2, <1>3, <1>4, <1>5, <1>6, <1>7, OneUndisturbed

(* Shutdown, but for the clearing of the registry.                         *)
LEMMA ShutdownKeepsOne ==
  ASSUME OneInv, IInv', NEW n \in Nodes,
         ShutdownUnsubscribe(n) \/ ShutdownSnapshot(n) \/ ShutdownClose(n)
  PROVE  OneInv'
<1>1. UNCHANGED <<sid, reg, old, pc, bus, hs>>
  BY DEF ShutdownUnsubscribe, ShutdownSnapshot, ShutdownClose, handlerVars
<1>2. \A d \in Conns : open'[d] => open[d]
  BY DEF ShutdownUnsubscribe, ShutdownSnapshot, ShutdownClose
<1>3. \A d \in Conns : Up(NodeOf[d])' => Up(NodeOf[d])
  BY ConstantsAssumption DEF OneInv, IInv, TypeOK, Up, ShutdownUnsubscribe,
     ShutdownSnapshot, ShutdownClose
<1> QED
  BY <1>1, <1>2, <1>3, OneUndisturbed

(* A connection is accepted: it serves nobody yet.                         *)
LEMMA AcceptKeepsOne ==
  ASSUME OneInv, IInv', NEW c \in Conns, AcceptConnect(c)
  PROVE  OneInv'
<1>1. TypeOK
  BY DEF OneInv, IInv
<1>2. /\ pc'[c] = "auth" /\ UNCHANGED <<reg, old, bus, hs, sd>>
      /\ \A d \in Conns \ {c} : pc'[d] = pc[d] /\ sid'[d] = sid[d] /\ open'[d] = open[d]
  BY <1>1 DEF TypeOK, AcceptConnect, handlerVars, shutVars
<1>3. \A d \in Conns \ {c} : UidOf(d)' = UidOf(d) /\ Registered(d)' = Registered(d)
                             /\ (Up(NodeOf[d])' <=> Up(NodeOf[d]))
  BY <1>2 DEF UidOf, Registered, Up
<1>4. pc'[c] \notin Handshaking \cup ReplaceStages \cup {"prewrite", "register"} \cup Serving
  BY <1>2 DEF Handshaking, HandshakeStages, ReplaceStages, Serving
<1>5. OneHandshake'
  BY <1>2, <1>3, <1>4 DEF OneInv, OneHandshake
<1>6. NothingNewer' /\ OpenIsRegistered'
  BY <1>2, <1>3, <1>4 DEF OneInv, NothingNewer, OpenIsRegistered
<1> QED
  BY <1>5, <1>6 DEF OneInv

(* A handshake begins when no other one of the user runs on the node.      *)
LEMMA AuthenticateKeepsOne ==
  ASSUME MaxHandshakes = 1,
         OneInv, IInv', NEW c \in Conns, NEW s \in Sids, Authenticate(c, s)
  PROVE  OneInv'
<1>1. TypeOK
  BY DEF OneInv, IInv
<1>2. /\ pc[c] = "auth" /\ pc'[c] = "snap" /\ sid'[c] = s
      /\ UNCHANGED <<open, reg, old, bus, hs, sd>>
      /\ \A d \in Conns \ {c} : pc'[d] = pc[d] /\ sid'[d] = sid[d]
  BY <1>1 DEF TypeOK, Authenticate, handlerVars, shutVars
<1>3. /\ UidOf(c)' = Owner[s]
      /\ \A d \in Conns \ {c} : UidOf(d)' = UidOf(d) /\ Registered(d)' = Registered(d)
                                /\ (Up(NodeOf[d])' <=> Up(NodeOf[d]))
  BY <1>2 DEF UidOf, Registered, Up
<1>4. InHandshake(NodeOf[c], Owner[s]) = {}
  <2> DEFINE S == InHandshake(NodeOf[c], Owner[s])
  <2>1. IsFiniteSet(S)
    BY ConstantsAssumption, FS_Subset DEF InHandshake
  <2>2. Cardinality(S) \in Nat /\ Cardinality(S) < 1
    BY <2>1, FS_CardinalityType DEF Authenticate
  <2> HIDE DEF S
  <2>3. Cardinality(S) = 0
    BY <2>2
  <2>4. S = {}
    BY <2>1, <2>3, FS_EmptySet
  <2> QED
    BY <2>4 DEF S
<1>5. OneHandshake'
  <2>1. ASSUME NEW d \in Conns \ {c}, pc[d] \in Handshaking, NodeOf[d] = NodeOf[c]
        PROVE  UidOf(d) # Owner[s]
    BY <1>4, <2>1 DEF InHandshake, Handshaking
  <2> QED
    BY <1>2, <1>3, <2>1 DEF OneInv, OneHandshake
<1>6. NothingNewer' /\ OpenIsRegistered'
  BY <1>2, <1>3 DEF OneInv, NothingNewer, OpenIsRegistered, ReplaceStages, Serving
<1> QED
  BY <1>5, <1>6 DEF OneInv

(* snapshotForReplace takes what is registered, or finds nobody.           *)
LEMMA SnapshotKeepsOne ==
  ASSUME OneInv, IInv', NEW c \in Conns, SnapshotForReplace(c)
  PROVE  OneInv'
<1>1. TypeOK
  BY DEF OneInv, IInv
<1>2. /\ pc[c] = "snap" /\ pc'[c] \in {"prewrite", "logoutOld"}
      /\ pc'[c] = "prewrite" => Registered(c) = None
      /\ old'[c] = Registered(c)
      /\ UNCHANGED <<open, sid, reg, bus, hs, sd>>
      /\ \A d \in Conns \ {c} : pc'[d] = pc[d] /\ old'[d] = old[d]
  BY <1>1 DEF TypeOK, SnapshotForReplace, Registered, handlerVars, shutVars
<1>3. \A d \in Conns : /\ UidOf(d)' = UidOf(d) /\ Registered(d)' = Registered(d)
                       /\ Up(NodeOf[d])' <=> Up(NodeOf[d])
  BY <1>2 DEF UidOf, Registered, Up
<1>4. OneHandshake'
  BY <1>2, <1>3 DEF OneInv, OneHandshake, Handshaking, HandshakeStages
<1>5. NothingNewer'
  BY <1>2, <1>3 DEF OneInv, NothingNewer, ReplaceStages
<1>6. OpenIsRegistered'
  BY <1>2, <1>3 DEF OneInv, OpenIsRegistered, Serving
<1> QED
  BY <1>4, <1>5, <1>6 DEF OneInv

(* Entries that go are None or were a closed connection's, or a handler's.  *)
LEMMA RemovalKeepsOne ==
  ASSUME OneInv, IInv', NEW c \in Conns, RemoveReplaced(c)
  PROVE  OneInv'
<1> DEFINE m == NodeOf[c]
           u == UidOf(old[c])
<1>1. TypeOK /\ NodeOf[c] \in Nodes /\ None \notin Conns
  BY ConstantsAssumption DEF OneInv, IInv
<1>2. /\ old[c] \in Conns /\ u \in Uids /\ u = UidOf(c) /\ ~open[old[c]]
      /\ NodeOf[old[c]] = m /\ pc[c] = "removeOld"
  BY ConnFacts DEF OneInv, IInv, RemoveReplaced, ReplaceStages, ReplacementSound
<1>3. /\ reg' = RemoveIfMatch(m, u, sid[old[c]], old[c])
      /\ pc'[c] \in {"presenceOld", "prewrite"}
      /\ pc'[c] = "prewrite" => ~isCurrentConn(m, u, sid[old[c]], old[c])
      /\ pc'[c] = "presenceOld" => old'[c] = old[c]
      /\ UNCHANGED <<open, sid, bus, hs, sd>>
      /\ \A d \in Conns \ {c} : pc'[d] = pc[d] /\ old'[d] = old[d]
  BY <1>1 DEF TypeOK, RemoveReplaced, handlerVars, shutVars
<1>4. \A d \in Conns : UidOf(d)' = UidOf(d) /\ (Up(NodeOf[d])' <=> Up(NodeOf[d]))
  BY <1>3 DEF UidOf, Up
<1>5. ASSUME NEW d \in Conns, sid[d] # None
      PROVE  /\ Registered(d)' = Registered(d) \/ Registered(d)' = None
             /\ Registered(d)' # Registered(d) => ~open[Registered(d)]
  <2>1. UidOf(d) \in Uids /\ NodeOf[d] \in Nodes /\ Registered(d)' = reg'[NodeOf[d]][UidOf(d)]
    BY <1>4, <1>5, ConnFacts DEF OneInv, Registered
  <2> QED
    BY <1>1, <1>2, <1>3, <2>1, RemoveIfMatchEffect DEF Registered, isCurrentConn
<1>6. Registered(c)' = None
  <2>1. Registered(c) \in {None, old[c]}
    BY <1>2 DEF OneInv, NothingNewer, ReplaceStages
  <2>2. Registered(c)' = reg'[m][u]
    BY <1>2, <1>4 DEF Registered
  <2> QED
    BY <1>1, <1>2, <1>3, <2>1, <2>2, RemoveIfMatchEffect DEF Registered, isCurrentConn
<1> HIDE DEF m, u
<1>7. \A d \in Conns : pc[d] \in Handshaking \cup Serving => sid[d] # None
  BY DEF OneInv, IInv, SidSet, Handshaking, HandshakeStages, Serving
<1>8. OneHandshake'
  BY <1>2, <1>3, <1>4 DEF OneInv, OneHandshake, Handshaking, HandshakeStages
<1>9. NothingNewer'
  <2>1. ASSUME NEW d \in Conns \ {c}, pc[d] \in ReplaceStages \cup {"prewrite", "register"}
        PROVE  Registered(d)' \in {Registered(d), None}
    <3>1. sid[d] # None
      BY <1>7, <2>1 DEF Handshaking, HandshakeStages, ReplaceStages
    <3> QED
      BY <1>5, <3>1
  <2> QED
    BY <1>3, <1>6, <2>1 DEF OneInv, NothingNewer
<1>10. OpenIsRegistered'
  <2>1. ASSUME NEW d \in Conns, pc[d] \in Serving, open[d], Registered(d) = d
        PROVE  Registered(d)' = d
    BY <1>5, <1>7, <2>1
  <2>2. \A d \in Conns : pc'[d] \in Serving => pc[d] \in Serving
    BY <1>3 DEF Serving
  <2> QED
    BY <1>3, <1>4, <2>1, <2>2 DEF OneInv, OpenIsRegistered
<1> QED
  BY <1>8, <1>9, <1>10 DEF OneInv

(* registerLiveClient takes a free place.                                  *)
LEMMA RegisterKeepsOne ==
  ASSUME OneInv, IInv', NEW c \in Conns, Register(c)
  PROVE  OneInv'
<1>1. /\ TypeOK /\ NodeOf[c] \in Nodes /\ UidOf(c) \in Uids /\ c # None
      /\ \A d \in Conns : NodeOf[d] \in Nodes /\ (sid[d] # None => UidOf(d) \in Uids)
  BY ConnFacts, ConstantsAssumption DEF OneInv, IInv, Register
<1>2. /\ pc[c] = "register" /\ pc'[c] = "presence"
      /\ reg' = [reg EXCEPT ![NodeOf[c]][UidOf(c)] = c]
      /\ UNCHANGED <<open, sid, old, bus, hs, sd>>
      /\ \A d \in Conns \ {c} : pc'[d] = pc[d]
  BY <1>1 DEF TypeOK, Register, handlerVars, shutVars
<1>3. \A d \in Conns : UidOf(d)' = UidOf(d) /\ (Up(NodeOf[d])' <=> Up(NodeOf[d]))
  BY <1>2 DEF UidOf, Up
<1>4. Registered(c)' = c /\ Registered(c) = None
  BY <1>1, <1>2, <1>3 DEF TypeOK, Registered, OneInv, NothingNewer
<1>5. ASSUME NEW d \in Conns, sid[d] # None, NodeOf[d] # NodeOf[c] \/ UidOf(d) # UidOf(c)
      PROVE  Registered(d)' = Registered(d)
  BY <1>1, <1>2, <1>3, <1>5 DEF TypeOK, Registered
<1>6. \A d \in Conns : pc[d] \in Handshaking \cup Serving => sid[d] # None
  BY DEF OneInv, IInv, SidSet, Handshaking, HandshakeStages, Serving
<1>7. OneHandshake'
  BY <1>2, <1>3 DEF OneInv, OneHandshake, Handshaking, HandshakeStages
<1>8. NothingNewer'
  <2>1. ASSUME NEW d \in Conns \ {c}, pc[d] \in ReplaceStages \cup {"prewrite", "register"}
        PROVE  Registered(d)' = Registered(d)
    <3>1. pc[d] \in Handshaking /\ pc[c] \in Handshaking
      BY <1>2, <2>1 DEF Handshaking, HandshakeStages, ReplaceStages
    <3>2. NodeOf[d] # NodeOf[c] \/ UidOf(d) # UidOf(c)
      BY <3>1 DEF OneInv, OneHandshake
    <3> QED
      BY <1>5, <1>6, <3>1, <3>2
  <2>2. pc'[c] \notin ReplaceStages \cup {"prewrite", "register"}
    BY <1>2 DEF ReplaceStages
  <2> QED
    BY <1>2, <2>1, <2>2 DEF OneInv, NothingNewer
<1>9. OpenIsRegistered'
  <2>1. ASSUME NEW d \in Conns \ {c}, pc[d] \in Serving, Registered(d) = d
        PROVE  Registered(d)' = d
    <3>1. NodeOf[d] # NodeOf[c] \/ UidOf(d) # UidOf(c)
      BY <1>4, <2>1, ConstantsAssumption DEF Registered
    <3> QED
      BY <1>5, <1>6, <2>1, <3>1
  <2> QED
    BY <1>2, <1>3, <1>4, <2>1 DEF OneInv, OpenIsRegistered
<1> QED
  BY <1>7, <1>8, <1>9 DEF OneInv

(* The offline handler removes its own connection and closes it next.      *)
LEMMA UnregisterKeepsOne ==
  ASSUME OneInv, IInv', NEW c \in Conns, UnregisterRemove(c)
  PROVE  OneInv'
<1> DEFINE m == NodeOf[c]
           u == UidOf(c)
           hit == isCurrentConn(m, u, sid[c], c)
<1>1. /\ TypeOK /\ m \in Nodes /\ u \in Uids /\ None \notin Conns
  BY ConnFacts, ConstantsAssumption DEF OneInv, IInv, UnregisterRemove
<1>2. /\ hs[c] = "remove" /\ bus[m] = c
      /\ reg' = RemoveIfMatch(m, u, sid[c], c)
      /\ hit => hs'[c] = "presence" /\ bus' = bus
      /\ ~hit => bus' = [bus EXCEPT ![m] = None]
      /\ UNCHANGED <<pc, open, sid, old, sd>>
      /\ \A d \in Conns \ {c} : hs'[d] = hs[d]
  <2>1. hs[c] = "remove" /\ hs \in [Conns -> HsStages] /\ bus \in [Nodes -> Conns \cup {None}]
    BY <1>1 DEF TypeOK, UnregisterRemove
  <2>2. bus[m] = c
    BY <2>1 DEF OneInv, IInv, BusSound
  <2>3. /\ hs' = [hs EXCEPT ![c] = IF hit THEN "presence" ELSE "idle"]
        /\ bus' = [bus EXCEPT ![m] = IF hit THEN @ ELSE None]
        /\ reg' = RemoveIfMatch(m, u, sid[c], c)
        /\ UNCHANGED <<pc, open, sid, old, sd>>
    BY DEF UnregisterRemove, shutVars
  <2> HIDE DEF hit, u
  <2>4. hit => bus' = bus
    BY <1>1, <2>1, <2>3
  <2> QED
    BY <2>1, <2>2, <2>3, <2>4
<1>3. \A d \in Conns : UidOf(d)' = UidOf(d) /\ (Up(NodeOf[d])' <=> Up(NodeOf[d]))
  BY <1>2 DEF UidOf, Up
<1>4. ASSUME NEW d \in Conns, sid[d] # None
      PROVE  \/ Registered(d)' = Registered(d)
             \/ hit /\ Registered(d)' = None /\ Registered(d) = c
  <2>1. UidOf(d) \in Uids /\ NodeOf[d] \in Nodes /\ Registered(d)' = reg'[NodeOf[d]][UidOf(d)]
    BY <1>3, <1>4, ConnFacts DEF OneInv, Registered
  <2> QED
    BY <1>1, <1>2, <2>1, RemoveIfMatchEffect DEF Registered, isCurrentConn
<1>5. \A d \in Conns : pc[d] \in Handshaking \cup Serving => sid[d] # None
  BY DEF OneInv, IInv, SidSet, Handshaking, HandshakeStages, Serving
<1>6. hit <=> Registered(c) = c
  BY DEF Registered, isCurrentConn
<1> HIDE DEF hit, u
<1>7. OneHandshake'
  BY <1>2, <1>3 DEF OneInv, OneHandshake
<1>8. NothingNewer'
  <2>1. ASSUME NEW d \in Conns, pc[d] \in ReplaceStages \cup {"prewrite", "register"}
        PROVE  Registered(d)' \in {Registered(d), None}
    <3>1. sid[d] # None
      BY <1>5, <2>1 DEF Handshaking, HandshakeStages, ReplaceStages
    <3> QED
      BY <1>4, <3>1
  <2> QED
    BY <1>2, <2>1 DEF OneInv, NothingNewer
<1>9. OpenIsRegistered'
  <2> SUFFICES ASSUME NEW d \in Conns, pc[d] \in Serving, open[d], Up(NodeOf[d])
               PROVE  \/ Registered(d)' = d
                      \/ bus'[NodeOf[d]] = d /\ hs'[d] \in {"presence", "close"}
    BY <1>2, <1>3 DEF OpenIsRegistered
  <2>1. \/ Registered(d) = d
        \/ bus[NodeOf[d]] = d /\ hs[d] \in {"presence", "close"}
    BY DEF OneInv, OpenIsRegistered
  <2>2. Registered(d)' = Registered(d) \/ (hit /\ Registered(d) = c)
    BY <1>4, <1>5
  <2>3. CASE d = c
    BY <1>2, <1>6, <2>1, <2>2, <2>3
  <2>4. CASE d # c
    <3>1. bus[NodeOf[d]] = d => NodeOf[d] # m /\ NodeOf[d] \in Nodes
      BY <1>2, <2>4, ConstantsAssumption
    <3>2. bus[NodeOf[d]] = d => bus'[NodeOf[d]] = d
      BY <1>1, <1>2, <3>1 DEF TypeOK
    <3> QED
      BY <1>2, <2>1, <2>2, <2>4, <3>2
  <2> QED
    BY <2>3, <2>4
<1> QED
  BY <1>7, <1>8, <1>9 DEF OneInv

(* Shutdown clears the registry of a node that is not up any more.         *)
LEMMA ClearKeepsOne ==
  ASSUME OneInv, IInv', NEW n \in Nodes, ShutdownClear(n)
  PROVE  OneInv'
<1>1. /\ TypeOK /\ SnapshotSound
      /\ \A d \in Conns : NodeOf[d] \in Nodes /\ (sid[d] # None => UidOf(d) \in Uids)
  BY ConnFacts, ConstantsAssumption DEF OneInv, IInv
<1>2. /\ sd[n] = "snapped" /\ sd' = [sd EXCEPT ![n] = "cleared"]
      /\ reg' = [reg EXCEPT ![n] = [v \in Uids |-> None]]
      /\ \A d \in Conns \ snap[n] : hs'[d] = hs[d]
      /\ UNCHANGED <<pc, open, sid, old, bus>>
  BY DEF ShutdownClear
<1>3. \A d \in Conns : UidOf(d)' = UidOf(d)
  BY <1>2 DEF UidOf
<1>4. \A d \in Conns : sid[d] # None =>
        Registered(d)' = IF NodeOf[d] = n THEN None ELSE Registered(d)
  BY <1>1, <1>2, <1>3 DEF TypeOK, Registered
<1>5. \A d \in Conns : Up(NodeOf[d])' => NodeOf[d] # n /\ Up(NodeOf[d]) /\ hs'[d] = hs[d]
  BY <1>1, <1>2 DEF TypeOK, Up, SnapshotSound
<1>6. \A d \in Conns : pc[d] \in Handshaking \cup Serving => sid[d] # None
  BY DEF OneInv, IInv, SidSet, Handshaking, HandshakeStages, Serving
<1>7. OneHandshake'
  BY <1>2, <1>3 DEF OneInv, OneHandshake
<1>8. NothingNewer'
  <2>1. ASSUME NEW d \in Conns, pc[d] \in ReplaceStages \cup {"prewrite", "register"}
        PROVE  Registered(d)' \in {Registered(d), None}
    <3>1. sid[d] # None
      BY <1>6, <2>1 DEF Handshaking, HandshakeStages, ReplaceStages
    <3> QED
      BY <1>4, <3>1
  <2> QED
    BY <1>2, <2>1 DEF OneInv, NothingNewer
<1>9. OpenIsRegistered'
  BY <1>2, <1>4, <1>5, <1>6 DEF OneInv, OpenIsRegistered
<1> QED
  BY <1>7, <1>8, <1>9 DEF OneInv

(* A new process has no connections.                                       *)
LEMMA FreshKeepsOne ==
  ASSUME OneInv, IInv', NEW n \in Nodes, FreshProcess(n)
  PROVE  OneInv'
<1>1. /\ TypeOK
      /\ \A d \in Conns : NodeOf[d] \in Nodes
  BY ConstantsAssumption DEF OneInv, IInv
<1>2. ASSUME NEW d \in Conns, NodeOf[d] = n
      PROVE  pc'[d] = "idle"
  BY <1>2 DEF FreshProcess
<1>3. ASSUME NEW d \in Conns, NodeOf[d] # n
      PROVE  /\ pc'[d] = pc[d] /\ sid'[d] = sid[d] /\ old'[d] = old[d] /\ hs'[d] = hs[d]
             /\ open'[d] => open[d]
             /\ bus'[NodeOf[d]] = bus[NodeOf[d]]
             /\ UidOf(d)' = UidOf(d) /\ Registered(d)' = Registered(d)
             /\ Up(NodeOf[d])' <=> Up(NodeOf[d])
  <2>1. /\ pc'[d] = pc[d] /\ sid'[d] = sid[d] /\ old'[d] = old[d] /\ hs'[d] = hs[d]
        /\ open'[d] => open[d]
    BY <1>3 DEF FreshProcess
  <2>2. /\ reg'[NodeOf[d]] = reg[NodeOf[d]] /\ sd'[NodeOf[d]] = sd[NodeOf[d]]
        /\ bus'[NodeOf[d]] = bus[NodeOf[d]]
    BY <1>1, <1>3 DEF TypeOK, FreshProcess
  <2> QED
    BY <2>1, <2>2 DEF UidOf, Registered, Up
<1>4. "idle" \notin Handshaking \cup ReplaceStages \cup {"prewrite", "register"} \cup Serving
  BY DEF Handshaking, HandshakeStages, ReplaceStages, Serving
<1>5. OneHandshake'
  BY <1>2, <1>3, <1>4 DEF OneInv, OneHandshake
<1>6. NothingNewer'
  BY <1>2, <1>3, <1>4 DEF OneInv, NothingNewer
<1>7. OpenIsRegistered'
  BY <1>2, <1>3, <1>4 DEF OneInv, OpenIsRegistered
<1> QED
  BY <1>5, <1>6, <1>7 DEF OneInv

LEMMA NextKeepsOne ==
  ASSUME MaxHandshakes = 1, OneInv, [Next]_vars
  PROVE  OneInv'
<1>1. IInv'
  BY NextKeeps DEF OneInv
<1>2. CASE UNCHANGED vars
  BY <1>1, <1>2 DEF vars, handlerVars, shutVars, OneInv, OneHandshake, NothingNewer,
     OpenIsRegistered, Registered, UidOf, Up
<1>3. ASSUME NEW c \in Conns, ConnectStep(c)
      PROVE  OneInv'
  BY <1>1, <1>3, HandshakeKeepsOne, AuthenticateKeepsOne, SnapshotKeepsOne,
     RemovalKeepsOne, RegisterKeepsOne DEF ConnectStep
<1>4. ASSUME NEW c \in Conns, OfflineStep(c)
      PROVE  OneInv'
  BY <1>1, <1>4, OfflineKeepsOne, UnregisterKeepsOne
<1>5. ASSUME NEW c \in Conns,
             \/ AcceptConnect(c) \/ OnlineStep(c) \/ ConnLost(c) \/ HeartbeatReceived(c)
             \/ onHeartbeatUpdate(c) \/ onClientClose(c)
      PROVE  OneInv'
  BY <1>1, <1>5, AcceptKeepsOne, OutsideKeepsOne, EventKeepsOne
<1>6. ASSUME NEW n \in Nodes, NEW k \in Conns \X Sids,
             checkTimeouts(n, k) \/ onClientTimeout(n, k)
      PROVE  OneInv'
  <2>1. PICK c \in Conns, s \in Sids : k = <<c, s>>
    OBVIOUS
  <2>2. CASE checkTimeouts(n, k)
    BY <1>1, <2>1, <2>2, OutsideKeepsOne
  <2>3. CASE onClientTimeout(n, k)
    BY <1>1, <2>1, <2>3, EventKeepsOne
  <2> QED
    BY <1>6, <2>2, <2>3
<1>7. ASSUME NEW n \in Nodes,
             ShutdownUnsubscribe(n) \/ ShutdownStep(n) \/ CrashAndRestart(n)
      PROVE  OneInv'
  BY <1>1, <1>7, ShutdownKeepsOne, ClearKeepsOne, FreshKeepsOne
     DEF ShutdownStep, ExitAndRestart, CrashAndRestart
<1>8. ASSUME \/ \E u \in Uids : PresenceExpires(u)
             \/ \E s \in Sids : CreateUserSession(s)
      PROVE  OneInv'
  <2>1. UNCHANGED <<pc, sid, open, old, hs, reg, bus, sd>>
    BY <1>8 DEF PresenceExpires, CreateUserSession, handlerVars, shutVars
  <2> QED
    BY <1>1, <2>1 DEF OneInv, OneHandshake, NothingNewer, OpenIsRegistered, Registered,
       UidOf, Up
<1> QED
  BY <1>2, <1>3, <1>4, <1>5, <1>6, <1>7, <1>8 DEF Next

(* "one active QUIC connection per user" (clientRegistry): when handshakes of
   a user do not overlap on a node, two started connections of a user are never
   open together there, but for one a timeout handler is about to close. *)
THEOREM OneLiveConnectionHolds ==
  ASSUME MaxHandshakes = 1
  PROVE  Spec => []OneLiveConnection
<1>1. Init => OneInv
  <2>1. ASSUME Init
        PROVE  /\ \A c \in Conns : pc[c] \notin Handshaking \cup ReplaceStages
               /\ \A c \in Conns : pc[c] \notin {"prewrite", "register"} \cup Serving
    BY <2>1 DEF Init, Handshaking, HandshakeStages, ReplaceStages, Serving
  <2> QED
    BY <2>1, InitIInv DEF OneInv, OneHandshake, NothingNewer, OpenIsRegistered
<1>2. OneInv /\ [Next]_vars => OneInv'
  BY NextKeepsOne
<1>3. OneInv => OneLiveConnection
  <2> SUFFICES ASSUME OneInv, NEW c \in Conns, NEW d \in Conns,
                      c # d, NodeOf[c] = NodeOf[d], Up(NodeOf[c]),
                      pc[c] = "live", open[c], pc[d] = "live", open[d],
                      bus[NodeOf[c]] \notin {c, d}, UidOf(c) = UidOf(d)
               PROVE  FALSE
    BY DEF OneLiveConnection
  <2>1. Registered(c) = c /\ Registered(d) = d
    BY DEF OneInv, OpenIsRegistered, Serving
  <2> QED
    BY <2>1 DEF Registered
<1> QED
  BY <1>1, <1>2, <1>3, PTL DEF Spec

=============================================================================
