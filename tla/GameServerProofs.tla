-------------------------- MODULE GameServerProofs --------------------------
(***************************************************************************)
(* The session table of the SOE layer is exact whatever clients, timeouts  *)
(* and late answers do; and as long as no character is zoned in while it   *)
(* is in the game, so are the registrations and the spatial index of the   *)
(* movement handler, for any number of clients, characters and cells; and  *)
(* as long as clients keep the order, each is served in its own name and   *)
(* leaves the world when it goes.                                          *)
(***************************************************************************)
EXTENDS OrderlyGame, SequenceTheorems, TLAPS

-----------------------------------------------------------------------------
(* SessionManager. *)

SessionInv == SessionsTypeOK /\ LiveIffMapped

\* The parts of the invariant, and that a Session has an address.
LEMMA MappedByAddress ==
  ASSUME SessionInv
  PROVE  /\ \A s \in SessionIds : Connected(s) <=> sessions[soe[s].address] = s
         /\ \A b \in Address : sessions[b] # None => soe[sessions[b]].address = b
         /\ \A s \in SessionIds : soe[s].address \in Address
<1>1. \A s \in SessionIds : soe[s] \in Session
  BY DEF SessionInv, SessionsTypeOK, SessionIds
<1>2. \A s \in SessionIds : soe[s].address \in Address
  BY <1>1 DEF Session
<1> QED
  BY <1>2 DEF SessionInv, LiveIffMapped

\* What a Session goes through when it is closed, if there is one.
LEMMA ClosedSessions ==
  ASSUME SessionInv, NEW r \in {None} \cup SessionIds
  PROVE  /\ Closed(r) \in Seq(Session)
         /\ Len(Closed(r)) = Len(soe)
         /\ \A s \in SessionIds :
              /\ Closed(r)[s].address = soe[s].address
              /\ Closed(r)[s].state = IF s = r THEN "Disconnected" ELSE soe[s].state
<1>1. soe \in Seq(Session)
  BY DEF SessionInv, SessionsTypeOK
<1>2. CASE r = None
  BY <1>1, <1>2 DEF Closed, SessionIds, None
<1>3. CASE r \in SessionIds
  <2> DEFINE e == [soe[r] EXCEPT !.state = "Disconnected"]
  <2>1. soe[r] \in Session
    BY <1>1, <1>3 DEF SessionIds
  <2>2. /\ e \in Session
        /\ e.address = soe[r].address /\ e.state = "Disconnected"
    BY <2>1 DEF Session
  <2>3. r # None
    BY <1>1, <1>3 DEF SessionIds, None
  <2>4. Closed(r) = [soe EXCEPT ![r] = e]
    BY <2>3 DEF Closed
  <2> HIDE DEF e
  <2> QED
    BY <1>1, <1>3, <2>2, <2>4, ExceptSeq DEF SessionIds
<1> QED
  BY <1>2, <1>3

\* A SessionRequest replaces the Session of its address by a new one.
LEMMA RequestStep ==
  ASSUME SessionInv, NEW a \in Address, ProcessSessionRequest(a)
  PROVE  /\ SessionInv'
         /\ Len(soe') = Len(soe) + 1
         /\ \A s \in SessionIds : soe'[s].address = soe[s].address
<1> DEFINE r == sessions[a]
           new == [address |-> a, state |-> "Connected"]
<1>1. /\ soe \in Seq(Session) /\ Len(soe) \in Nat
      /\ sessions \in [Address -> {0} \cup 1 .. Len(soe)]
  BY DEF SessionInv, SessionsTypeOK, SessionIds, None
<1>2. /\ Closed(r) \in Seq(Session) /\ Len(Closed(r)) = Len(soe)
      /\ \A s \in 1 .. Len(soe) :
           /\ Closed(r)[s].address = soe[s].address
           /\ Closed(r)[s].state = IF s = r THEN "Disconnected" ELSE soe[s].state
  BY <1>1, ClosedSessions DEF SessionIds, None
<1>3. /\ soe' = Append(Closed(r), new) /\ new \in Session
      /\ sessions' = [sessions EXCEPT ![a] = Len(soe) + 1]
  BY DEF ProcessSessionRequest, Session
<1>4. /\ soe' \in Seq(Session) /\ Len(soe') = Len(soe) + 1
      /\ soe'[Len(soe) + 1] = new
      /\ \A s \in 1 .. Len(soe) : soe'[s] = Closed(r)[s]
  BY <1>2, <1>3, AppendProperties
<1>5. SessionsTypeOK'
  BY <1>1, <1>3, <1>4 DEF SessionsTypeOK, SessionIds, None
<1>6. /\ \A s \in 1 .. Len(soe) : soe[s].state = "Connected" <=> sessions[soe[s].address] = s
      /\ \A b \in Address : sessions[b] # 0 => soe[sessions[b]].address = b
      /\ \A s \in 1 .. Len(soe) : soe[s].address \in Address
  BY MappedByAddress DEF SessionIds, Connected, None
<1>7. \A s \in 1 .. Len(soe) :
        soe'[s].state = "Connected" <=> sessions'[soe'[s].address] = s
  <2> SUFFICES ASSUME NEW s \in 1 .. Len(soe)
               PROVE  soe'[s].state = "Connected" <=> sessions'[soe'[s].address] = s
    OBVIOUS
  <2>1. /\ soe'[s].address = soe[s].address
        /\ soe'[s].state = IF s = r THEN "Disconnected" ELSE soe[s].state
        /\ s # Len(soe) + 1 /\ s # 0
    BY <1>1, <1>2, <1>4
  <2>2. CASE soe[s].address = a
    <3>1. sessions'[soe'[s].address] # s
      BY <2>1, <2>2, <1>1, <1>3
    <3>2. soe'[s].state # "Connected"
      BY <2>1, <2>2, <1>6
    <3> QED
      BY <3>1, <3>2
  <2>3. CASE soe[s].address # a
    <3>1. s # r
      BY <2>1, <2>3, <1>6
    <3>2. sessions'[soe'[s].address] = sessions[soe[s].address]
      BY <2>1, <2>3, <1>1, <1>3, <1>6
    <3> QED
      BY <3>1, <3>2, <2>1, <1>6
  <2> QED
    BY <2>2, <2>3
<1>8. soe'[Len(soe) + 1].address = a /\ soe'[Len(soe) + 1].state = "Connected"
      /\ sessions'[a] = Len(soe) + 1
  BY <1>1, <1>3, <1>4
<1>9. \A b \in Address : sessions'[b] # 0 => soe'[sessions'[b]].address = b
  <2> SUFFICES ASSUME NEW b \in Address, sessions'[b] # 0
               PROVE  soe'[sessions'[b]].address = b
    OBVIOUS
  <2>1. CASE b = a
    BY <2>1, <1>8
  <2>2. CASE b # a
    <3>1. sessions'[b] = sessions[b] /\ sessions[b] \in 1 .. Len(soe)
      BY <2>2, <1>1, <1>3
    <3> QED
      BY <3>1, <1>2, <1>4, <1>6
  <2> QED
    BY <2>1, <2>2
<1>10. LiveIffMapped'
  <2>1. SessionIds' = 1 .. Len(soe) \cup {Len(soe) + 1}
    BY <1>1, <1>4 DEF SessionIds
  <2> QED
    BY <2>1, <1>7, <1>8, <1>9 DEF LiveIffMapped, Connected, None
<1> QED
  BY <1>2, <1>4, <1>5, <1>10 DEF SessionInv, SessionIds

\* A connected Session ends: it leaves the table and no other does.
LEMMA RemoveStep ==
  ASSUME SessionInv, NEW r \in SessionIds, Connected(r), RemoveSession(r)
  PROVE  /\ SessionInv'
         /\ Len(soe') = Len(soe)
         /\ \A s \in SessionIds : soe'[s].address = soe[s].address
<1> DEFINE a == soe[r].address
<1>1. /\ soe \in Seq(Session) /\ Len(soe) \in Nat
      /\ sessions \in [Address -> {0} \cup 1 .. Len(soe)]
  BY DEF SessionInv, SessionsTypeOK, SessionIds, None
<1>2. /\ \A s \in 1 .. Len(soe) : soe[s].state = "Connected" <=> sessions[soe[s].address] = s
      /\ \A b \in Address : sessions[b] # 0 => soe[sessions[b]].address = b
      /\ \A s \in 1 .. Len(soe) : soe[s].address \in Address
  BY MappedByAddress DEF SessionIds, Connected, None
<1>3. r \in 1 .. Len(soe) /\ a \in Address /\ sessions[a] = r
  BY <1>2 DEF SessionIds, Connected
<1>4. soe' = Closed(r) /\ sessions' = [sessions EXCEPT ![a] = 0]
  BY <1>3 DEF RemoveSession, None
<1>5. /\ soe' \in Seq(Session) /\ Len(soe') = Len(soe)
      /\ \A s \in 1 .. Len(soe) :
           /\ soe'[s].address = soe[s].address
           /\ soe'[s].state = IF s = r THEN "Disconnected" ELSE soe[s].state
  BY <1>4, ClosedSessions DEF SessionIds
<1>6. SessionsTypeOK'
  BY <1>1, <1>4, <1>5 DEF SessionsTypeOK, SessionIds, None
<1>7. \A s \in 1 .. Len(soe) :
        soe'[s].state = "Connected" <=> sessions'[soe'[s].address] = s
  <2> SUFFICES ASSUME NEW s \in 1 .. Len(soe)
               PROVE  soe'[s].state = "Connected" <=> sessions'[soe'[s].address] = s
    OBVIOUS
  <2>1. CASE soe[s].address = a
    <3>1. s # 0 /\ (s = r <=> soe[s].state = "Connected")
      BY <2>1, <1>1, <1>2, <1>3
    <3> QED
      BY <3>1, <2>1, <1>1, <1>3, <1>4, <1>5
  <2>2. CASE soe[s].address # a
    BY <2>2, <1>1, <1>2, <1>3, <1>4, <1>5
  <2> QED
    BY <2>1, <2>2
<1>8. \A b \in Address : sessions'[b] # 0 =>
        sessions[b] \in 1 .. Len(soe) /\ sessions'[b] = sessions[b]
  BY <1>1, <1>4
<1>9. LiveIffMapped'
  <2>1. SessionIds' = 1 .. Len(soe)
    BY <1>5 DEF SessionIds
  <2>2. \A b \in Address : sessions'[b] # 0 => soe'[sessions'[b]].address = b
    BY <1>2, <1>5, <1>8
  <2> QED
    BY <2>1, <2>2, <1>7 DEF LiveIffMapped, Connected, None
<1> QED
  BY <1>5, <1>6, <1>9 DEF SessionInv, SessionIds

-----------------------------------------------------------------------------
(* The session table under the handlers of the server. *)

\* Every call in flight works on a Session that was made; so does every
\* authenticated client.
CallsTypeOK ==
  /\ extSessions \in [Address -> {None} \cup SessionIds]
  /\ op \in [Handler -> [pc : {"idle", "getSession", "findCharacter"},
                         session : {None} \cup SessionIds, character : Character]]
  /\ \A h \in Handler : op[h].pc # "idle" => op[h].session # None

TableInv == SessionInv /\ CallsTypeOK

\* Session objects are only added: what was well typed stays so.
LEMMA MoreSessions ==
  ASSUME Len(soe) \in Nat, Len(soe') \in Nat, Len(soe') >= Len(soe)
  PROVE  SessionIds \subseteq SessionIds'
BY DEF SessionIds

\* What leaves SessionManager alone leaves its invariant alone.
LEMMA SessionsUnchanged ==
  ASSUME UNCHANGED sessionVars
  PROVE  (SessionInv => SessionInv') /\ SessionIds' = SessionIds
BY DEF sessionVars, SessionInv, SessionsTypeOK, LiveIffMapped, SessionIds, Connected, Session

\* A Session that ends leaves the calls in flight as they are.
LEMMA EndSessionStep ==
  ASSUME TableInv, NEW s \in SessionIds, Connected(s), EndSession(s)
  PROVE  /\ SessionInv' /\ Len(soe') = Len(soe)
         /\ \A t \in SessionIds : soe'[t].address = soe[t].address
         /\ soe[s].address \in Address
         /\ extSessions' \in [Address -> {None} \cup SessionIds]
         /\ SessionIds' = SessionIds
<1>1. /\ SessionInv' /\ Len(soe') = Len(soe)
      /\ \A t \in SessionIds : soe'[t].address = soe[t].address
  BY RemoveStep DEF TableInv, EndSession
<1>2. soe[s].address \in Address
  BY MappedByAddress DEF TableInv
<1>3. extSessions' \in [Address -> {None} \cup SessionIds]
  BY <1>2 DEF EndSession, cleanupGameSession, TableInv, CallsTypeOK
<1> QED
  BY <1>1, <1>2, <1>3 DEF SessionIds

\* A call that returns is idle; the others are as they were.
LEMMA ReturnStep ==
  ASSUME CallsTypeOK, NEW h \in Handler, Return(h), GameServerAssumption,
         SessionIds' = SessionIds, extSessions' \in [Address -> {None} \cup SessionIds]
  PROVE  CallsTypeOK'
<1>1. /\ Idle \in [pc : {"idle", "getSession", "findCharacter"},
                   session : {None} \cup SessionIds, character : Character]
      /\ Idle.pc = "idle"
  BY DEF Idle, Call, GameServerAssumption
<1> QED
  BY <1>1 DEF CallsTypeOK, Return, None

\* disconnectSession on the Session of a call, whether it still lives or not.
LEMMA RejectStep ==
  ASSUME TableInv, NEW h \in Handler, op[h].pc # "idle", Reject(h)
  PROVE  TableInv'
<1> DEFINE s == op[h].session
<1>1. s \in SessionIds
  BY DEF TableInv, CallsTypeOK
<1>2. CASE Connected(s)
  <2>1. EndSession(s)
    BY <1>2 DEF Reject
  <2>2. SessionInv' /\ SessionIds' = SessionIds
        /\ extSessions' \in [Address -> {None} \cup SessionIds]
    BY <1>1, <1>2, <2>1, EndSessionStep
  <2>3. CallsTypeOK'
    BY <2>2, ReturnStep, GameServerAssumption DEF Reject, TableInv
  <2> QED
    BY <2>2, <2>3 DEF TableInv
<1>3. CASE ~Connected(s)
  <2>1. UNCHANGED <<sessionVars, extSessions>>
    BY <1>3 DEF Reject
  <2>2. SessionInv' /\ SessionIds' = SessionIds
    BY <2>1, SessionsUnchanged DEF TableInv
  <2>3. CallsTypeOK'
    BY <2>1, <2>2, ReturnStep, GameServerAssumption DEF Reject, TableInv, CallsTypeOK
  <2> QED
    BY <2>2, <2>3 DEF TableInv
<1> QED
  BY <1>2, <1>3

\* A step keeps the session table and the calls in order, whichever of the
\* environments is switched on.
LEMMA TableStep ==
  ASSUME TableInv, [Next]_vars
  PROVE  TableInv'
<1>1. SessionInv /\ CallsTypeOK /\ GameServerAssumption /\ Len(soe) \in Nat
  BY GameServerAssumption DEF TableInv, SessionInv, SessionsTypeOK
<1>2. \A a \in Address : Connect(a) => TableInv'
  <2> SUFFICES ASSUME NEW a \in Address, Connect(a) PROVE TableInv'
    OBVIOUS
  <2>1. SessionInv' /\ Len(soe') = Len(soe) + 1
    BY <1>1, RequestStep DEF Connect
  <2>2. SessionIds \subseteq SessionIds'
    BY <1>1, <2>1, MoreSessions
  <2>3. CallsTypeOK'
    BY <1>1, <2>2 DEF Connect, serverVars, CallsTypeOK
  <2> QED
    BY <2>1, <2>3 DEF TableInv
<1>3. \A s \in SessionIds : Disconnect(s) => TableInv'
  <2> SUFFICES ASSUME NEW s \in SessionIds, Disconnect(s) PROVE TableInv'
    OBVIOUS
  <2>1. SessionInv' /\ SessionIds' = SessionIds /\ op' = op
        /\ extSessions' \in [Address -> {None} \cup SessionIds]
    BY EndSessionStep DEF Disconnect
  <2> QED
    BY <1>1, <2>1 DEF TableInv, CallsTypeOK
<1>4. \A s \in SessionIds, x \in Cell : DataTransform(s, x) => TableInv'
  BY <1>1, SessionsUnchanged DEF DataTransform, serverVars, TableInv, CallsTypeOK
<1>5. \A s \in SessionIds, h \in Handler : ClientIdMsg(h, s) => TableInv'
  <2> SUFFICES ASSUME NEW s \in SessionIds, NEW h \in Handler, ClientIdMsg(h, s)
               PROVE  TableInv'
    OBVIOUS
  <2>1. SessionInv' /\ SessionIds' = SessionIds
    BY <1>1, SessionsUnchanged DEF ClientIdMsg
  <2>2. Idle.character \in Character
    BY <1>1 DEF Idle, Call, GameServerAssumption
  <2>3. s # None
    BY <1>1 DEF SessionIds, None
  <2>4. CallsTypeOK'
    BY <1>1, <2>1, <2>2, <2>3 DEF ClientIdMsg, Call, CallsTypeOK
  <2> QED
    BY <2>1, <2>4 DEF TableInv
<1>6. \A s \in SessionIds, h \in Handler, c \in Character :
        SelectCharacter(h, s, c) => TableInv'
  <2> SUFFICES ASSUME NEW s \in SessionIds, NEW h \in Handler, NEW c \in Character,
                      SelectCharacter(h, s, c)
               PROVE  TableInv'
    OBVIOUS
  <2>1. SessionInv' /\ SessionIds' = SessionIds
    BY <1>1, SessionsUnchanged DEF SelectCharacter
  <2>2. soe[s].address \in Address
    BY MappedByAddress DEF TableInv
  <2>3. CallsTypeOK'
    BY <1>1, <2>1, <2>2 DEF SelectCharacter, Call, CallsTypeOK
  <2> QED
    BY <2>1, <2>3 DEF TableInv
<1>7. \A h \in Handler : Authenticated(h) => TableInv'
  <2> SUFFICES ASSUME NEW h \in Handler, Authenticated(h) PROVE TableInv'
    OBVIOUS
  <2>1. SessionInv' /\ SessionIds' = SessionIds
    BY <1>1, SessionsUnchanged DEF Authenticated
  <2>2. op[h].session \in SessionIds
    BY <1>1 DEF Authenticated, CallsTypeOK
  <2>3. extSessions' \in [Address -> {None} \cup SessionIds]
    BY <1>1, <2>2 DEF Authenticated, CallsTypeOK
  <2> QED
    BY <1>1, <2>1, <2>3, ReturnStep DEF Authenticated, TableInv
<1>8. \A h \in Handler : InvalidToken(h) \/ CharacterNotFound(h) => TableInv'
  BY RejectStep DEF InvalidToken, CharacterNotFound
<1>9. \A h \in Handler, x \in Cell : ZoneIn(h, x) => TableInv'
  <2> SUFFICES ASSUME NEW h \in Handler, NEW x \in Cell, ZoneIn(h, x) PROVE TableInv'
    OBVIOUS
  <2>1. SessionInv' /\ SessionIds' = SessionIds /\ extSessions' = extSessions
    BY <1>1, SessionsUnchanged DEF ZoneIn
  <2> QED
    BY <1>1, <2>1, ReturnStep DEF ZoneIn, TableInv, CallsTypeOK
<1>10. \A a \in Address : ExitedZone(a) => TableInv'
  BY <1>1, SessionsUnchanged DEF ExitedZone, TableInv, CallsTypeOK
<1>11. CASE UNCHANGED vars
  BY <1>1, <1>11, SessionsUnchanged DEF vars, serverVars, TableInv, CallsTypeOK
<1> QED
  BY <1>2, <1>3, <1>4, <1>5, <1>6, <1>7, <1>8, <1>9, <1>10, <1>11 DEF Next

\* At the start there is no Session and no call.
LEMMA TableInit ==
  ASSUME Init
  PROVE  TableInv
<1>1. soe = <<>> /\ SessionIds = {}
  BY DEF Init, SessionsInit, SessionIds
<1>2. SessionInv
  BY <1>1 DEF Init, SessionsInit, SessionInv, SessionsTypeOK, LiveIffMapped
<1>3. Idle = [pc |-> "idle", session |-> None, character |-> Idle.character]
      /\ Idle.character \in Character
  BY GameServerAssumption DEF Idle, Call, GameServerAssumption
<1>4. CallsTypeOK
  BY <1>3 DEF Init, CallsTypeOK
<1> QED
  BY <1>2, <1>4 DEF TableInv

\* The table of SessionManager and the Session objects agree, in every
\* environment: also when Sessions are replaced, end while an answer is
\* awaited, or are given up twice.
THEOREM GameLiveIffMapped == Spec => []LiveIffMapped
<1>1. Init => TableInv
  BY TableInit
<1>2. TableInv /\ [Next]_vars => TableInv'
  BY TableStep
<1>3. TableInv => LiveIffMapped
  BY DEF TableInv, SessionInv
<1> QED
  BY <1>1, <1>2, <1>3, PTL DEF Spec

-----------------------------------------------------------------------------
(* MovementHandler. *)

\* A registered PlayerObject is one of the character it is registered as.
RegisteredOwn ==
  \A c \in Character : players[c] # NoPlayer => objects[players[c]].character = c

MapInv == MovementTypeOK /\ IndexExact /\ RegisteredOwn

\* A character that is not registered is put in, standing in one cell.
LEMMA RegisterStep ==
  ASSUME MapInv, NEW c \in Character, NEW x \in Cell, players[c] = NoPlayer,
         registerPlayer(c, x)
  PROVE  /\ MapInv'
         /\ Len(objects) \in Nat /\ Len(objects') = Len(objects) + 1
         /\ DOMAIN objects' = 1 .. Len(objects) + 1
         /\ \A o \in DOMAIN objects : objects'[o] = objects[o]
         /\ objects'[Len(objects) + 1].character = c
<1> DEFINE new == [character |-> c, cell |-> x]
           n == Len(objects) + 1
<1>1. /\ objects \in Seq(PlayerObject) /\ Len(objects) \in Nat
      /\ DOMAIN objects = 1 .. Len(objects)
      /\ players \in [Character -> {0} \cup 1 .. Len(objects)]
      /\ spatialIndex \in [Cell -> SUBSET Character]
  BY DEF MapInv, MovementTypeOK, NoPlayer
<1>2. /\ objects' = Append(objects, new) /\ new \in PlayerObject
      /\ players' = [players EXCEPT ![c] = n]
      /\ spatialIndex' = [spatialIndex EXCEPT ![x] = @ \cup {c}]
  BY DEF registerPlayer, addToSpatialIndex, PlayerObject
<1>3. /\ objects' \in Seq(PlayerObject) /\ Len(objects') = n
      /\ DOMAIN objects' = 1 .. n
      /\ objects'[n] = new
      /\ \A o \in 1 .. Len(objects) : objects'[o] = objects[o]
  BY <1>1, <1>2, AppendProperties
<1>4. MovementTypeOK'
  BY <1>1, <1>2, <1>3 DEF MovementTypeOK, NoPlayer
<1>5. \A d \in Character : d # c =>
        /\ players'[d] = players[d]
        /\ players[d] # 0 => objects'[players[d]] = objects[players[d]]
  BY <1>1, <1>2, <1>3
<1>6. players'[c] = n /\ n # 0
  BY <1>1, <1>2
<1>7. RegisteredOwn'
  <2> SUFFICES ASSUME NEW d \in Character, players'[d] # 0
               PROVE  objects'[players'[d]].character = d
    BY DEF RegisteredOwn, NoPlayer
  <2>1. CASE d = c
    BY <2>1, <1>3, <1>6
  <2>2. CASE d # c
    BY <2>2, <1>5 DEF MapInv, RegisteredOwn, NoPlayer
  <2> QED
    BY <2>1, <2>2
<1>8. IndexExact'
  <2> SUFFICES ASSUME NEW y \in Cell, NEW d \in Character
               PROVE  d \in spatialIndex'[y] <=>
                        players'[d] # 0 /\ objects'[players'[d]].cell = y
    BY <1>4 DEF IndexExact, MovementTypeOK, NoPlayer
  <2>1. d \in spatialIndex[y] <=> players[d] # 0 /\ objects[players[d]].cell = y
    BY DEF MapInv, IndexExact, NoPlayer
  <2>2. CASE d = c
    <3>1. d \in spatialIndex'[y] <=> y = x
      BY <2>1, <2>2, <1>1, <1>2 DEF NoPlayer
    <3>2. objects'[players'[d]].cell = x
      BY <2>2, <1>3, <1>6
    <3> QED
      BY <2>2, <3>1, <3>2, <1>6
  <2>3. CASE d # c
    <3>1. d \in spatialIndex'[y] <=> d \in spatialIndex[y]
      BY <2>3, <1>1, <1>2
    <3> QED
      BY <2>1, <2>3, <3>1, <1>5
  <2> QED
    BY <2>2, <2>3
<1> QED
  BY <1>1, <1>3, <1>4, <1>7, <1>8 DEF MapInv

\* Whatever character is taken out, the others stay where they are.
LEMMA UnregisterStep ==
  ASSUME MapInv, NEW c \in Character, unregisterPlayer(c)
  PROVE  MapInv' /\ objects' = objects
<1>1. /\ players \in [Character -> {NoPlayer} \cup DOMAIN objects]
      /\ spatialIndex \in [Cell -> SUBSET Character]
      /\ objects \in Seq(PlayerObject)
      /\ players' = [players EXCEPT ![c] = NoPlayer] /\ objects' = objects
  BY DEF MapInv, MovementTypeOK, unregisterPlayer
<1>2. RegisteredOwn'
  BY <1>1 DEF MapInv, RegisteredOwn
<1>3. /\ spatialIndex' \in [Cell -> SUBSET Character]
      /\ \A y \in Cell : spatialIndex'[y] = spatialIndex[y] \ {c}
  <2>1. CASE players[c] = NoPlayer
    BY <1>1, <2>1 DEF unregisterPlayer, MapInv, IndexExact
  <2>2. CASE players[c] # NoPlayer
    <3> DEFINE z == objects[players[c]].cell
    <3>1. spatialIndex' = [spatialIndex EXCEPT ![z] = @ \ {c}]
      BY <2>2 DEF unregisterPlayer, removeFromSpatialIndex
    <3>2. \A y \in Cell : c \in spatialIndex[y] => y = z
      BY <1>1 DEF MapInv, IndexExact
    <3> HIDE DEF z
    <3> QED
      BY <3>1, <3>2, <1>1
  <2> QED
    BY <2>1, <2>2
<1>4. IndexExact'
  BY <1>1, <1>3 DEF MapInv, IndexExact
<1> QED
  BY <1>1, <1>2, <1>3, <1>4 DEF MapInv, MovementTypeOK

\* A move of the PlayerObject that is registered.
LEMMA MoveStep ==
  ASSUME MapInv, NEW o \in DOMAIN objects, NEW x \in Cell,
         players[objects[o].character] = o, updatePlayerPosition(o, x)
  PROVE  /\ MapInv' /\ players' = players
         /\ DOMAIN objects' = DOMAIN objects
         /\ \A q \in DOMAIN objects : objects'[q].character = objects[q].character
<1> DEFINE c == objects[o].character
           from == objects[o].cell
           moved == [objects[o] EXCEPT !.cell = x]
<1>1. /\ objects \in Seq(PlayerObject) /\ DOMAIN objects = 1 .. Len(objects)
      /\ players \in [Character -> {NoPlayer} \cup DOMAIN objects]
      /\ spatialIndex \in [Cell -> SUBSET Character]
  BY DEF MapInv, MovementTypeOK
<1>2. objects[o] \in PlayerObject /\ c \in Character /\ from \in Cell
  <2>1. objects[o] \in PlayerObject
    BY <1>1
  <2> QED
    BY <2>1 DEF PlayerObject
<1>3. moved \in PlayerObject /\ moved.character = c /\ moved.cell = x
  BY <1>2 DEF PlayerObject
<1>4. /\ objects' = [objects EXCEPT ![o] = moved] /\ players' = players
      /\ spatialIndex' = IF x = from THEN spatialIndex
           ELSE [[spatialIndex EXCEPT ![from] = @ \ {c}] EXCEPT ![x] = @ \cup {c}]
  BY DEF updatePlayerPosition, addToSpatialIndex, removeFromSpatialIndex
<1>5. o # NoPlayer
  BY <1>1 DEF NoPlayer
<1>6. players[c] = o
  OBVIOUS
<1> HIDE DEF moved
<1>7. /\ objects' \in Seq(PlayerObject) /\ DOMAIN objects' = DOMAIN objects
      /\ objects'[o] = moved
      /\ \A q \in DOMAIN objects : q # o => objects'[q] = objects[q]
  BY <1>1, <1>3, <1>4, ExceptSeq
<1>8. \A q \in DOMAIN objects : objects'[q].character = objects[q].character
  BY <1>3, <1>7
<1>9. \A d \in Character : d # c => players[d] # o
  BY <1>1, <1>5 DEF MapInv, RegisteredOwn
<1>10. spatialIndex' \in [Cell -> SUBSET Character]
  BY <1>1, <1>2, <1>4
<1>11. RegisteredOwn'
  BY <1>1, <1>4, <1>8 DEF MapInv, RegisteredOwn
<1>12. IndexExact'
  <2> SUFFICES ASSUME NEW y \in Cell, NEW d \in Character
               PROVE  d \in spatialIndex'[y] <=>
                        players[d] # NoPlayer /\ objects'[players[d]].cell = y
    BY <1>4, <1>10 DEF IndexExact
  <2>1. d \in spatialIndex[y] <=> players[d] # NoPlayer /\ objects[players[d]].cell = y
    BY DEF MapInv, IndexExact
  <2>2. CASE d = c
    <3>1. d \in spatialIndex[y] <=> y = from
      BY <2>1, <2>2, <1>5, <1>6
    <3>2. d \in spatialIndex'[y] <=> y = x
      BY <2>2, <3>1, <1>1, <1>2, <1>4
    <3> QED
      BY <2>2, <3>2, <1>3, <1>5, <1>6, <1>7
  <2>3. CASE d # c
    <3>1. d \in spatialIndex'[y] <=> d \in spatialIndex[y]
      BY <2>3, <1>1, <1>2, <1>4
    <3>2. players[d] # NoPlayer => objects'[players[d]] = objects[players[d]]
      BY <2>3, <1>1, <1>7, <1>9
    <3> QED
      BY <2>1, <3>1, <3>2
  <2> QED
    BY <2>2, <2>3
<1> QED
  BY <1>4, <1>7, <1>8, <1>1, <1>10, <1>11, <1>12 DEF MapInv, MovementTypeOK

-----------------------------------------------------------------------------
(* Who is in the game, as long as no character is zoned in twice. *)

\* Two addresses do not play one PlayerObject: cleaning up after one of them
\* leaves the other alone.
OnePlayerEach ==
  \A a, b \in Address :
    InGame(a) /\ InGame(b) /\ gameSessions[a].player = gameSessions[b].player => a = b

\* A PlayerObject whose cleanup is under way is still registered, nobody else
\* plays it, nobody else cleans it up, and its address has no Session.
LeavingAlone ==
  \A a \in Address : leaving[a] # NoPlayer =>
    /\ players[objects[leaving[a]].character] = leaving[a]
    /\ sessions[a] = None
    /\ \A b \in Address : b # a =>
         /\ InGame(b) => gameSessions[b].player # leaving[a]
         /\ leaving[b] # leaving[a]

GamesTypeOK ==
  /\ gameSessions \in [Address -> {NoGame} \cup
                          [session : SessionIds, player : DOMAIN objects]]
  /\ leaving \in [Address -> {NoPlayer} \cup DOMAIN objects]

GamesInv == MapInv /\ GamesTypeOK /\ PlayingIsRegistered /\ OnePlayerEach /\ LeavingAlone

GameInv == TableInv /\ GamesInv

\* Who is in the game plays a PlayerObject of some character.
LEMMA InGamePlayer ==
  ASSUME GamesInv, NEW a \in Address, InGame(a)
  PROVE  /\ gameSessions[a].player \in DOMAIN objects
         /\ gameSessions[a].player # NoPlayer
         /\ objects[gameSessions[a].player].character \in Character
<1>1. gameSessions[a] \in [session : SessionIds, player : DOMAIN objects]
  BY DEF GamesInv, GamesTypeOK, InGame
<1>2. gameSessions[a].player \in DOMAIN objects
  BY <1>1
<1>3. objects[gameSessions[a].player] \in PlayerObject /\ gameSessions[a].player # NoPlayer
  BY <1>2 DEF GamesInv, MapInv, MovementTypeOK, NoPlayer
<1> QED
  BY <1>2, <1>3 DEF PlayerObject

\* So does who is leaving it.
LEMMA LeavingPlayer ==
  ASSUME GamesInv, NEW a \in Address, leaving[a] # NoPlayer
  PROVE  /\ leaving[a] \in DOMAIN objects
         /\ objects[leaving[a]].character \in Character
<1>1. leaving[a] \in DOMAIN objects
  BY DEF GamesInv, GamesTypeOK
<1>2. objects[leaving[a]] \in PlayerObject
  BY <1>1 DEF GamesInv, MapInv, MovementTypeOK
<1> QED
  BY <1>1, <1>2 DEF PlayerObject

\* What leaves the movement handler, the game sessions and the cleanups alone,
\* and binds no address that is being cleaned up, leaves the game alone.
LEMMA GamesUnchanged ==
  ASSUME GamesInv, UNCHANGED <<movementVars, gameSessions, leaving>>,
         SessionIds \subseteq SessionIds',
         \A a \in Address : leaving[a] # NoPlayer /\ sessions[a] = None => sessions'[a] = None
  PROVE  GamesInv'
<1>1. GamesTypeOK'
  BY DEF GamesInv, GamesTypeOK, movementVars
<1>2. MapInv' /\ PlayingIsRegistered' /\ OnePlayerEach'
  BY DEF GamesInv, movementVars, MapInv, MovementTypeOK, IndexExact, RegisteredOwn,
         PlayingIsRegistered, OnePlayerEach, InGame
<1>3. LeavingAlone'
  BY DEF GamesInv, movementVars, LeavingAlone, InGame
<1> QED
  BY <1>1, <1>2, <1>3 DEF GamesInv

\* A Session that ends starts the cleanup of its player, if it has one.
LEMMA CleanupStep ==
  ASSUME GameInv, NEW s \in SessionIds, Connected(s), EndSession(s)
  PROVE  GamesInv'
<1> DEFINE a == soe[s].address
           p == gameSessions[a].player
<1>1. /\ a \in Address /\ SessionIds' = SessionIds
      /\ cleanupGameSession(a) /\ UNCHANGED <<movementVars, gameSessions>>
  BY EndSessionStep DEF GameInv, EndSession
<1>2. /\ s # None /\ sessions[a] = s
      /\ sessions \in [Address -> {None} \cup SessionIds]
  BY MappedByAddress DEF GameInv, TableInv, SessionInv, SessionsTypeOK, SessionIds, None
<1>3. sessions' = [sessions EXCEPT ![a] = None]
  BY DEF EndSession, RemoveSession
<1>4. sessions'[a] = None /\ \A b \in Address : sessions[b] = None => sessions'[b] = None
  BY <1>1, <1>2, <1>3
<1>5. CASE ~InGame(a)
  BY <1>1, <1>4, <1>5, GamesUnchanged DEF cleanupGameSession, GameInv
<1>6. CASE InGame(a)
  <2>1. leaving' = [leaving EXCEPT ![a] = p]
    BY <1>1, <1>6 DEF cleanupGameSession
  <2>2. p \in DOMAIN objects /\ p # NoPlayer /\ players[objects[p].character] = p
    BY <1>1, <1>6, InGamePlayer DEF GameInv, GamesInv, PlayingIsRegistered
  <2>3. leaving[a] = NoPlayer
    BY <1>1, <1>2 DEF GameInv, GamesInv, LeavingAlone
  <2>4. GamesTypeOK'
    BY <1>1, <2>1, <2>2 DEF GameInv, GamesInv, GamesTypeOK, movementVars
  <2>5. MapInv' /\ PlayingIsRegistered' /\ OnePlayerEach'
    BY <1>1 DEF GameInv, GamesInv, movementVars, MapInv, MovementTypeOK, IndexExact,
                RegisteredOwn, PlayingIsRegistered, OnePlayerEach, InGame
  <2>6. /\ leaving'[a] = p
        /\ \A b \in Address : b # a => leaving'[b] = leaving[b]
    BY <1>1, <2>1 DEF GameInv, GamesInv, GamesTypeOK
  <2>7. \A b \in Address : b # a =>
          /\ InGame(b) => gameSessions[b].player # p
          /\ leaving[b] # p
    BY <1>1, <1>6, <2>2 DEF GameInv, GamesInv, OnePlayerEach, LeavingAlone
  <2>8. LeavingAlone'
    <3> SUFFICES ASSUME NEW b \in Address, leaving'[b] # NoPlayer
                 PROVE  /\ players[objects[leaving'[b]].character] = leaving'[b]
                        /\ sessions'[b] = None
                        /\ \A d \in Address : d # b =>
                             /\ InGame(d) => gameSessions[d].player # leaving'[b]
                             /\ leaving'[d] # leaving'[b]
      BY <1>1 DEF LeavingAlone, InGame, movementVars
    <3>1. CASE b = a
      BY <3>1, <1>4, <2>2, <2>6, <2>7
    <3>2. CASE b # a
      BY <3>2, <1>4, <2>6, <2>7 DEF GameInv, GamesInv, LeavingAlone
    <3> QED
      BY <3>1, <3>2
  <2> QED
    BY <2>4, <2>5, <2>8 DEF GamesInv
<1> QED
  BY <1>5, <1>6

\* The rest of a cleanup takes out the player it was started for, and no other.
LEMMA ExitedStep ==
  ASSUME GamesInv, NEW a \in Address, ExitedZone(a)
  PROVE  GamesInv'
<1> DEFINE p == leaving[a]
           c == objects[p].character
<1>1. /\ p # NoPlayer /\ c \in Character /\ p \in DOMAIN objects
      /\ players[c] = p
  BY LeavingPlayer DEF ExitedZone, GamesInv, LeavingAlone
<1>2. /\ unregisterPlayer(c) /\ gameSessions' = [gameSessions EXCEPT ![a] = NoGame]
      /\ leaving' = [leaving EXCEPT ![a] = NoPlayer]
      /\ SessionIds' = SessionIds /\ sessions' = sessions
  BY SessionsUnchanged DEF ExitedZone, sessionVars
<1>3. MapInv' /\ objects' = objects /\ players' = [players EXCEPT ![c] = NoPlayer]
  BY <1>1, <1>2, UnregisterStep DEF GamesInv, unregisterPlayer
<1>4. GamesTypeOK'
  BY <1>2, <1>3 DEF GamesInv, GamesTypeOK
<1>5. \A b \in Address :
        /\ InGame(b)' => b # a /\ InGame(b) /\ gameSessions'[b] = gameSessions[b]
        /\ leaving'[b] # NoPlayer => b # a /\ leaving[b] # NoPlayer /\ leaving'[b] = leaving[b]
  BY <1>2 DEF InGame, GamesInv, GamesTypeOK
<1>6. \A q \in DOMAIN objects : q # p /\ players[objects[q].character] = q =>
        players'[objects[q].character] = q
  <2> SUFFICES ASSUME NEW q \in DOMAIN objects, q # p, players[objects[q].character] = q
               PROVE  players'[objects[q].character] = q
    OBVIOUS
  <2>1. objects[q] \in PlayerObject
    BY DEF GamesInv, MapInv, MovementTypeOK
  <2>2. objects[q].character \in Character /\ objects[q].character # c
    BY <2>1, <1>1 DEF PlayerObject
  <2> QED
    BY <2>2, <1>3 DEF GamesInv, MapInv, MovementTypeOK
<1>7. PlayingIsRegistered'
  <2> SUFFICES ASSUME NEW b \in Address, InGame(b)'
               PROVE  players'[objects'[gameSessions'[b].player].character]
                        = gameSessions'[b].player
    BY DEF PlayingIsRegistered
  <2>1. b # a /\ InGame(b) /\ gameSessions'[b] = gameSessions[b]
    BY <1>5
  <2>2. gameSessions[b].player # p /\ gameSessions[b].player \in DOMAIN objects
    BY <1>1, <2>1, InGamePlayer DEF GamesInv, LeavingAlone
  <2> QED
    BY <1>3, <1>6, <2>1, <2>2 DEF GamesInv, PlayingIsRegistered
<1>8. OnePlayerEach'
  BY <1>5 DEF GamesInv, OnePlayerEach
<1>9. LeavingAlone'
  <2> SUFFICES ASSUME NEW b \in Address, leaving'[b] # NoPlayer
               PROVE  /\ players'[objects'[leaving'[b]].character] = leaving'[b]
                      /\ sessions'[b] = None
                      /\ \A d \in Address : d # b =>
                           /\ InGame(d)' => gameSessions'[d].player # leaving'[b]
                           /\ leaving'[d] # leaving'[b]
    BY DEF LeavingAlone
  <2>1. b # a /\ leaving[b] # NoPlayer /\ leaving'[b] = leaving[b] /\ leaving[b] \in DOMAIN objects
    BY <1>5, LeavingPlayer
  <2>2. leaving[b] # p
    BY <1>1, <2>1 DEF GamesInv, LeavingAlone
  <2>3. players'[objects'[leaving'[b]].character] = leaving'[b]
    BY <1>3, <1>6, <2>1, <2>2 DEF GamesInv, LeavingAlone
  <2>4. \A d \in Address : d # b =>
          /\ InGame(d)' => gameSessions'[d].player # leaving'[b]
          /\ leaving'[d] # leaving'[b]
    BY <1>5, <2>1 DEF GamesInv, LeavingAlone
  <2> QED
    BY <1>2, <2>1, <2>3, <2>4 DEF GamesInv, LeavingAlone
<1> QED
  BY <1>3, <1>4, <1>7, <1>8, <1>9 DEF GamesInv

\* A zone-in of a character that is not in the game.
LEMMA ZoneInStep ==
  ASSUME GameInv, NEW h \in Handler, NEW x \in Cell, ZoneIn(h, x), ~Relogin
  PROVE  GamesInv'
<1> DEFINE s == op[h].session
           c == op[h].character
           a == soe[s].address
           n == Len(objects) + 1
           game == [session |-> s, player |-> n]
<1>1. s \in SessionIds /\ c \in Character
  BY DEF ZoneIn, GameInv, TableInv, CallsTypeOK
<1>2. a \in Address
  BY <1>1, MappedByAddress DEF GameInv, TableInv
<1>3. /\ players[c] = NoPlayer /\ registerPlayer(c, x)
      /\ gameSessions' = [gameSessions EXCEPT ![a] = game]
      /\ SessionIds' = SessionIds /\ sessions' = sessions /\ leaving' = leaving
  BY SessionsUnchanged DEF ZoneIn, FirstLogin, sessionVars
<1>4. /\ MapInv' /\ Len(objects) \in Nat /\ DOMAIN objects' = 1 .. n
      /\ \A o \in DOMAIN objects : objects'[o] = objects[o]
      /\ objects'[n].character = c
  BY <1>1, <1>3, RegisterStep DEF GameInv, GamesInv
<1>5. /\ DOMAIN objects = 1 .. Len(objects) /\ n \notin DOMAIN objects
      /\ players' = [players EXCEPT ![c] = n]
      /\ players \in [Character -> {NoPlayer} \cup DOMAIN objects]
      /\ players'[c] = n
  BY <1>1, <1>3, <1>4 DEF registerPlayer, GameInv, GamesInv, MapInv, MovementTypeOK
<1>6. game \in [session : SessionIds, player : DOMAIN objects']
  BY <1>1, <1>4
<1>7. /\ gameSessions'[a] = game
      /\ \A b \in Address : b # a => gameSessions'[b] = gameSessions[b]
  BY <1>2, <1>3 DEF GameInv, GamesInv, GamesTypeOK
<1>8. GamesTypeOK'
  <2>1. DOMAIN objects \subseteq DOMAIN objects'
    BY <1>4, <1>5
  <2> QED
    BY <1>2, <1>3, <1>6, <2>1 DEF GameInv, GamesInv, GamesTypeOK
<1>9. \A b \in Address : b # a /\ InGame(b)' =>
        InGame(b) /\ gameSessions'[b].player \in DOMAIN objects
  BY <1>7, InGamePlayer DEF InGame, GameInv
<1>10. PlayingIsRegistered'
  <2> SUFFICES ASSUME NEW b \in Address, InGame(b)'
               PROVE  players'[objects'[gameSessions'[b].player].character]
                        = gameSessions'[b].player
    BY DEF PlayingIsRegistered
  <2>1. CASE b = a
    BY <2>1, <1>4, <1>5, <1>7
  <2>2. CASE b # a
    <3> DEFINE p == gameSessions[b].player
               d == objects[p].character
    <3>1. InGame(b) /\ p \in DOMAIN objects /\ gameSessions'[b].player = p /\ d \in Character
      BY <2>2, <1>7, <1>9, InGamePlayer DEF GameInv
    <3>2. players[d] = p /\ p # NoPlayer
      BY <3>1, <1>4, <1>5 DEF GameInv, GamesInv, PlayingIsRegistered, NoPlayer
    <3>3. d # c
      BY <3>2, <1>3
    <3>4. objects'[p].character = d /\ players'[d] = p
      BY <3>1, <3>2, <3>3, <1>4, <1>5
    <3> QED
      BY <3>1, <3>4
  <2> QED
    BY <2>1, <2>2
<1>11. OnePlayerEach'
  <2> SUFFICES ASSUME NEW b \in Address, NEW e \in Address, InGame(b)', InGame(e)',
                      gameSessions'[b].player = gameSessions'[e].player
               PROVE  b = e
    BY DEF OnePlayerEach
  <2>1. gameSessions'[a].player = n
    BY <1>7
  <2>2. CASE b # a /\ e # a
    BY <2>2, <1>7, <1>9 DEF GameInv, GamesInv, OnePlayerEach
  <2> QED
    BY <2>1, <2>2, <1>5, <1>9
<1>12. LeavingAlone'
  <2> SUFFICES ASSUME NEW b \in Address, leaving[b] # NoPlayer
               PROVE  /\ players'[objects'[leaving[b]].character] = leaving[b]
                      /\ sessions[b] = None
                      /\ \A e \in Address : e # b =>
                           /\ InGame(e)' => gameSessions'[e].player # leaving[b]
                           /\ leaving[e] # leaving[b]
    BY <1>3 DEF LeavingAlone
  <2> DEFINE d == objects[leaving[b]].character
  <2>1. leaving[b] \in DOMAIN objects /\ d \in Character /\ players[d] = leaving[b]
    BY LeavingPlayer DEF GameInv, GamesInv, LeavingAlone
  <2>2. d # c
    BY <2>1, <1>3
  <2>3. objects'[leaving[b]].character = d /\ players'[d] = leaving[b]
    BY <2>1, <2>2, <1>4, <1>5
  <2>4. \A e \in Address : e # b /\ InGame(e)' => gameSessions'[e].player # leaving[b]
    <3> SUFFICES ASSUME NEW e \in Address, e # b, InGame(e)'
                 PROVE  gameSessions'[e].player # leaving[b]
      OBVIOUS
    <3>1. CASE e = a
      BY <3>1, <2>1, <1>5, <1>7
    <3>2. CASE e # a
      BY <3>2, <1>7, <1>9 DEF GameInv, GamesInv, LeavingAlone
    <3> QED
      BY <3>1, <3>2
  <2> QED
    BY <2>3, <2>4 DEF GameInv, GamesInv, LeavingAlone
<1> QED
  BY <1>4, <1>8, <1>10, <1>11, <1>12 DEF GamesInv

\* A move, through the game session of an address.
LEMMA TransformStep ==
  ASSUME GameInv, NEW s \in SessionIds, NEW x \in Cell, DataTransform(s, x)
  PROVE  GamesInv'
<1> DEFINE a == soe[s].address
           o == gameSessions[a].player
<1>1. a \in Address /\ InGame(a)
  BY MappedByAddress DEF DataTransform, GameInv, TableInv
<1>2. o \in DOMAIN objects /\ players[objects[o].character] = o
  BY <1>1, InGamePlayer DEF GameInv, GamesInv, PlayingIsRegistered
<1>3. /\ updatePlayerPosition(o, x) /\ gameSessions' = gameSessions /\ leaving' = leaving
      /\ SessionIds' = SessionIds /\ sessions' = sessions
  BY SessionsUnchanged DEF DataTransform, serverVars, sessionVars
<1> HIDE DEF o
<1>4. /\ MapInv' /\ players' = players /\ DOMAIN objects' = DOMAIN objects
      /\ \A q \in DOMAIN objects : objects'[q].character = objects[q].character
  BY <1>2, <1>3, MoveStep DEF GameInv, GamesInv
<1>5. GamesTypeOK' /\ OnePlayerEach'
  BY <1>3, <1>4 DEF GameInv, GamesInv, GamesTypeOK, OnePlayerEach, InGame
<1>6. PlayingIsRegistered'
  BY <1>3, <1>4, InGamePlayer DEF GameInv, GamesInv, PlayingIsRegistered, InGame
<1>7. LeavingAlone'
  BY <1>3, <1>4, LeavingPlayer DEF GameInv, GamesInv, LeavingAlone, InGame
<1> QED
  BY <1>4, <1>5, <1>6, <1>7 DEF GamesInv

\* A step keeps the game in order.
LEMMA GameStep ==
  ASSUME GameInv, [Next]_vars, ~Relogin
  PROVE  GameInv'
<1>1. TableInv /\ GamesInv /\ Len(soe) \in Nat
  BY DEF GameInv, TableInv, SessionInv, SessionsTypeOK
<1>2. TableInv'
  BY <1>1, TableStep
<1>3. ASSUME NEW s \in SessionIds, Connected(s), EndSession(s)
      PROVE  GamesInv'
  BY <1>3, CleanupStep
<1>4. ASSUME UNCHANGED <<sessionVars, movementVars, gameSessions, leaving>>
      PROVE  GamesInv'
  BY <1>1, <1>4, GamesUnchanged, SessionsUnchanged DEF sessionVars
<1>5. ASSUME NEW h \in Handler, op[h].pc # "idle", Reject(h)
      PROVE  GamesInv'
  <2>1. op[h].session \in SessionIds
    BY <1>1, <1>5 DEF TableInv, CallsTypeOK
  <2>2. CASE Connected(op[h].session)
    BY <1>3, <1>5, <2>1, <2>2 DEF Reject
  <2>3. CASE ~Connected(op[h].session)
    BY <1>4, <1>5, <2>3 DEF Reject
  <2> QED
    BY <2>2, <2>3
<1>6. \A a \in Address : Connect(a) => GamesInv'
  <2> SUFFICES ASSUME NEW a \in Address, Connect(a) PROVE GamesInv'
    OBVIOUS
  <2>1. Len(soe') = Len(soe) + 1
    BY <1>1, RequestStep DEF Connect, TableInv
  <2>2. SessionIds \subseteq SessionIds'
    BY <1>1, <2>1, MoreSessions
  <2> QED
    BY <1>1, <2>2, GamesUnchanged DEF Connect, Settled, serverVars
<1>7. \A s \in SessionIds : Disconnect(s) => GamesInv'
  BY <1>3 DEF Disconnect
<1>8. \A s \in SessionIds, x \in Cell : DataTransform(s, x) => GamesInv'
  BY TransformStep
<1>9. \A s \in SessionIds, h \in Handler : ClientIdMsg(h, s) => GamesInv'
  BY <1>4 DEF ClientIdMsg
<1>10. \A s \in SessionIds, h \in Handler, c \in Character :
        SelectCharacter(h, s, c) => GamesInv'
  BY <1>4 DEF SelectCharacter
<1>11. \A h \in Handler : Authenticated(h) => GamesInv'
  BY <1>4 DEF Authenticated
<1>12. \A h \in Handler : InvalidToken(h) \/ CharacterNotFound(h) => GamesInv'
  BY <1>5 DEF InvalidToken, CharacterNotFound
<1>13. \A h \in Handler, x \in Cell : ZoneIn(h, x) => GamesInv'
  BY ZoneInStep
<1>14. \A a \in Address : ExitedZone(a) => GamesInv'
  BY <1>1, ExitedStep
<1>15. UNCHANGED vars => GamesInv'
  BY <1>4 DEF vars, serverVars
<1>16. GamesInv'
  BY <1>6, <1>7, <1>8, <1>9, <1>10, <1>11, <1>12, <1>13, <1>14, <1>15 DEF Next
<1> QED
  BY <1>2, <1>16 DEF GameInv

\* At the start nobody is in the game.
LEMMA GameStart == ASSUME Init PROVE GameInv
<1>1. TableInv
  BY TableInit
<1>2. MapInv
  BY DEF Init, MovementInit, MapInv, MovementTypeOK, IndexExact, RegisteredOwn
<1>3. /\ gameSessions \in [Address -> {NoGame}] /\ \A a \in Address : ~InGame(a)
      /\ leaving \in [Address -> {NoPlayer}]
  BY DEF Init, InGame
<1>4. GamesInv
  BY <1>2, <1>3 DEF GamesInv, GamesTypeOK, PlayingIsRegistered, OnePlayerEach, LeavingAlone
<1> QED
  BY <1>1, <1>4 DEF GameInv

\* The invariant of the game, where no character is zoned in twice.
LEMMA GameInvariant == ASSUME ~Relogin PROVE Spec => []GameInv
<1>1. Init => GameInv
  BY GameStart
<1>2. GameInv /\ [Next]_vars => GameInv'
  BY GameStep
<1> QED
  BY <1>1, <1>2, PTL DEF Spec

\* As long as no character is zoned in while it is in the game, the spatial
\* index lists every registered character where it stands and nowhere else
\* (movement-handler.ts, addToSpatialIndex and removeFromSpatialIndex): also
\* when Sessions are replaced and answers come after the client has gone.
THEOREM GameIndexExact ==
  ASSUME ~Relogin
  PROVE  Spec => []IndexExact
<1>1. GameInv => IndexExact
  BY DEF GameInv, GamesInv, MapInv
<1> QED
  BY <1>1, GameInvariant, PTL

\* Under the same condition whoever is in the game is registered with the
\* movement handler, by the PlayerObject of its own game session (server.ts,
\* loadAndZoneIn and cleanupGameSession).
THEOREM GamePlayingIsRegistered ==
  ASSUME ~Relogin
  PROVE  Spec => []PlayingIsRegistered
<1>1. GameInv => PlayingIsRegistered
  BY DEF GameInv, GamesInv
<1> QED
  BY <1>1, GameInvariant, PTL

-----------------------------------------------------------------------------
(* Types, in every environment. *)

TypesInv == TableInv /\ MovementTypeOK /\ GamesTypeOK

\* What leaves the movement handler, the game sessions and the cleanups alone
\* leaves them well typed.
LEMMA TypesUnchanged ==
  ASSUME TypesInv, SessionIds \subseteq SessionIds',
         UNCHANGED <<movementVars, gameSessions, leaving>>
  PROVE  MovementTypeOK' /\ GamesTypeOK'
<1>1. MovementTypeOK'
  BY DEF TypesInv, MovementTypeOK, movementVars
<1>2. GamesTypeOK'
  BY DEF TypesInv, GamesTypeOK, movementVars
<1> QED
  BY <1>1, <1>2

\* The cleanup of a Session is of a PlayerObject that was built.
LEMMA TypesEndStep ==
  ASSUME TypesInv, NEW s \in SessionIds, Connected(s), EndSession(s)
  PROVE  MovementTypeOK' /\ GamesTypeOK'
<1> DEFINE a == soe[s].address
<1>1. /\ a \in Address /\ SessionIds' = SessionIds
      /\ cleanupGameSession(a) /\ UNCHANGED <<movementVars, gameSessions>>
  BY EndSessionStep DEF TypesInv, EndSession
<1>2. CASE InGame(a)
  <2>1. gameSessions[a].player \in DOMAIN objects
    BY <1>1, <1>2 DEF InGame, TypesInv, GamesTypeOK
  <2>2. leaving' \in [Address -> {NoPlayer} \cup DOMAIN objects]
    BY <1>1, <1>2, <2>1 DEF cleanupGameSession, TypesInv, GamesTypeOK
  <2> QED
    BY <1>1, <2>2 DEF TypesInv, GamesTypeOK, MovementTypeOK, movementVars
<1>3. CASE ~InGame(a)
  BY <1>1, <1>3, TypesUnchanged DEF cleanupGameSession
<1> QED
  BY <1>2, <1>3

\* A character is put into the world, whether it is there already or not.
LEMMA TypesZoneInStep ==
  ASSUME TypesInv, NEW h \in Handler, NEW x \in Cell, ZoneIn(h, x)
  PROVE  MovementTypeOK' /\ GamesTypeOK'
<1> DEFINE s == op[h].session
           c == op[h].character
           a == soe[s].address
           new == [character |-> c, cell |-> x]
           game == [session |-> s, player |-> Len(objects) + 1]
<1>1. s \in SessionIds /\ c \in Character /\ a \in Address
  <2>1. s \in SessionIds /\ c \in Character
    BY DEF ZoneIn, TypesInv, TableInv, CallsTypeOK
  <2> QED
    BY <2>1, MappedByAddress DEF TypesInv, TableInv
<1>2. /\ objects' = Append(objects, new) /\ new \in PlayerObject
      /\ players' = [players EXCEPT ![c] = Len(objects) + 1]
      /\ spatialIndex' = [spatialIndex EXCEPT ![x] = @ \cup {c}]
      /\ gameSessions' = [gameSessions EXCEPT ![a] = game]
      /\ leaving' = leaving /\ SessionIds' = SessionIds
  BY <1>1, SessionsUnchanged DEF ZoneIn, registerPlayer, addToSpatialIndex, PlayerObject
<1>3. /\ objects \in Seq(PlayerObject)
      /\ players \in [Character -> {NoPlayer} \cup DOMAIN objects]
      /\ spatialIndex \in [Cell -> SUBSET Character]
      /\ gameSessions \in [Address -> {NoGame} \cup
                              [session : SessionIds, player : DOMAIN objects]]
      /\ leaving \in [Address -> {NoPlayer} \cup DOMAIN objects]
  BY DEF TypesInv, MovementTypeOK, GamesTypeOK
<1>4. /\ objects' \in Seq(PlayerObject)
      /\ DOMAIN objects \subseteq DOMAIN objects'
      /\ Len(objects) + 1 \in DOMAIN objects'
  BY <1>2, <1>3, AppendProperties
<1>5. spatialIndex' \in [Cell -> SUBSET Character]
  BY <1>1, <1>2, <1>3
<1>6. MovementTypeOK'
  BY <1>1, <1>2, <1>3, <1>4, <1>5 DEF MovementTypeOK
<1>7. game \in [session : SessionIds, player : DOMAIN objects']
  BY <1>1, <1>4
<1> HIDE DEF game
<1>8. GamesTypeOK'
  BY <1>1, <1>2, <1>3, <1>4, <1>7 DEF GamesTypeOK
<1> QED
  BY <1>6, <1>8

\* A move changes the cell of a PlayerObject that was built.
LEMMA TypesTransformStep ==
  ASSUME TypesInv, NEW s \in SessionIds, NEW x \in Cell, DataTransform(s, x)
  PROVE  MovementTypeOK' /\ GamesTypeOK'
<1> DEFINE a == soe[s].address
           o == gameSessions[a].player
           moved == [objects[o] EXCEPT !.cell = x]
<1>1. a \in Address /\ InGame(a)
  BY MappedByAddress DEF DataTransform, TypesInv, TableInv
<1>2. o \in DOMAIN objects
  BY <1>1 DEF InGame, TypesInv, GamesTypeOK
<1>3. /\ updatePlayerPosition(o, x) /\ gameSessions' = gameSessions /\ leaving' = leaving
      /\ SessionIds' = SessionIds
  BY SessionsUnchanged DEF DataTransform, serverVars, sessionVars
<1>4. objects[o] \in PlayerObject /\ objects \in Seq(PlayerObject)
  BY <1>2 DEF TypesInv, MovementTypeOK
<1>5. moved \in PlayerObject /\ objects[o].character \in Character
  BY <1>4 DEF PlayerObject
<1>6. objects' = [objects EXCEPT ![o] = moved]
  BY <1>3 DEF updatePlayerPosition
<1> HIDE DEF moved, o
<1>7. objects' \in Seq(PlayerObject) /\ DOMAIN objects' = DOMAIN objects
  <2>1. DOMAIN objects = 1 .. Len(objects)
    BY <1>4
  <2> QED
    BY <1>2, <1>4, <1>5, <1>6, <2>1, ExceptSeq
<1>8. spatialIndex' \in [Cell -> SUBSET Character]
  BY <1>3, <1>5 DEF updatePlayerPosition, addToSpatialIndex, removeFromSpatialIndex,
                    TypesInv, MovementTypeOK
<1>9. players' = players
  BY <1>3 DEF updatePlayerPosition
<1>10. MovementTypeOK'
  BY <1>7, <1>8, <1>9 DEF TypesInv, MovementTypeOK
<1>11. GamesTypeOK'
  BY <1>3, <1>7 DEF TypesInv, GamesTypeOK
<1> QED
  BY <1>10, <1>11

\* A step keeps the types, whichever of the environments is switched on.
LEMMA TypesStep ==
  ASSUME TypesInv, [Next]_vars
  PROVE  TypesInv'
<1>1. TableInv /\ TableInv' /\ Len(soe) \in Nat
  BY TableStep DEF TypesInv, TableInv, SessionInv, SessionsTypeOK
<1> DEFINE Typed == MovementTypeOK' /\ GamesTypeOK'
<1>2. ASSUME UNCHANGED <<sessionVars, movementVars, gameSessions, leaving>>
      PROVE  Typed
  BY <1>2, TypesUnchanged, SessionsUnchanged DEF sessionVars
<1>3. ASSUME NEW h \in Handler, op[h].pc # "idle", Reject(h)
      PROVE  Typed
  <2>1. op[h].session \in SessionIds
    BY <1>1, <1>3 DEF TableInv, CallsTypeOK
  <2>2. CASE Connected(op[h].session)
    BY <1>3, <2>1, <2>2, TypesEndStep DEF Reject
  <2>3. CASE ~Connected(op[h].session)
    BY <1>2, <1>3, <2>3 DEF Reject
  <2> QED
    BY <2>2, <2>3
<1>4. \A a \in Address : Connect(a) => Typed
  <2> SUFFICES ASSUME NEW a \in Address, Connect(a) PROVE Typed
    OBVIOUS
  <2>1. Len(soe') = Len(soe) + 1
    BY <1>1, RequestStep DEF Connect, TableInv
  <2>2. SessionIds \subseteq SessionIds'
    BY <1>1, <2>1, MoreSessions
  <2> QED
    BY <2>2, TypesUnchanged DEF Connect, serverVars
<1>5. \A s \in SessionIds : Disconnect(s) => Typed
  BY TypesEndStep DEF Disconnect
<1>6. \A s \in SessionIds, x \in Cell : DataTransform(s, x) => Typed
  BY TypesTransformStep
<1>7. \A s \in SessionIds, h \in Handler : ClientIdMsg(h, s) => Typed
  BY <1>2 DEF ClientIdMsg
<1>8. \A s \in SessionIds, h \in Handler, c \in Character : SelectCharacter(h, s, c) => Typed
  BY <1>2 DEF SelectCharacter
<1>9. \A h \in Handler : Authenticated(h) => Typed
  BY <1>2 DEF Authenticated
<1>10. \A h \in Handler : InvalidToken(h) \/ CharacterNotFound(h) => Typed
  BY <1>3 DEF InvalidToken, CharacterNotFound
<1>11. \A h \in Handler, x \in Cell : ZoneIn(h, x) => Typed
  BY TypesZoneInStep
<1>12. \A a \in Address : ExitedZone(a) => Typed
  <2> SUFFICES ASSUME NEW a \in Address, ExitedZone(a) PROVE Typed
    OBVIOUS
  <2>1. SessionIds' = SessionIds
    BY SessionsUnchanged DEF ExitedZone
  <2>2. MovementTypeOK' /\ objects' = objects
    BY DEF ExitedZone, unregisterPlayer, removeFromSpatialIndex, TypesInv, MovementTypeOK
  <2>3. GamesTypeOK'
    BY <2>1, <2>2 DEF ExitedZone, TypesInv, GamesTypeOK
  <2> QED
    BY <2>2, <2>3
<1>13. UNCHANGED vars => Typed
  BY <1>2 DEF vars, serverVars
<1>14. Typed
  BY <1>4, <1>5, <1>6, <1>7, <1>8, <1>9, <1>10, <1>11, <1>12, <1>13 DEF Next
<1> QED
  BY <1>1, <1>14 DEF TypesInv

\* Every variable of the game server keeps its type in every environment: also
\* when a character is zoned in twice, Sessions are replaced or answers are late,
\* no handler, table or cleanup ever holds a PlayerObject or a Session that was
\* not made (server.ts, movement-handler.ts).
THEOREM GameTypeOK == Spec => []TypeOK
<1>1. Init => TypesInv
  BY GameStart DEF GameInv, GamesInv, MapInv, TypesInv
<1>2. TypesInv /\ [Next]_vars => TypesInv'
  BY TypesStep
<1>3. TypesInv => TypeOK
  BY DEF TypesInv, TableInv, SessionInv, CallsTypeOK, GamesTypeOK, TypeOK
<1> QED
  BY <1>1, <1>2, <1>3, PTL DEF Spec

-----------------------------------------------------------------------------
(* Who is whose, as long as clients keep the order. *)

\* Calls in flight work on Sessions that are connected.
CallsConnected ==
  \A h \in Handler : op[h].session # None => Connected(op[h].session)

\* What the server keeps for an address is of the Session it is bound to, or of
\* the player it is taking out of the game; and there is no Session meanwhile.
OwnTables ==
  \A a \in Address :
    /\ leaving[a] # NoPlayer => sessions[a] = None /\ gameSessions[a].player = leaving[a]
    /\ leaving[a] = NoPlayer =>
         /\ extSessions[a] \in {None, sessions[a]}
         /\ gameSessions[a].session \in {None, sessions[a]}

\* Whoever is registered is played from some address.
RegisteredPlayed ==
  \A c \in Character : players[c] # NoPlayer =>
    \E a \in Address : gameSessions[a].player = players[c]

OwnInv == CallsConnected /\ OwnTables /\ RegisteredPlayed

OrderlyInv == GameInv /\ (orderly => OwnInv)

\* What the properties say follows.
LEMMA OwnMeans ==
  ASSUME GameInv, OwnInv
  PROVE  OwnIdentity /\ RegisteredIsPlaying
<1>1. OwnIdentity
  BY DEF OwnInv, OwnTables, OwnIdentity
<1>2. ASSUME NEW c \in Character, players[c] # NoPlayer
      PROVE  \E a \in Address :
               /\ gameSessions[a].player = players[c]
               /\ Connected(gameSessions[a].session) \/ leaving[a] = players[c]
  <2>1. PICK a \in Address : gameSessions[a].player = players[c]
    BY <1>2 DEF OwnInv, RegisteredPlayed
  <2>2. CASE leaving[a] # NoPlayer
    BY <2>1, <2>2 DEF OwnInv, OwnTables
  <2>3. CASE leaving[a] = NoPlayer
    <3>1. gameSessions[a] \in [session : SessionIds, player : DOMAIN objects]
      BY <1>2, <2>1 DEF GameInv, GamesInv, GamesTypeOK, NoGame
    <3>2. gameSessions[a].session \in SessionIds /\ gameSessions[a].session # None
      BY <3>1 DEF GameInv, TableInv, SessionInv, SessionsTypeOK, SessionIds, None
    <3>3. gameSessions[a].session = sessions[a]
      BY <2>3, <3>2 DEF OwnInv, OwnTables
    <3>4. Connected(sessions[a])
      BY <3>2, <3>3, MappedByAddress DEF GameInv, TableInv
    <3> QED
      BY <2>1, <3>3, <3>4
  <2> QED
    BY <2>2, <2>3
<1> QED
  BY <1>1, <1>2 DEF RegisteredIsPlaying

\* The Session of an address that is being cleaned up has gone, so one that is
\* connected is bound to an address that is not.
LEMMA ConnectedStays ==
  ASSUME GameInv, OwnInv, NEW s \in SessionIds, Connected(s)
  PROVE  /\ soe[s].address \in Address /\ s # None
         /\ sessions[soe[s].address] = s /\ leaving[soe[s].address] = NoPlayer
<1>1. soe[s].address \in Address /\ sessions[soe[s].address] = s
  BY MappedByAddress DEF GameInv, TableInv
<1>2. s # None
  BY DEF GameInv, TableInv, SessionInv, SessionsTypeOK, SessionIds, None
<1> QED
  BY <1>1, <1>2 DEF OwnInv, OwnTables

\* No Session that a call goes on with ends in this step.
LEMMA CallsStep ==
  ASSUME ~EndsAwaited,
         \A h \in Handler : op'[h].session # None =>
           op'[h].session \in SessionIds /\ Connected(op'[h].session)
  PROVE  CallsConnected'
<1> SUFFICES ASSUME NEW h \in Handler, op'[h].session # None
             PROVE  soe'[op'[h].session].state = "Connected"
  BY DEF CallsConnected, Connected
<1> QED
  BY DEF EndsAwaited, Connected

\* A call that was in flight, or was not, before a step that leaves it or ends it.
LEMMA CallsReturn ==
  ASSUME GameInv, OwnInv, ~EndsAwaited, op' = op \/ \E h \in Handler : Return(h)
  PROVE  CallsConnected'
<1>1. Idle.session = None
  BY DEF Idle, Call
<1>2. op \in [Handler -> [pc : {"idle", "getSession", "findCharacter"},
                         session : {None} \cup SessionIds, character : Character]]
  BY DEF GameInv, TableInv, CallsTypeOK
<1>3. \A h \in Handler : op'[h] = op[h] \/ op'[h] = Idle
  BY <1>2 DEF Return
<1>4. \A h \in Handler : op[h].session \in {None} \cup SessionIds
  BY <1>2
<1> QED
  BY <1>1, <1>3, <1>4, CallsStep DEF OwnInv, CallsConnected

\* A Session that ends leaves a player to take out, or nothing.
LEMMA OwnEndStep ==
  ASSUME GameInv, OwnInv, NEW s \in SessionIds, Connected(s), EndSession(s)
  PROVE  OwnTables' /\ RegisteredPlayed'
<1> DEFINE a == soe[s].address
<1>1. a \in Address /\ sessions[a] = s /\ leaving[a] = NoPlayer
  BY ConnectedStays
<1>2. /\ sessions' = [sessions EXCEPT ![a] = None] /\ cleanupGameSession(a)
      /\ UNCHANGED <<players, gameSessions>>
  BY DEF EndSession, RemoveSession, movementVars
<1>3. /\ sessions \in [Address -> {None} \cup SessionIds]
      /\ leaving \in [Address -> {NoPlayer} \cup DOMAIN objects]
      /\ extSessions \in [Address -> {None} \cup SessionIds]
  BY DEF GameInv, GamesInv, GamesTypeOK, TableInv, SessionInv, SessionsTypeOK, CallsTypeOK
<1>4. RegisteredPlayed'
  BY <1>2 DEF OwnInv, RegisteredPlayed
<1>5. OwnTables'
  <2>1. \A b \in Address : b # a =>
          sessions'[b] = sessions[b] /\ leaving'[b] = leaving[b] /\ extSessions'[b] = extSessions[b]
    BY <1>1, <1>2, <1>3 DEF cleanupGameSession
  <2>2. sessions'[a] = None
    BY <1>1, <1>2, <1>3
  <2>3. CASE InGame(a)
    <3>1. leaving'[a] = gameSessions[a].player /\ gameSessions[a].player # NoPlayer
      BY <1>1, <1>2, <1>3, <2>3, InGamePlayer DEF cleanupGameSession, GameInv
    <3> QED
      BY <3>1, <2>1, <2>2, <1>2 DEF OwnInv, OwnTables
  <2>4. CASE ~InGame(a)
    <3>1. extSessions'[a] = None /\ leaving'[a] = NoPlayer /\ gameSessions[a].session = None
      BY <1>1, <1>2, <1>3, <2>4 DEF cleanupGameSession, InGame, NoGame
    <3> QED
      BY <3>1, <2>1, <2>2, <1>2 DEF OwnInv, OwnTables
  <2> QED
    BY <2>3, <2>4
<1> QED
  BY <1>4, <1>5

\* An address that is bound anew had no Session, and nothing is kept for it.
LEMMA OwnConnectStep ==
  ASSUME GameInv, OwnInv, ~Replaced, NEW a \in Address, Connect(a)
  PROVE  OwnTables' /\ RegisteredPlayed'
<1>1. /\ sessions \in [Address -> {None} \cup SessionIds] /\ Len(soe) \in Nat
      /\ sessions[a] \in {0} \cup 1 .. Len(soe)
  BY DEF GameInv, TableInv, SessionInv, SessionsTypeOK, SessionIds, None
<1>2. /\ sessions' = [sessions EXCEPT ![a] = Len(soe) + 1]
      /\ UNCHANGED <<players, gameSessions, leaving, extSessions>>
      /\ \A b \in Address : leaving[b] = NoPlayer
  BY DEF Connect, ProcessSessionRequest, movementVars, serverVars, Settled
<1>3. sessions'[a] = Len(soe) + 1 /\ Len(soe) + 1 # sessions[a] /\ Len(soe) + 1 # 0
  BY <1>1, <1>2
<1>4. sessions[a] = None
  BY <1>3 DEF Replaced, None
<1>5. OwnTables'
  BY <1>1, <1>2, <1>4 DEF OwnInv, OwnTables
<1> QED
  BY <1>2, <1>5 DEF OwnInv, RegisteredPlayed

\* The cleanup takes out the player of its address and what is kept for it.
LEMMA OwnExitedStep ==
  ASSUME GameInv, OwnInv, NEW a \in Address, ExitedZone(a)
  PROVE  OwnTables' /\ RegisteredPlayed'
<1> DEFINE c == objects[leaving[a]].character
<1>1. /\ c \in Character /\ players[c] = leaving[a] /\ leaving[a] # NoPlayer
      /\ sessions[a] = None /\ gameSessions[a].player = leaving[a]
  BY LeavingPlayer DEF ExitedZone, GameInv, GamesInv, LeavingAlone, OwnInv, OwnTables
<1>2. /\ gameSessions \in [Address -> {NoGame} \cup [session : SessionIds, player : DOMAIN objects]]
      /\ leaving \in [Address -> {NoPlayer} \cup DOMAIN objects]
      /\ extSessions \in [Address -> {None} \cup SessionIds]
      /\ players \in [Character -> {NoPlayer} \cup DOMAIN objects]
  BY DEF GameInv, GamesInv, GamesTypeOK, TableInv, CallsTypeOK, MapInv, MovementTypeOK
<1>3. /\ players' = [players EXCEPT ![c] = NoPlayer] /\ sessions' = sessions
      /\ gameSessions' = [gameSessions EXCEPT ![a] = NoGame]
      /\ extSessions' = [extSessions EXCEPT ![a] = None]
      /\ leaving' = [leaving EXCEPT ![a] = NoPlayer]
  BY DEF ExitedZone, unregisterPlayer, sessionVars
<1>4. /\ gameSessions'[a].session = None /\ extSessions'[a] = None /\ leaving'[a] = NoPlayer
      /\ \A b \in Address : b # a =>
           /\ gameSessions'[b] = gameSessions[b] /\ extSessions'[b] = extSessions[b]
           /\ leaving'[b] = leaving[b]
  BY <1>2, <1>3 DEF NoGame
<1>5. OwnTables'
  BY <1>3, <1>4 DEF OwnInv, OwnTables
<1>6. RegisteredPlayed'
  <2> SUFFICES ASSUME NEW d \in Character, players'[d] # NoPlayer
               PROVE  \E b \in Address : gameSessions'[b].player = players'[d]
    BY DEF RegisteredPlayed
  <2>1. d # c /\ players'[d] = players[d]
    BY <1>1, <1>2, <1>3
  <2>2. PICK b \in Address : gameSessions[b].player = players[d]
    BY <2>1 DEF OwnInv, RegisteredPlayed
  <2>3. players[d] # players[c]
    BY <1>1, <2>1 DEF GameInv, GamesInv, MapInv, RegisteredOwn
  <2>4. b # a
    BY <1>1, <2>2, <2>3
  <2> QED
    BY <1>4, <2>1, <2>2, <2>4
<1> QED
  BY <1>5, <1>6

\* The client of a call is the one its address is bound to.
LEMMA OwnAuthenticatedStep ==
  ASSUME GameInv, OwnInv, NEW h \in Handler, Authenticated(h)
  PROVE  OwnTables' /\ RegisteredPlayed'
<1> DEFINE s == op[h].session
           a == soe[s].address
<1>1. s \in SessionIds /\ Connected(s)
  BY DEF Authenticated, GameInv, TableInv, CallsTypeOK, OwnInv, CallsConnected
<1>2. a \in Address /\ sessions[a] = s
  BY <1>1, ConnectedStays
<1>3. /\ extSessions' = [extSessions EXCEPT ![a] = s]
      /\ UNCHANGED <<sessions, players, gameSessions, leaving>>
  BY DEF Authenticated, sessionVars, movementVars
<1>4. extSessions \in [Address -> {None} \cup SessionIds]
  BY DEF GameInv, TableInv, CallsTypeOK
<1>5. extSessions'[a] = s /\ \A b \in Address : b # a => extSessions'[b] = extSessions[b]
  BY <1>2, <1>3, <1>4
<1> HIDE DEF a, s
<1>6. OwnTables'
  BY <1>2, <1>3, <1>5 DEF OwnInv, OwnTables
<1> QED
  BY <1>3, <1>6 DEF OwnInv, RegisteredPlayed

\* A zone-in takes the place of no other game session of its address.
LEMMA OwnZoneInStep ==
  ASSUME GameInv, OwnInv, NEW h \in Handler, NEW x \in Cell, ZoneIn(h, x), ~Relogin
  PROVE  OwnTables' /\ RegisteredPlayed'
<1> DEFINE s == op[h].session
           a == soe[s].address
           c == op[h].character
           n == Len(objects) + 1
<1>1. s \in SessionIds /\ Connected(s) /\ c \in Character
  BY DEF ZoneIn, GameInv, TableInv, CallsTypeOK, OwnInv, CallsConnected
<1>2. a \in Address /\ sessions[a] = s /\ leaving[a] = NoPlayer /\ s # None
  BY <1>1, ConnectedStays
<1>3. /\ gameSessions' = [gameSessions EXCEPT ![a] = [session |-> s, player |-> n]]
      /\ players' = [players EXCEPT ![c] = n]
      /\ UNCHANGED <<sessions, extSessions, leaving>>
      /\ players[c] = NoPlayer /\ gameSessions[a].session # s
  BY DEF ZoneIn, registerPlayer, sessionVars, FirstLogin
<1>4. /\ gameSessions \in [Address -> {NoGame} \cup [session : SessionIds, player : DOMAIN objects]]
      /\ players \in [Character -> {NoPlayer} \cup DOMAIN objects]
      /\ \A t \in SessionIds : t # None
  BY DEF GameInv, GamesInv, GamesTypeOK, MapInv, MovementTypeOK, TableInv, SessionInv,
         SessionsTypeOK, SessionIds, None
<1>5. /\ gameSessions'[a].session = s /\ gameSessions'[a].player = n
      /\ \A b \in Address : b # a => gameSessions'[b] = gameSessions[b]
  BY <1>2, <1>3, <1>4
<1>6. gameSessions[a].player = NoPlayer
  <2>1. gameSessions[a].session = None
    BY <1>2, <1>3 DEF OwnInv, OwnTables
  <2>2. gameSessions[a] \notin [session : SessionIds, player : DOMAIN objects]
    BY <2>1, <1>4
  <2> QED
    BY <2>2, <1>2, <1>4 DEF NoGame
<1>7. /\ players'[c] = n
      /\ \A d \in Character : d # c => players'[d] = players[d]
  BY <1>1, <1>3, <1>4
<1> HIDE DEF s, a, c, n
<1>8. OwnTables'
  BY <1>2, <1>3, <1>5 DEF OwnInv, OwnTables
<1>9. RegisteredPlayed'
  <2> SUFFICES ASSUME NEW d \in Character, players'[d] # NoPlayer
               PROVE  \E b \in Address : gameSessions'[b].player = players'[d]
    BY DEF RegisteredPlayed
  <2>1. CASE d = c
    BY <2>1, <1>2, <1>5, <1>7
  <2>2. CASE d # c
    <3>1. players'[d] = players[d] /\ players[d] # NoPlayer
      BY <2>2, <1>7
    <3>2. PICK b \in Address : gameSessions[b].player = players[d]
      BY <3>1 DEF OwnInv, RegisteredPlayed
    <3>3. b # a
      BY <3>1, <3>2, <1>6
    <3> QED
      BY <3>1, <3>2, <3>3, <1>5
  <2> QED
    BY <2>1, <2>2
<1> QED
  BY <1>8, <1>9

\* What leaves the tables alone leaves them right.
LEMMA OwnUnchanged ==
  ASSUME OwnInv, UNCHANGED <<sessions, players, extSessions, gameSessions, leaving>>
  PROVE  OwnTables' /\ RegisteredPlayed'
BY DEF OwnInv, OwnTables, RegisteredPlayed

\* disconnectSession on the Session of a call.
LEMMA OwnRejectStep ==
  ASSUME GameInv, OwnInv, NEW h \in Handler, op[h].pc # "idle", Reject(h)
  PROVE  OwnTables' /\ RegisteredPlayed'
<1>1. op[h].session \in SessionIds /\ Connected(op[h].session)
  BY DEF GameInv, TableInv, CallsTypeOK, OwnInv, CallsConnected
<1> QED
  BY <1>1, OwnEndStep DEF Reject

\* A message is handled in the name of a client that is connected.
LEMMA OwnMessageStep ==
  ASSUME GameInv, OwnInv, ~EndsAwaited, NEW h \in Handler, NEW s \in SessionIds,
         ClientIdMsg(h, s) \/ \E c \in Character : SelectCharacter(h, s, c)
  PROVE  CallsConnected'
<1>1. /\ op \in [Handler -> [pc : {"idle", "getSession", "findCharacter"},
                         session : {None} \cup SessionIds, character : Character]]
      /\ \A g \in Handler : op[g].session \in {None} \cup SessionIds
  BY DEF GameInv, TableInv, CallsTypeOK
<1>2. Connected(s)
  BY DEF ClientIdMsg, SelectCharacter
<1>3. sessions[soe[s].address] = s /\ soe[s].address \in Address
      /\ leaving[soe[s].address] = NoPlayer
  BY <1>2, ConnectedStays
<1>4. op'[h].session = s
  <2>1. CASE ClientIdMsg(h, s)
    BY <2>1, <1>1 DEF ClientIdMsg, Call
  <2>2. CASE \E c \in Character : SelectCharacter(h, s, c)
    <3>1. extSessions[soe[s].address] = s
      BY <1>3, <2>2 DEF SelectCharacter, OwnInv, OwnTables
    <3> QED
      BY <3>1, <2>2, <1>1 DEF SelectCharacter, Call
  <2> QED
    BY <2>1, <2>2
<1>5. \A g \in Handler : g # h => op'[g] = op[g]
  BY <1>1 DEF ClientIdMsg, SelectCharacter
<1> QED
  BY <1>1, <1>2, <1>4, <1>5, CallsStep DEF OwnInv, CallsConnected

\* An orderly step keeps the tables own and the calls connected.
LEMMA OwnStep ==
  ASSUME GameInv, OwnInv, ~Replaced, ~EndsAwaited, Next, ~Relogin
  PROVE  OwnInv'
<1>1. ASSUME NEW a \in Address, Connect(a) PROVE OwnInv'
  BY <1>1, OwnConnectStep, CallsReturn DEF Connect, serverVars, OwnInv
<1>2. ASSUME NEW a \in Address, ExitedZone(a) PROVE OwnInv'
  BY <1>2, OwnExitedStep, CallsReturn DEF ExitedZone, OwnInv
<1>3. ASSUME NEW s \in SessionIds, Disconnect(s) PROVE OwnInv'
  BY <1>3, OwnEndStep, CallsReturn DEF Disconnect, OwnInv
<1>4. ASSUME NEW s \in SessionIds, NEW x \in Cell, DataTransform(s, x) PROVE OwnInv'
  BY <1>4, OwnUnchanged, CallsReturn
     DEF DataTransform, updatePlayerPosition, sessionVars, serverVars, OwnInv
<1>5. ASSUME NEW s \in SessionIds, NEW h \in Handler,
             ClientIdMsg(h, s) \/ \E c \in Character : SelectCharacter(h, s, c)
      PROVE  OwnInv'
  BY <1>5, OwnUnchanged, OwnMessageStep
     DEF ClientIdMsg, SelectCharacter, sessionVars, movementVars, OwnInv
<1>6. ASSUME NEW h \in Handler, Authenticated(h) PROVE OwnInv'
  BY <1>6, OwnAuthenticatedStep, CallsReturn DEF Authenticated, OwnInv
<1>7. ASSUME NEW h \in Handler, InvalidToken(h) \/ CharacterNotFound(h) PROVE OwnInv'
  <2>1. op[h].pc # "idle" /\ Reject(h) /\ Return(h)
    BY <1>7 DEF InvalidToken, CharacterNotFound, Reject
  <2> QED
    BY <2>1, OwnRejectStep, CallsReturn DEF OwnInv
<1>8. ASSUME NEW h \in Handler, NEW x \in Cell, ZoneIn(h, x) PROVE OwnInv'
  BY <1>8, OwnZoneInStep, CallsReturn DEF ZoneIn, OwnInv
<1> QED
  BY <1>1, <1>2, <1>3, <1>4, <1>5, <1>6, <1>7, <1>8 DEF Next

LEMMA OrderlyStep ==
  ASSUME OrderlyInv, [OrderlyNext]_orderlyVars, ~Relogin
  PROVE  OrderlyInv'
<1>1. GameInv'
  BY GameStep DEF OrderlyInv, OrderlyNext, orderlyVars
<1>2. ASSUME OrderlyNext, orderly' PROVE OwnInv'
  BY <1>2, OwnStep DEF OrderlyNext, OrderlyInv
<1>3. ASSUME UNCHANGED orderlyVars, orderly' PROVE OwnInv'
  BY <1>3 DEF orderlyVars, vars, sessionVars, movementVars, serverVars, OrderlyInv, OwnInv,
     CallsConnected, OwnTables, RegisteredPlayed, Connected
<1> QED
  BY <1>1, <1>2, <1>3 DEF OrderlyInv

LEMMA OrderlyStart == ASSUME OrderlyInit PROVE OrderlyInv
<1>1. Idle.session = None
  BY DEF Idle, Call
<1>2. OwnInv
  BY <1>1 DEF OrderlyInit, Init, SessionsInit, MovementInit, OwnInv, CallsConnected,
     OwnTables, RegisteredPlayed, NoGame
<1> QED
  BY <1>2, GameStart DEF OrderlyInit, OrderlyInv

\* The invariant holds in every reachable state of the orderly game.
LEMMA OrderlyInvariant ==
  ASSUME ~Relogin
  PROVE  OrderlySpec => []OrderlyInv
<1>1. OrderlyInit => OrderlyInv
  BY OrderlyStart
<1>2. OrderlyInv /\ [OrderlyNext]_orderlyVars => OrderlyInv'
  BY OrderlyStep
<1> QED
  BY <1>1, <1>2, PTL DEF OrderlySpec

\* As long as no Session is replaced and none ends in mid-call, what a client sends
\* is handled in its own name, if no character is zoned in while it is in the
\* game (server.ts:352, :560).
THEOREM GameOwnIdentity ==
  ASSUME ~Relogin
  PROVE  OrderlySpec => []OwnIdentityInOrder
<1>1. OrderlyInv => OwnIdentityInOrder
  BY OwnMeans DEF OrderlyInv, OwnIdentityInOrder
<1> QED
  BY <1>1, OrderlyInvariant, PTL

\* As long as no Session is replaced and none ends in mid-call, nobody stays in the
\* world whose client has gone, if no character is zoned in while it is in the
\* game (server.ts:818).
THEOREM GameGoneWhenGone ==
  ASSUME ~Relogin
  PROVE  OrderlySpec => []GoneWhenGone
<1>1. OrderlyInv => GoneWhenGone
  BY OwnMeans DEF OrderlyInv, GoneWhenGone
<1> QED
  BY <1>1, OrderlyInvariant, PTL
=============================================================================
