----------------------------- MODULE GameServer -----------------------------
(***************************************************************************)
(* The client sessions of the game server, apps/game-server/src/server.ts, *)
(* over SessionManager (SoeSessions) and MovementHandler.  Its handlers    *)
(* are async: between an await and its answer from Redis or the database   *)
(* the client may leave, another may come, and other handlers run.  What   *)
(* they store is keyed by the client's address, not by its Session.        *)
(***************************************************************************)
EXTENDS SoeSessions, MovementHandler

CONSTANTS
  Handler,        \* the handler calls in flight
  MaxZoneIns,     \* bound on the zone-ins of a behaviour
  Replacing,      \* a SessionRequest may come from an address with a live Session
  LateAnswers,    \* a Session may end while an answer for it is awaited
  Relogin         \* a character may be zoned in again while it is in the game

ASSUME GameServerAssumption ==
  /\ MaxZoneIns \in Nat /\ Character # {}
  /\ Replacing \in BOOLEAN /\ LateAnswers \in BOOLEAN /\ Relogin \in BOOLEAN

VARIABLES
  extSessions,   \* the authenticated client of an address: its Session, or None
  gameSessions,  \* the zoned-in client of an address: its Session and PlayerObject
  leaving,       \* the PlayerObject whose exitZone the cleanup of an address awaits
  op             \* the handler calls in flight, each at the await it is in

serverVars == <<extSessions, gameSessions, leaving, op>>
vars == <<sessionVars, movementVars, serverVars>>

-----------------------------------------------------------------------------
NoGame == [session |-> None, player |-> NoPlayer]

InGame(a) == gameSessions[a] # NoGame

\* pc names the answer the call waits for; session is the one it works on.
Call(pc, s, c) == [pc |-> pc, session |-> s, character |-> c]
Idle == Call("idle", None, CHOOSE c \in Character : TRUE)

MayEnd(s, calls) == LateAnswers \/ \A h \in calls : op[h].session # s

Init ==
  /\ SessionsInit /\ MovementInit
  /\ extSessions = [a \in Address |-> None]
  /\ gameSessions = [a \in Address |-> NoGame]
  /\ leaving = [a \in Address |-> NoPlayer]
  /\ op = [h \in Handler |-> Idle]

Return(h) == op' = [op EXCEPT ![h] = Idle]

\* exitZone does no I/O, so the awaits of the cleanups are over before the
\* next packet is read; other answers that are in may be handled first.
Settled == \A a \in Address : leaving[a] = NoPlayer

-----------------------------------------------------------------------------
(* Sessions come and go. *)

\* Only lag and process id are sent on 'session:connected'; nothing the
\* server keeps for the address is touched.
Connect(a) ==
  /\ Settled
  /\ Replacing \/ sessions[a] = None
  /\ ProcessSessionRequest(a)
  /\ UNCHANGED <<movementVars, serverVars>>

\* cleanupGameSession, the handler of 'session:disconnected', up to the await
\* of exitZone for the player it has found.
cleanupGameSession(a) ==
  IF InGame(a)
  THEN /\ leaving' = [leaving EXCEPT ![a] = gameSessions[a].player]
       /\ UNCHANGED extSessions
  ELSE /\ extSessions' = [extSessions EXCEPT ![a] = None]
       /\ UNCHANGED leaving

\* Mutant: the authenticated client stays.
ExitedGameOnly(a) ==
  /\ leaving[a] # NoPlayer
  /\ unregisterPlayer(objects[leaving[a]].character)
  /\ gameSessions' = [gameSessions EXCEPT ![a] = NoGame]
  /\ leaving' = [leaving EXCEPT ![a] = NoPlayer]
  /\ UNCHANGED <<sessionVars, extSessions, op>>

\* Mutant: the player stays registered.
ExitedTablesOnly(a) ==
  /\ leaving[a] # NoPlayer
  /\ gameSessions' = [gameSessions EXCEPT ![a] = NoGame]
  /\ extSessions' = [extSessions EXCEPT ![a] = None]
  /\ leaving' = [leaving EXCEPT ![a] = NoPlayer]
  /\ UNCHANGED <<sessionVars, movementVars, op>>

\* The rest of cleanupGameSession: the player goes by its character, whoever
\* registered it last, and whatever the tables hold for the address by now.
ExitedZone(a) ==
  /\ leaving[a] # NoPlayer
  /\ unregisterPlayer(objects[leaving[a]].character)
  /\ gameSessions' = [gameSessions EXCEPT ![a] = NoGame]
  /\ extSessions' = [extSessions EXCEPT ![a] = None]
  /\ leaving' = [leaving EXCEPT ![a] = NoPlayer]
  /\ UNCHANGED <<sessionVars, op>>

EndSession(s) ==
  /\ RemoveSession(s)
  /\ cleanupGameSession(soe[s].address)
  /\ UNCHANGED <<movementVars, gameSessions>>

\* The client disconnects or times out, or the server gives it up.
Disconnect(s) ==
  /\ Connected(s)
  /\ MayEnd(s, Handler)
  /\ EndSession(s)
  /\ UNCHANGED op

\* disconnectSession, called by a handler on the Session it was started for.
Reject(h) ==
  /\ MayEnd(op[h].session, Handler \ {h})
  /\ IF Connected(op[h].session) THEN EndSession(op[h].session)
     ELSE UNCHANGED <<sessionVars, movementVars, extSessions, gameSessions, leaving>>
  /\ Return(h)

-----------------------------------------------------------------------------
(* handleClientIdMsg: getSession(token), then the client is authenticated. *)

ClientIdMsg(h, s) ==
  /\ Settled
  /\ op[h] = Idle /\ Connected(s)
  /\ op' = [op EXCEPT ![h] = Call("getSession", s, Idle.character)]
  /\ UNCHANGED <<sessionVars, movementVars, extSessions, gameSessions, leaving>>

Authenticated(h) ==
  /\ op[h].pc = "getSession"
  /\ extSessions' = [extSessions EXCEPT ![soe[op[h].session].address] = op[h].session]
  /\ Return(h)
  /\ UNCHANGED <<sessionVars, movementVars, gameSessions, leaving>>

InvalidToken(h) == op[h].pc = "getSession" /\ Reject(h)

-----------------------------------------------------------------------------
(* handleSelectCharacter and loadAndZoneIn: updateSession, then            *)
(* findByIdWithRelations; nothing of the server is read between the two.   *)
(* The call goes on with the Session of the authenticated client it found  *)
(* under the address.                                                      *)

SelectCharacter(h, s, c) ==
  LET ext == extSessions[soe[s].address] IN
  /\ Settled
  /\ op[h] = Idle /\ Connected(s)
  /\ ext # None
  /\ op' = [op EXCEPT ![h] = Call("findCharacter", ext, c)]
  /\ UNCHANGED <<sessionVars, movementVars, extSessions, gameSessions, leaving>>

\* The character is not in the game and its client not in it with another.
FirstLogin(s, c) ==
  players[c] = NoPlayer /\ gameSessions[soe[s].address].session # s

ZoneIn(h, x) ==
  LET s == op[h].session
      c == op[h].character
  IN  /\ op[h].pc = "findCharacter"
      /\ Len(objects) < MaxZoneIns
      /\ Relogin \/ FirstLogin(s, c)
      /\ registerPlayer(c, x)
      /\ gameSessions' = [gameSessions EXCEPT ![soe[s].address] =
                            [session |-> s, player |-> Len(objects) + 1]]
      /\ Return(h)
      /\ UNCHANGED <<sessionVars, extSessions, leaving>>

CharacterNotFound(h) == op[h].pc = "findCharacter" /\ Reject(h)

\* handleSwgMessage with a movement message of a connected client: the game
\* session is looked up by address.
DataTransform(s, x) ==
  LET a == soe[s].address IN
  /\ Settled
  /\ Connected(s)
  /\ InGame(a)
  /\ updatePlayerPosition(gameSessions[a].player, x)
  /\ UNCHANGED <<sessionVars, serverVars>>

-----------------------------------------------------------------------------
Next ==
  \/ \E a \in Address : Connect(a) \/ ExitedZone(a)
  \/ \E s \in SessionIds :
       \/ Disconnect(s)
       \/ \E x \in Cell : DataTransform(s, x)
       \/ \E h \in Handler :
            \/ ClientIdMsg(h, s)
            \/ \E c \in Character : SelectCharacter(h, s, c)
  \/ \E h \in Handler :
       \/ Authenticated(h) \/ InvalidToken(h) \/ CharacterNotFound(h)
       \/ \E x \in Cell : ZoneIn(h, x)

Spec == Init /\ [][Next]_vars

-----------------------------------------------------------------------------
(* Properties. *)

\* The server's tables hold what the code can put there.
TypeOK ==
  /\ SessionsTypeOK /\ MovementTypeOK
  /\ extSessions \in [Address -> {None} \cup SessionIds]
  /\ gameSessions \in [Address -> {NoGame} \cup
                         [session : SessionIds, player : DOMAIN objects]]
  /\ leaving \in [Address -> {NoPlayer} \cup DOMAIN objects]
  /\ op \in [Handler -> [pc : {"idle", "getSession", "findCharacter"},
                         session : {None} \cup SessionIds, character : Character]]

\* Whoever is in the game is registered with the movement handler, by the
\* PlayerObject of its own game session: it is seen by others and sees them.
PlayingIsRegistered ==
  \A a \in Address : InGame(a) =>
    players[objects[gameSessions[a].player].character] = gameSessions[a].player

\* Whoever is registered is in the game, through a Session that is connected
\* or whose cleanup is under way: nobody is left standing in the world when
\* its client has gone.
RegisteredIsPlaying ==
  \A c \in Character : players[c] # NoPlayer =>
    \E a \in Address :
      /\ gameSessions[a].player = players[c]
      /\ Connected(gameSessions[a].session) \/ leaving[a] = players[c]

\* What a client sends is handled in the name of the Session it was sent on:
\* the client that was authenticated and zoned in under an address is the
\* one now connected from it.
OwnIdentity ==
  \A a \in Address : sessions[a] # None =>
    /\ extSessions[a] \in {None, sessions[a]}
    /\ gameSessions[a].session \in {None, sessions[a]}
=============================================================================
