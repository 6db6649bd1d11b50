-------------------------- MODULE ConnectionServer --------------------------
(***************************************************************************)
(* The connection server, apps/connection-server/src/server.ts with        *)
(* handlers/connection-handler.ts, over SessionManager (SoeSessions).  It  *)
(* checks the session token of a client, announces the client on the       *)
(* pub/sub bus, routes it to a game server and, when the client goes,      *)
(* announces that and revokes the token.  All of this awaits Redis, and    *)
(* is kept under the client's address.                                     *)
(*                                                                         *)
(* A ConnectionSession and its ClientSession are made together and are one *)
(* entry here.  A call of SessionStore is one step (SessionStore.tla has   *)
(* its commands).  What nothing reads is left out: ClientSession.state,    *)
(* lastActivity (an idle scan may find any client idle: nothing refreshes  *)
(* it after the authentication) and connectionIdToSession.                 *)
(***************************************************************************)
EXTENDS SoeSessions, FiniteSets

CONSTANTS
  Token,       \* session tokens, each of an account of its own
  Handler,     \* the calls in flight
  MaxCalls     \* bound on the calls that packets and timers start, the tokens
               \* revoked elsewhere and the failures of Redis, all together

NoToken == "none"

ASSUME ConnectionAssumption == MaxCalls \in Nat /\ NoToken \notin Token

VARIABLES
  entries,            \* every ConnectionSession made so far
  connectionSessions, \* the entry of an address, or None
  clients,            \* ConnectionHandler.sessions: the entry of an address, or None
  redis,              \* the tokens that have a session in Redis
  bus,                \* what was published about each token, in order
  calls,              \* how many of those a behaviour has had
  op                  \* the calls in flight, each at the await it is in

tables == <<entries, connectionSessions, clients>>
vars == <<sessionVars, tables, redis, bus, calls, op>>

-----------------------------------------------------------------------------
\* token is the ClientSession's; sessionToken, which comes later, is that of an
\* authenticated ConnectionSession.
NewEntry(s) ==
  [session |-> s, token |-> NoToken, sessionToken |-> NoToken,
   receivedConnectionOpen |-> FALSE, sentPostAuthPackets |-> FALSE,
   sentPostSelectPackets |-> FALSE]

\* pc names the answer the call waits for, entry is the one it works on, drop
\* says whether a cleanup takes the entry out of connectionSessions in the
\* end, and idle holds what a scan has still to disconnect.
Call(pc, e, t, drop, idle) ==
  [pc |-> pc, entry |-> e, token |-> t, drop |-> drop, idle |-> idle]

Idle == Call("idle", None, NoToken, FALSE, {})

Entries == 1 .. Len(entries)

AddressOf(e) == soe[entries[e].session].address

Init ==
  /\ SessionsInit
  /\ entries = <<>>
  /\ connectionSessions = [a \in Address |-> None]
  /\ clients = [a \in Address |-> None]
  /\ redis = Token
  /\ bus = [t \in Token |-> <<>>]
  /\ calls = 0
  /\ op = [h \in Handler |-> Idle]

At(h, pc) == op[h].pc = pc
Goto(h, pc) == op' = [op EXCEPT ![h].pc = pc]
Return(h) == op' = [op EXCEPT ![h] = Idle]

Counted == calls < MaxCalls /\ calls' = calls + 1

Publish(t, what) == bus' = [bus EXCEPT ![t] = Append(@, what)]

-----------------------------------------------------------------------------
(* getConnectionSession: the entry of the address if there is one, whatever *)
(* Session it was made for; otherwise a new one, in both tables.            *)

EntryOf(s, a) ==
  IF connectionSessions[a] # None THEN connectionSessions[a] ELSE Len(entries) + 1

\* Mutant of Tracked: the new entry is not kept.
NotTracked(s, a) == entries

Tracked(s, a) ==
  IF connectionSessions[a] # None THEN entries ELSE Append(entries, NewEntry(s))

Track(s, a) ==
  /\ connectionSessions' = [connectionSessions EXCEPT ![a] = EntryOf(s, a)]
  /\ clients' = IF connectionSessions[a] # None THEN clients
                ELSE [clients EXCEPT ![a] = EntryOf(s, a)]

\* A SessionRequest and 'session:connected'.
Connect(a) ==
  /\ ProcessSessionRequest(a)
  /\ entries' = Tracked(Len(soe) + 1, a)
  /\ Track(Len(soe) + 1, a)
  /\ UNCHANGED <<redis, bus, calls, op>>

-----------------------------------------------------------------------------
(* The end of a client. *)

\* handleDisconnect for the entry e, up to its first await or, for a client
\* without a token, to its end; it goes on as call h.  An entry that has no
\* token leaves the tables before the next packet is read.
HandleDisconnect(h, e, drop, idle) ==
  LET a == AddressOf(e)
      t == entries[e].token
  IN  IF t # NoToken
      THEN /\ op' = [op EXCEPT ![h] = Call("publishGone", e, t, drop, idle)]
           /\ UNCHANGED <<connectionSessions, clients>>
      ELSE /\ clients' = [clients EXCEPT ![a] = None]
           /\ connectionSessions' = IF drop THEN [connectionSessions EXCEPT ![a] = None]
                                    ELSE connectionSessions
           /\ op' = [op EXCEPT ![h] = IF idle = {} THEN Idle
                                      ELSE Call("nextIdle", e, NoToken, FALSE, idle)]

\* cleanupConnectionSession, by the key of the Session that ended.
CleanupConnectionSession(h, a) ==
  IF connectionSessions[a] = None
  THEN Return(h) /\ UNCHANGED <<connectionSessions, clients>>
  ELSE HandleDisconnect(h, connectionSessions[a], TRUE, {})

\* The client disconnects or times out, or the server gives it up.
Disconnect(h, s) ==
  /\ op[h] = Idle
  /\ Connected(s)
  /\ RemoveSession(s)
  /\ CleanupConnectionSession(h, soe[s].address)
  /\ UNCHANGED <<entries, redis, bus, calls>>

\* disconnectSession, called by a handler on the Session of its entry.
Reject(h) ==
  LET s == entries[op[h].entry].session IN
  /\ IF Connected(s)
     THEN RemoveSession(s) /\ CleanupConnectionSession(h, soe[s].address)
     ELSE Return(h) /\ UNCHANGED <<sessionVars, connectionSessions, clients>>
  /\ UNCHANGED entries

\* Mutant: player_disconnected is not published.
GoneSilently(h) ==
  /\ At(h, "publishGone")
  /\ op' = [op EXCEPT ![h].pc = "deleteGone", ![h].token = entries[op[h].entry].token]
  /\ UNCHANGED <<sessionVars, tables, redis, bus, calls>>

\* player_disconnected is out; the token to revoke is read from the client
\* now, not when the cleanup began.
PublishedGone(h) ==
  /\ At(h, "publishGone")
  /\ Publish(op[h].token, "disconnected")
  /\ op' = [op EXCEPT ![h].pc = "deleteGone", ![h].token = entries[op[h].entry].token]
  /\ UNCHANGED <<sessionVars, tables, redis, calls>>

\* Mutant of Forget: the entry stays in connectionSessions.
ForgetClient(h) ==
  /\ clients' = [clients EXCEPT ![AddressOf(op[h].entry)] = None]
  /\ op' = [op EXCEPT ![h] = IF op[h].idle = {} THEN Idle
                             ELSE Call("nextIdle", op[h].entry, NoToken, FALSE, op[h].idle)]
  /\ UNCHANGED <<sessionVars, entries, connectionSessions>>

\* Mutant of Forget: the client stays in the handler's table.
ForgetEntry(h) ==
  LET a == AddressOf(op[h].entry) IN
  /\ connectionSessions' = IF op[h].drop THEN [connectionSessions EXCEPT ![a] = None]
                           ELSE connectionSessions
  /\ op' = [op EXCEPT ![h] = IF op[h].idle = {} THEN Idle
                             ELSE Call("nextIdle", op[h].entry, NoToken, FALSE, op[h].idle)]
  /\ UNCHANGED <<sessionVars, entries, clients>>

\* The end of handleDisconnect and of cleanupConnectionSession: whatever the
\* tables hold for the address by now goes.
Forget(h) ==
  LET a == AddressOf(op[h].entry) IN
  /\ clients' = [clients EXCEPT ![a] = None]
  /\ connectionSessions' = IF op[h].drop THEN [connectionSessions EXCEPT ![a] = None]
                           ELSE connectionSessions
  /\ op' = [op EXCEPT ![h] = IF op[h].idle = {} THEN Idle
                             ELSE Call("nextIdle", op[h].entry, NoToken, FALSE, op[h].idle)]
  /\ UNCHANGED <<sessionVars, entries>>

\* Mutant: the token is left in Redis.
ForgetOnly(h) ==
  /\ At(h, "deleteGone")
  /\ Forget(h)
  /\ UNCHANGED <<redis, bus, calls>>

DeletedGone(h) ==
  /\ At(h, "deleteGone")
  /\ redis' = redis \ {op[h].token}
  /\ Forget(h)
  /\ UNCHANGED <<bus, calls>>

\* disconnectIdleSessions: the clients found idle are disconnected one after
\* the other; their SOE sessions and connectionSessions stay.
DisconnectIdleSessions(h, idle) ==
  /\ op[h] = Idle
  /\ idle # {}
  /\ Counted
  /\ op' = [op EXCEPT ![h] = Call("nextIdle", None, NoToken, FALSE, idle)]
  /\ UNCHANGED <<sessionVars, tables, redis, bus>>

NextIdle(h) ==
  /\ At(h, "nextIdle")
  /\ \E e \in op[h].idle : HandleDisconnect(h, e, FALSE, op[h].idle \ {e})
  /\ UNCHANGED <<sessionVars, entries, redis, bus, calls>>

-----------------------------------------------------------------------------
(* Packets: nothing else runs between the steps of a scan that await        *)
(* nothing.                                                                 *)

Settled == \A h \in Handler : ~At(h, "nextIdle")

IsAuthenticated(e) == e.sessionToken # NoToken

\* sendPostAuthPackets of an entry.
Released(e) == [e EXCEPT !.sentPostAuthPackets =
                  @ \/ (IsAuthenticated(e) /\ e.receivedConnectionOpen)]

\* handleConnectionOpen.
ConnectionOpen(s) ==
  LET a == soe[s].address IN
  /\ Connected(s)
  /\ Track(s, a)
  /\ entries' = [Tracked(s, a) EXCEPT ![EntryOf(s, a)] =
                   Released([@ EXCEPT !.receivedConnectionOpen = TRUE])]
  /\ UNCHANGED <<sessionVars, redis, bus, calls, op>>

\* handleClientIdMsg, with a token that is not empty.
ClientIdMsg(h, s, t) ==
  LET a == soe[s].address IN
  /\ op[h] = Idle /\ Connected(s)
  /\ Counted
  /\ Track(s, a)
  /\ entries' = Tracked(s, a)
  /\ op' = [op EXCEPT ![h] = Call("getSession", EntryOf(s, a), t, FALSE, {})]
  /\ UNCHANGED <<sessionVars, redis, bus>>

\* validateSession found the session; authenticateSession begins.
ValidToken(h) ==
  /\ At(h, "getSession")
  /\ op[h].token \in redis
  /\ entries' = [entries EXCEPT ![op[h].entry].token = op[h].token]
  /\ Goto(h, "updateSession")
  /\ UNCHANGED <<sessionVars, connectionSessions, clients, redis, bus, calls>>

\* validateSession found no session, or Redis failed.
InvalidToken(h) == At(h, "getSession") /\ Reject(h) /\ UNCHANGED <<redis, bus, calls>>

\* validateSession found a session that is too old.
ExpiredToken(h) ==
  /\ At(h, "getSession")
  /\ op[h].token \in redis
  /\ Goto(h, "deleteExpired")
  /\ UNCHANGED <<sessionVars, tables, redis, bus, calls>>

DeletedExpired(h) ==
  /\ At(h, "deleteExpired")
  /\ redis' = redis \ {op[h].token}
  /\ Reject(h)
  /\ UNCHANGED <<bus, calls>>

\* updateSession is content with a session that has gone.
Updated(h) ==
  /\ At(h, "updateSession")
  /\ Goto(h, "publishConnected")
  /\ UNCHANGED <<sessionVars, tables, redis, bus, calls>>

\* Mutant: the packets held back for ConnectionOpen are not released.
AuthenticatedOnly(h) ==
  /\ At(h, "publishConnected")
  /\ Publish(op[h].token, "connected")
  /\ entries' = [entries EXCEPT ![op[h].entry].sessionToken = op[h].token]
  /\ Return(h)
  /\ UNCHANGED <<sessionVars, connectionSessions, clients, redis, calls>>

\* Mutant: player_connected is not published.
AuthenticatedSilently(h) ==
  /\ At(h, "publishConnected")
  /\ entries' = [entries EXCEPT ![op[h].entry] =
                   Released([@ EXCEPT !.sessionToken = op[h].token])]
  /\ Return(h)
  /\ UNCHANGED <<sessionVars, connectionSessions, clients, redis, bus, calls>>

\* player_connected is out: the rest of handleClientIdMsg.
Authenticated(h) ==
  /\ At(h, "publishConnected")
  /\ Publish(op[h].token, "connected")
  /\ entries' = [entries EXCEPT ![op[h].entry] =
                   Released([@ EXCEPT !.sessionToken = op[h].token])]
  /\ Return(h)
  /\ UNCHANGED <<sessionVars, connectionSessions, clients, redis, calls>>

-----------------------------------------------------------------------------
(* handleSelectCharacter with routeToGameServer. *)

SelectCharacter(h, s) ==
  LET e == connectionSessions[soe[s].address] IN
  /\ op[h] = Idle /\ Connected(s)
  /\ e # None /\ IsAuthenticated(entries[e])
  /\ Counted
  /\ op' = [op EXCEPT ![h] = Call("select", e, NoToken, FALSE, {})]
  /\ UNCHANGED <<sessionVars, tables, redis, bus>>

\* A client that is not authenticated is disconnected, by the Session of its
\* entry; one that had no entry gets one and loses it at once.
RefuseSelect(h, s) ==
  LET a == soe[s].address
      e == connectionSessions[a]
      own == IF e = None THEN s ELSE entries[e].session
  IN  /\ op[h] = Idle /\ Connected(s)
      /\ e # None => ~IsAuthenticated(entries[e])
      /\ IF Connected(own) THEN RemoveSession(own) /\ CleanupConnectionSession(h, a)
         ELSE UNCHANGED <<sessionVars, connectionSessions, clients, op>>
      /\ UNCHANGED <<entries, redis, bus, calls>>

\* The session is updated; then a game server is assigned, in more awaits that
\* change nothing here, or there is none that is online with room.  What is
\* published is read when the await begins.
Selected(h) ==
  LET e == entries[op[h].entry] IN
  /\ At(h, "select")
  /\ \/ op' = [op EXCEPT ![h].pc = "publishRouted", ![h].token = e.token]
     \/ op' = [op EXCEPT ![h].pc = "publishZoneRequest", ![h].token = e.sessionToken]
  /\ UNCHANGED <<sessionVars, tables, redis, bus, calls>>

PublishedRouted(h) ==
  /\ At(h, "publishRouted")
  /\ Publish(op[h].token, "routed")
  /\ op' = [op EXCEPT ![h].pc = "publishZoneRequest",
                     ![h].token = entries[op[h].entry].sessionToken]
  /\ UNCHANGED <<sessionVars, tables, redis, calls>>

\* zone_request is out: chat and voice status are sent, once.
ZoneRequested(h) ==
  /\ At(h, "publishZoneRequest")
  /\ Publish(op[h].token, "zoneRequest")
  /\ entries' = [entries EXCEPT ![op[h].entry].sentPostSelectPackets = TRUE]
  /\ Return(h)
  /\ UNCHANGED <<sessionVars, connectionSessions, clients, redis, calls>>

\* A command of Redis fails: a cleanup goes on with what is local, any other
\* call is given up.
Failed(h) ==
  /\ op[h].pc \notin {"idle", "getSession", "nextIdle"}
  /\ Counted
  /\ IF op[h].pc = "deleteExpired" THEN Reject(h)
     ELSE IF op[h].pc \in {"publishGone", "deleteGone"} THEN Forget(h)
     ELSE Return(h) /\ UNCHANGED <<sessionVars, tables>>
  /\ UNCHANGED <<redis, bus>>

\* A login elsewhere revokes the token, or its TTL runs out.
Revoke(t) ==
  /\ t \in redis
  /\ Counted
  /\ redis' = redis \ {t}
  /\ UNCHANGED <<sessionVars, tables, bus, op>>

-----------------------------------------------------------------------------
Packet ==
  \/ \E a \in Address : Connect(a)
  \/ \E s \in SessionIds :
       \/ ConnectionOpen(s)
       \/ \E h \in Handler :
            \/ Disconnect(h, s)
            \/ \E t \in Token : ClientIdMsg(h, s, t)
            \/ SelectCharacter(h, s) \/ RefuseSelect(h, s)

Answer(h) ==
  \/ ValidToken(h) \/ InvalidToken(h) \/ ExpiredToken(h) \/ DeletedExpired(h)
  \/ Updated(h) \/ Authenticated(h)
  \/ Selected(h) \/ PublishedRouted(h) \/ ZoneRequested(h)
  \/ PublishedGone(h) \/ DeletedGone(h)

IdleScan(h) ==
  \E idle \in SUBSET {clients[a] : a \in Address} :
    None \notin idle /\ DisconnectIdleSessions(h, idle)

Next ==
  \/ Settled /\ Packet
  \/ Settled /\ \E h \in Handler : IdleScan(h)
  \/ \E h \in Handler : Answer(h) \/ NextIdle(h) \/ Failed(h)
  \/ \E t \in Token : Revoke(t)

Spec == Init /\ [][Next]_vars

-----------------------------------------------------------------------------
(* Properties. *)

PCs == {"idle", "getSession", "deleteExpired", "updateSession", "publishConnected",
        "select", "publishRouted", "publishZoneRequest", "publishGone", "deleteGone",
        "nextIdle"}

\* The tables, the entries and the calls hold what the code can put there.
TypeOK ==
  /\ SessionsTypeOK
  /\ entries \in Seq([session : SessionIds, token : Token \cup {NoToken},
                      sessionToken : Token \cup {NoToken}, receivedConnectionOpen : BOOLEAN,
                      sentPostAuthPackets : BOOLEAN, sentPostSelectPackets : BOOLEAN])
  /\ connectionSessions \in [Address -> {None} \cup Entries]
  /\ clients \in [Address -> {None} \cup Entries]
  /\ redis \subseteq Token
  /\ bus \in [Token -> Seq({"connected", "routed", "zoneRequest", "disconnected"})]
  /\ calls \in 0 .. MaxCalls
  /\ op \in [Handler -> [pc : PCs, entry : {None} \cup Entries,
                         token : Token \cup {NoToken}, drop : BOOLEAN,
                         idle : SUBSET Entries]]

\* The post-auth packets the client waits for go out once it is authenticated
\* and has sent ConnectionOpen, in whichever order the two happen, and never
\* before: no order of the answers leaves a client hanging.
PostAuthReleased ==
  \A e \in Entries :
    entries[e].sentPostAuthPackets <=>
      IsAuthenticated(entries[e]) /\ entries[e].receivedConnectionOpen

\* The handler's table is part of the server's: whatever deletes an address
\* from the one table late leaves no ClientSession behind that no
\* disconnection of its client would reach.
ClientsTracked ==
  \A a \in Address : clients[a] # None => clients[a] = connectionSessions[a]
=============================================================================
