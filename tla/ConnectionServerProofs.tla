----------------------- MODULE ConnectionServerProofs -----------------------
(***************************************************************************)
(* Proofs about ConnectionServer: its tables stay in step, and the packets *)
(* a client waits for after it is authenticated are released in every      *)
(* order of the answers, for any addresses, tokens and calls in flight;    *)
(* and about ConnectionPresence: the clients of an address that has got    *)
(* into no race have entries of their own, the bus tells who is there, and *)
(* the tokens of those who have gone are revoked.                          *)
(***************************************************************************)
EXTENDS ConnectionPresence, TLAPS

-----------------------------------------------------------------------------
EntryOver(S) ==
  [session : S, token : Token \cup {NoToken}, sessionToken : Token \cup {NoToken},
   receivedConnectionOpen : BOOLEAN, sentPostAuthPackets : BOOLEAN,
   sentPostSelectPackets : BOOLEAN]

EntryRecord == EntryOver(SessionIds)

CallOver(E) ==
  [pc : PCs, entry : {None} \cup E, token : Token \cup {NoToken}, drop : BOOLEAN,
   idle : SUBSET E]

\* sentPostAuthPackets of one entry is what it should be.
ReleasedRight(e) ==
  e.sentPostAuthPackets <=> IsAuthenticated(e) /\ e.receivedConnectionOpen

\* A call, when the entries are E.  One that works on an entry has one, and one
\* that checks a token has a token: an entry that was authenticated never loses
\* its token again.
Fine(c, E) ==
  /\ c \in CallOver(E)
  /\ c.pc \notin {"idle", "nextIdle"} => c.entry \in E
  /\ c.pc \in {"getSession", "deleteExpired", "updateSession", "publishConnected"}
       => c.token \in Token

EntriesInv == entries \in Seq(EntryRecord) /\ \A e \in Entries : ReleasedRight(entries[e])

TablesInv ==
  /\ connectionSessions \in [Address -> {None} \cup Entries]
  /\ clients \in [Address -> {None} \cup Entries]
  /\ ClientsTracked

CallsInv == op \in [Handler -> CallOver(Entries)] /\ \A h \in Handler : Fine(op[h], Entries)

OutsideInv ==
  /\ redis \subseteq Token
  /\ bus \in [Token -> Seq({"connected", "routed", "zoneRequest", "disconnected"})]
  /\ calls \in 0 .. MaxCalls

IInv == SessionsTypeOK /\ EntriesInv /\ TablesInv /\ CallsInv /\ OutsideInv

-----------------------------------------------------------------------------
(* Sequences. *)

LEMMA SeqSet ==
  ASSUME NEW S, NEW q \in Seq(S), NEW i \in 1 .. Len(q), NEW x \in S
  PROVE  /\ [q EXCEPT ![i] = x] \in Seq(S)
         /\ Len([q EXCEPT ![i] = x]) = Len(q)
         /\ \A j \in 1 .. Len(q) : [q EXCEPT ![i] = x][j] = IF j = i THEN x ELSE q[j]
OBVIOUS

LEMMA SeqAppend ==
  ASSUME NEW S, NEW q \in Seq(S), NEW x \in S
  PROVE  /\ Append(q, x) \in Seq(S)
         /\ Len(Append(q, x)) = Len(q) + 1
         /\ \A j \in 1 .. Len(q) + 1 : Append(q, x)[j] = IF j <= Len(q) THEN q[j] ELSE x
OBVIOUS

-----------------------------------------------------------------------------
(* The session table. *)

LEMMA ClosedTypes ==
  ASSUME SessionsTypeOK, NEW s \in {None} \cup SessionIds
  PROVE  Closed(s) \in Seq(Session) /\ Len(Closed(s)) = Len(soe)
<1> soe \in Seq(Session) BY DEF SessionsTypeOK
<1>1. CASE s = None
  BY <1>1 DEF Closed
<1>2. CASE s # None
  <2>1. s \in 1 .. Len(soe) /\ soe[s] \in Session
    BY <1>2 DEF SessionIds
  <2>2. [soe[s] EXCEPT !.state = "Disconnected"] \in Session
    BY <2>1 DEF Session
  <2>3. Closed(s) = [soe EXCEPT ![s] = [soe[s] EXCEPT !.state = "Disconnected"]]
    BY <1>2 DEF Closed
  <2> QED BY <2>1, <2>2, <2>3, SeqSet
<1> QED BY <1>1, <1>2

LEMMA RemoveTypes ==
  ASSUME SessionsTypeOK, NEW s \in SessionIds, RemoveSession(s)
  PROVE  SessionsTypeOK' /\ SessionIds' = SessionIds
<1> DEFINE a == soe[s].address
<1>1. soe[s] \in Session
  BY DEF SessionsTypeOK, SessionIds
<1>2. a \in Address /\ sessions[a] \in {None} \cup SessionIds
  BY <1>1 DEF SessionsTypeOK, Session
<1>3. sessions' = [sessions EXCEPT ![a] = None] /\ soe' = Closed(sessions[a])
  BY DEF RemoveSession
<1>4. soe' \in Seq(Session) /\ Len(soe') = Len(soe)
  BY <1>2, <1>3, ClosedTypes
<1> QED BY <1>2, <1>3, <1>4 DEF SessionsTypeOK, SessionIds

LEMMA RequestTypes ==
  ASSUME SessionsTypeOK, NEW a \in Address, ProcessSessionRequest(a)
  PROVE  SessionsTypeOK' /\ SessionIds \subseteq SessionIds' /\ Len(soe) + 1 \in SessionIds'
<1> DEFINE new == [address |-> a, state |-> "Connected"]
<1>1. new \in Session
  BY DEF Session
<1>2. Closed(sessions[a]) \in Seq(Session) /\ Len(Closed(sessions[a])) = Len(soe)
  <2>1. sessions[a] \in {None} \cup SessionIds
    BY DEF SessionsTypeOK
  <2> QED BY <2>1, ClosedTypes
<1>3. soe' = Append(Closed(sessions[a]), new) /\ sessions' = [sessions EXCEPT ![a] = Len(soe) + 1]
  BY DEF ProcessSessionRequest
<1>4. soe' \in Seq(Session) /\ Len(soe') = Len(soe) + 1 /\ Len(soe) \in Nat
  BY <1>1, <1>2, <1>3, SeqAppend DEF SessionsTypeOK
<1>5. SessionIds' = 1 .. Len(soe) + 1
  BY <1>4 DEF SessionIds
<1>6. sessions' \in [Address -> {None} \cup SessionIds']
  BY <1>3, <1>4, <1>5 DEF SessionsTypeOK, SessionIds
<1> QED BY <1>4, <1>5, <1>6 DEF SessionsTypeOK, SessionIds

LEMMA AddressTyped == ASSUME SessionsTypeOK, NEW s \in SessionIds PROVE soe[s].address \in Address
<1>1. soe[s] \in Session
  BY DEF SessionsTypeOK, SessionIds
<1> QED BY <1>1 DEF Session

LEMMA EntryTyped ==
  ASSUME EntriesInv, NEW e \in Entries
  PROVE  entries[e] \in EntryRecord /\ entries[e].session \in SessionIds
<1>1. entries[e] \in EntryRecord
  BY DEF EntriesInv, Entries
<1> QED BY <1>1 DEF EntryRecord, EntryOver

\* The entry of a call that works on one.
LEMMA CallTyped ==
  ASSUME CallsInv, NEW h \in Handler, op[h].pc \notin {"idle", "nextIdle"}
  PROVE  op[h].entry \in Entries
BY DEF CallsInv, Fine

\* SessionManager's part of every step.
LEMMA SessionsStep ==
  ASSUME IInv, Next
  PROVE  SessionsTypeOK' /\ SessionIds \subseteq SessionIds'
<1> SessionsTypeOK BY DEF IInv
<1> SUFFICES ASSUME ~UNCHANGED sessionVars
             PROVE  SessionsTypeOK' /\ SessionIds \subseteq SessionIds'
  BY DEF SessionsTypeOK, SessionIds, sessionVars
<1>1. ASSUME NEW a \in Address, Connect(a)
      PROVE  SessionsTypeOK' /\ SessionIds \subseteq SessionIds'
  BY <1>1, RequestTypes DEF Connect
<1>2. ASSUME NEW h \in Handler, NEW s \in SessionIds, Disconnect(h, s) PROVE SessionsTypeOK' /\ SessionIds \subseteq SessionIds'
  BY <1>2, RemoveTypes DEF Disconnect
<1>3. ASSUME NEW h \in Handler, NEW s \in SessionIds, RefuseSelect(h, s)
      PROVE  SessionsTypeOK' /\ SessionIds \subseteq SessionIds'
  <2> DEFINE e == connectionSessions[soe[s].address]
             own == IF e = None THEN s ELSE entries[e].session
  <2>1. RemoveSession(own)
    BY <1>3 DEF RefuseSelect, sessionVars
  <2>2. soe[s].address \in Address
    BY AddressTyped
  <2>3. e # None => e \in Entries
    BY <2>2 DEF IInv, TablesInv
  <2>4. own \in SessionIds
    BY <2>3, EntryTyped DEF IInv
  <2> QED BY <2>1, <2>4, RemoveTypes
<1>4. ASSUME NEW h \in Handler, op[h].pc \notin {"idle", "nextIdle"}, Reject(h)
      PROVE  SessionsTypeOK' /\ SessionIds \subseteq SessionIds'
  <2>1. RemoveSession(entries[op[h].entry].session)
    BY <1>4 DEF Reject, sessionVars
  <2>2. entries[op[h].entry].session \in SessionIds
    BY <1>4, CallTyped, EntryTyped DEF IInv
  <2> QED BY <2>1, <2>2, RemoveTypes
<1>5. ASSUME NEW h \in Handler, Answer(h) PROVE SessionsTypeOK' /\ SessionIds \subseteq SessionIds'
  <2>1. InvalidToken(h) \/ DeletedExpired(h)
    BY <1>5 DEF Answer, ValidToken, ExpiredToken, Updated, Authenticated, Selected, PublishedRouted,
                ZoneRequested, PublishedGone, DeletedGone, Forget, sessionVars
  <2> QED BY <1>4, <2>1 DEF InvalidToken, DeletedExpired, At
<1>6. ASSUME NEW h \in Handler, Failed(h) PROVE SessionsTypeOK' /\ SessionIds \subseteq SessionIds'
  BY <1>4, <1>6 DEF Failed, Forget, sessionVars
<1> QED BY <1>1, <1>2, <1>3, <1>5, <1>6
        DEF Next, Packet, IdleScan, ConnectionOpen, ClientIdMsg, SelectCharacter,
            DisconnectIdleSessions, NextIdle, Revoke, sessionVars

-----------------------------------------------------------------------------
(* The entries.  Good(q, S) is what EntriesInv asks of the next state, in    *)
(* which the Sessions are S.                                                *)

Good(q, S) == /\ q \in Seq(EntryOver(S)) /\ Entries \subseteq 1 .. Len(q)
              /\ \A e \in 1 .. Len(q) : ReleasedRight(q[e])

LEMMA StaysGood ==
  ASSUME EntriesInv, NEW S, SessionIds \subseteq S
  PROVE  Good(entries, S)
<1>1. EntryRecord \subseteq EntryOver(S)
  BY DEF EntryRecord, EntryOver
<1>2. entries \in Seq(EntryOver(S))
  BY <1>1 DEF EntriesInv
<1> QED BY <1>2 DEF EntriesInv, Entries, Good

LEMMA NewEntryRight ==
  ASSUME NEW S, NEW s \in S
  PROVE  NewEntry(s) \in EntryOver(S) /\ ReleasedRight(NewEntry(s))
BY DEF NewEntry, EntryOver, ReleasedRight, IsAuthenticated

\* sendPostAuthPackets sets right what its caller has disturbed.
LEMMA ReleasedIsRight ==
  ASSUME NEW S, NEW e \in EntryOver(S),
         e.sentPostAuthPackets => IsAuthenticated(e) /\ e.receivedConnectionOpen
  PROVE  Released(e) \in EntryOver(S) /\ ReleasedRight(Released(e))
BY DEF Released, EntryOver, ReleasedRight, IsAuthenticated

LEMMA GoodSet ==
  ASSUME NEW S, NEW q, Good(q, S), NEW e \in 1 .. Len(q), NEW x \in EntryOver(S),
         ReleasedRight(x)
  PROVE  Good([q EXCEPT ![e] = x], S)
<1>1. q \in Seq(EntryOver(S))
  BY DEF Good
<1> QED BY <1>1, SeqSet DEF Good

\* getConnectionSession adds an entry, or none.
LEMMA TrackedGood ==
  ASSUME EntriesInv, NEW S, SessionIds \subseteq S, NEW s \in S, NEW a
  PROVE  Good(Tracked(s, a), S)
<1>1. Good(entries, S)
  BY StaysGood
<1>2. entries \in Seq(EntryOver(S)) /\ Len(entries) \in Nat
  BY <1>1 DEF Good
<1>3. CASE connectionSessions[a] # None
  BY <1>1, <1>3 DEF Tracked
<1>4. CASE connectionSessions[a] = None
  <2>1. Tracked(s, a) = Append(entries, NewEntry(s))
    BY <1>4 DEF Tracked
  <2>2. /\ Tracked(s, a) \in Seq(EntryOver(S))
        /\ Len(Tracked(s, a)) = Len(entries) + 1
        /\ \A e \in 1 .. Len(entries) + 1 :
             Tracked(s, a)[e] = IF e <= Len(entries) THEN entries[e] ELSE NewEntry(s)
    BY <1>2, <2>1, NewEntryRight, SeqAppend
  <2>3. \A e \in 1 .. Len(entries) + 1 : ReleasedRight(Tracked(s, a)[e])
    BY <1>1, <1>2, <2>2, NewEntryRight DEF Good
  <2> QED BY <1>2, <2>2, <2>3 DEF Good, Entries
<1> QED BY <1>3, <1>4

LEMMA EntryOfTyped ==
  ASSUME EntriesInv, TablesInv, NEW s, NEW a \in Address
  PROVE  EntryOf(s, a) \in 1 .. Len(Tracked(s, a))
<1>1. Len(entries) \in Nat /\ connectionSessions[a] \in {None} \cup Entries
  BY DEF EntriesInv, TablesInv
<1>2. CASE connectionSessions[a] # None
  BY <1>1, <1>2 DEF Tracked, EntryOf, Entries
<1>3. CASE connectionSessions[a] = None
  <2>1. Len(Append(entries, NewEntry(s))) = Len(entries) + 1
    BY DEF EntriesInv
  <2> QED BY <1>1, <1>3, <2>1 DEF Tracked, EntryOf
<1> QED BY <1>2, <1>3

\* The steps of a call that change its entry.
LEMMA ChangeGood ==
  ASSUME IInv, NEW e \in Entries, NEW t \in Token
  PROVE  /\ Good([entries EXCEPT ![e].token = t], SessionIds)
         /\ Good([entries EXCEPT ![e] = Released([@ EXCEPT !.sessionToken = t])], SessionIds)
<1> DEFINE x == [entries[e] EXCEPT !.token = t]
           y == [entries[e] EXCEPT !.sessionToken = t]
<1>1. Good(entries, SessionIds) /\ e \in 1 .. Len(entries)
  BY StaysGood DEF IInv, Entries
<1>2. entries[e] \in EntryOver(SessionIds) /\ ReleasedRight(entries[e])
  BY EntryTyped DEF IInv, EntriesInv, EntryRecord
<1>3. x \in EntryOver(SessionIds) /\ ReleasedRight(x)
  BY <1>2 DEF EntryOver, ReleasedRight, IsAuthenticated
<1>4. Released(y) \in EntryOver(SessionIds) /\ ReleasedRight(Released(y))
  <2>1. y \in EntryOver(SessionIds) /\ IsAuthenticated(y)
    BY <1>2, ConnectionAssumption DEF EntryOver, IsAuthenticated
  <2>2. y.sentPostAuthPackets => y.receivedConnectionOpen
    BY <1>2 DEF EntryOver, ReleasedRight
  <2> QED BY <2>1, <2>2, ReleasedIsRight
<1>5. /\ Good([entries EXCEPT ![e] = x], SessionIds)
      /\ Good([entries EXCEPT ![e] = Released(y)], SessionIds)
  BY <1>1, <1>3, <1>4, GoodSet
<1> QED BY <1>5

\* ConnectionOpen changes the entry of its address.
LEMMA OpenGood ==
  ASSUME IInv, NEW s \in SessionIds, ConnectionOpen(s)
  PROVE  Good(entries', SessionIds)
<1> DEFINE a == soe[s].address
           q == Tracked(s, a)
           e == EntryOf(s, a)
           x == [q[e] EXCEPT !.receivedConnectionOpen = TRUE]
<1>1. Good(q, SessionIds) /\ e \in 1 .. Len(q)
  BY AddressTyped, TrackedGood, EntryOfTyped DEF IInv
<1>2. q[e] \in EntryOver(SessionIds) /\ ReleasedRight(q[e])
  <2>1. q \in Seq(EntryOver(SessionIds))
    BY <1>1 DEF Good
  <2> QED BY <1>1, <2>1 DEF Good
<1>3. /\ x \in EntryOver(SessionIds)
      /\ x.sentPostAuthPackets => IsAuthenticated(x) /\ x.receivedConnectionOpen
  BY <1>2 DEF EntryOver, ReleasedRight, IsAuthenticated
<1>4. Good([q EXCEPT ![e] = Released(x)], SessionIds)
  BY <1>1, <1>3, ReleasedIsRight, GoodSet
<1>5. entries' = [q EXCEPT ![e] = Released(x)]
  BY DEF ConnectionOpen
<1> QED BY <1>4, <1>5

\* Every step leaves good entries.
LEMMA EntriesStep == ASSUME IInv, Next PROVE Good(entries', SessionIds')
<1>1. SessionIds \subseteq SessionIds'
  BY SessionsStep
<1>2. CASE entries' = entries
  BY <1>1, <1>2, StaysGood DEF IInv
<1>3. ASSUME NEW q, Good(q, SessionIds), sessionVars' = sessionVars, entries' = q
      PROVE  Good(entries', SessionIds')
  BY <1>3 DEF sessionVars, SessionIds
<1>4. ASSUME NEW a \in Address, Connect(a) PROVE Good(entries', SessionIds')
  <2>1. Len(soe) + 1 \in SessionIds'
    BY <1>4, RequestTypes DEF Connect, IInv
  <2> QED BY <1>1, <1>4, <2>1, TrackedGood DEF Connect, IInv
<1>5. ASSUME NEW s \in SessionIds, ConnectionOpen(s) PROVE Good(entries', SessionIds')
  BY <1>3, <1>5, OpenGood DEF ConnectionOpen
<1>6. ASSUME NEW h \in Handler, NEW s \in SessionIds, NEW t \in Token, ClientIdMsg(h, s, t)
      PROVE  Good(entries', SessionIds')
  <2>1. Good(Tracked(s, soe[s].address), SessionIds)
    BY TrackedGood DEF IInv
  <2> QED BY <1>3, <1>6, <2>1 DEF ClientIdMsg
<1>7. ASSUME NEW h \in Handler, ValidToken(h) \/ Authenticated(h) \/ ZoneRequested(h)
      PROVE  Good(entries', SessionIds')
  <2>1. op[h].entry \in Entries
    BY <1>7, CallTyped DEF ValidToken, Authenticated, ZoneRequested, At, IInv
  <2>2. CASE ValidToken(h)
    <3>1. op[h].token \in Token
      BY <2>2 DEF ValidToken, At, IInv, CallsInv, Fine
    <3> QED BY <1>3, <2>1, <2>2, <3>1, ChangeGood DEF ValidToken
  <2>3. CASE Authenticated(h)
    <3>1. op[h].token \in Token
      BY <2>3 DEF Authenticated, At, IInv, CallsInv, Fine
    <3> QED BY <1>3, <2>1, <2>3, <3>1, ChangeGood DEF Authenticated
  <2>4. CASE ZoneRequested(h)
    <3>1. Good([entries EXCEPT ![op[h].entry].sentPostSelectPackets = TRUE], SessionIds)
      <4> DEFINE z == [entries[op[h].entry] EXCEPT !.sentPostSelectPackets = TRUE]
      <4>1. entries[op[h].entry] \in EntryOver(SessionIds) /\ ReleasedRight(entries[op[h].entry])
        BY <2>1, EntryTyped DEF IInv, EntriesInv, EntryRecord
      <4>2. z \in EntryOver(SessionIds) /\ ReleasedRight(z)
        BY <4>1 DEF EntryOver, ReleasedRight, IsAuthenticated
      <4>3. Good(entries, SessionIds) /\ op[h].entry \in 1 .. Len(entries)
        BY <2>1, StaysGood DEF IInv, Entries
      <4> QED BY <4>2, <4>3, GoodSet
    <3> QED BY <1>3, <2>4, <3>1 DEF ZoneRequested
  <2> QED BY <1>7, <2>2, <2>3, <2>4
<1>8. ASSUME NEW h \in Handler, Answer(h), entries' # entries PROVE Good(entries', SessionIds')
  BY <1>7, <1>8 DEF Answer, InvalidToken, ExpiredToken, DeletedExpired, Updated, Selected,
                    PublishedRouted, PublishedGone, DeletedGone, Reject, Forget, tables
<1>9. ASSUME NEW h \in Handler, Failed(h) PROVE entries' = entries
  BY <1>9 DEF Failed, Reject, Forget, tables
<1> QED BY <1>2, <1>4, <1>5, <1>6, <1>8, <1>9
        DEF Next, Packet, IdleScan, Disconnect, SelectCharacter, RefuseSelect,
            DisconnectIdleSessions, NextIdle, Revoke, tables

-----------------------------------------------------------------------------
(* The tables.                                                              *)

Kept == UNCHANGED <<connectionSessions, clients>>

\* An address loses its client, and with it, or before it, its entry.
Dropped ==
  \E a : /\ clients' = [clients EXCEPT ![a] = None]
         /\ connectionSessions' \in {connectionSessions, [connectionSessions EXCEPT ![a] = None]}

LEMMA HandleDisconnectDrops ==
  ASSUME NEW h, NEW e, NEW drop, NEW idle, HandleDisconnect(h, e, drop, idle)
  PROVE  Kept \/ Dropped
BY DEF HandleDisconnect, Kept, Dropped

LEMMA CleanupDrops ==
  ASSUME NEW h, NEW a, CleanupConnectionSession(h, a)
  PROVE  Kept \/ Dropped
BY HandleDisconnectDrops DEF CleanupConnectionSession, Kept

LEMMA RejectDrops == ASSUME NEW h, Reject(h) PROVE Kept \/ Dropped
BY CleanupDrops DEF Reject, Kept

LEMMA ForgetDrops == ASSUME NEW h, Forget(h) PROVE Dropped
BY DEF Forget, Dropped

LEMMA DroppedTables ==
  ASSUME TablesInv, Entries \subseteq Entries', Kept \/ Dropped
  PROVE  TablesInv'
<1>1. CASE Kept
  BY <1>1 DEF Kept, TablesInv, ClientsTracked
<1>2. CASE Dropped
  BY <1>2 DEF Dropped, TablesInv, ClientsTracked
<1> QED BY <1>1, <1>2

\* getConnectionSession adds an entry to both tables.
LEMMA TrackTables ==
  ASSUME TablesInv, NEW s, NEW a \in Address, Track(s, a), Entries \subseteq Entries',
         EntryOf(s, a) \in Entries'
  PROVE  TablesInv'
BY DEF Track, TablesInv, ClientsTracked, EntryOf

\* getConnectionSession, for a Session of the address.
Tracks(s, a) ==
  /\ Track(s, a)
  /\ soe'[s].address = a
  /\ Len(entries') = Len(Tracked(s, a))
  /\ connectionSessions[a] = None => entries'[EntryOf(s, a)].session = s

LEMMA ConnectTracks == ASSUME IInv, NEW a \in Address, Connect(a) PROVE Tracks(Len(soe) + 1, a)
<1> DEFINE s == Len(soe) + 1
           new == [address |-> a, state |-> "Connected"]
<1>1. soe' = Append(Closed(sessions[a]), new)
  BY DEF Connect, ProcessSessionRequest
<1>2. Closed(sessions[a]) \in Seq(Session) /\ Len(Closed(sessions[a])) = Len(soe)
  BY ClosedTypes DEF IInv, SessionsTypeOK
<1>3. soe'[s] = new
  BY <1>1, <1>2 DEF Session
<1>4. entries \in Seq(EntryRecord) /\ entries' = Tracked(s, a)
  BY DEF IInv, EntriesInv, Connect
<1>5. connectionSessions[a] = None => entries'[EntryOf(s, a)].session = s
  BY <1>4 DEF Tracked, EntryOf, NewEntry
<1> QED BY <1>3, <1>4, <1>5 DEF Connect, Tracks

LEMMA OpenTracks ==
  ASSUME IInv, NEW s \in SessionIds, ConnectionOpen(s)
  PROVE  Tracks(s, soe[s].address)
<1> DEFINE a == soe[s].address
           q == Tracked(s, a)
           n == EntryOf(s, a)
           x == Released([q[n] EXCEPT !.receivedConnectionOpen = TRUE])
<1>1. q \in Seq(EntryOver(SessionIds)) /\ n \in 1 .. Len(q)
  BY AddressTyped, EntryOfTyped, TrackedGood DEF IInv, Good
<1>2. entries' = [q EXCEPT ![n] = x]
  BY DEF ConnectionOpen
<1>3. x.session = q[n].session
  BY <1>1 DEF Released, EntryOver
<1>4. entries \in Seq(EntryRecord)
  BY DEF IInv, EntriesInv
<1>5. connectionSessions[a] = None => q[n].session = s
  BY <1>4 DEF Tracked, EntryOf, NewEntry
<1> HIDE DEF x, q, n
<1>6. Len(entries') = Len(q) /\ entries'[n].session = q[n].session
  BY <1>1, <1>2, <1>3
<1> QED BY <1>5, <1>6 DEF ConnectionOpen, Tracks, sessionVars, q, n

LEMMA ClientIdTracks ==
  ASSUME IInv, NEW h \in Handler, NEW s \in SessionIds, NEW t \in Token, ClientIdMsg(h, s, t)
  PROVE  Tracks(s, soe[s].address)
<1>1. entries \in Seq(EntryRecord)
  BY DEF IInv, EntriesInv
<1>2. connectionSessions[soe[s].address] = None =>
        entries'[EntryOf(s, soe[s].address)].session = s
  BY <1>1 DEF ClientIdMsg, Tracked, EntryOf, NewEntry
<1> QED BY <1>2 DEF ClientIdMsg, Tracks, sessionVars

\* What a step does to the tables.
LEMMA TablesEffect ==
  ASSUME IInv, Next
  PROVE  Kept \/ Dropped \/ \E s : \E a \in Address : Tracks(s, a)
<1>1. ASSUME NEW h \in Handler, NEW s \in SessionIds,
             Disconnect(h, s) \/ SelectCharacter(h, s) \/ RefuseSelect(h, s)
      PROVE  Kept \/ Dropped
  BY <1>1, CleanupDrops DEF Disconnect, SelectCharacter, RefuseSelect, tables, Kept
<1>2. ASSUME NEW h \in Handler, Answer(h) PROVE Kept \/ Dropped
  <2>1. CASE InvalidToken(h) \/ DeletedExpired(h)
    BY <2>1, RejectDrops DEF InvalidToken, DeletedExpired
  <2>2. CASE DeletedGone(h)
    BY <2>2, ForgetDrops DEF DeletedGone
  <2>3. CASE \/ ValidToken(h) \/ ExpiredToken(h) \/ Updated(h) \/ Authenticated(h) \/ Selected(h)
             \/ PublishedRouted(h) \/ ZoneRequested(h) \/ PublishedGone(h)
    BY <2>3 DEF ValidToken, ExpiredToken, Updated, Authenticated, Selected, PublishedRouted,
                ZoneRequested, PublishedGone, tables, Kept
  <2> QED BY <1>2, <2>1, <2>2, <2>3 DEF Answer
<1>3. ASSUME NEW h \in Handler, NextIdle(h) \/ Failed(h) \/ IdleScan(h) PROVE Kept \/ Dropped
  BY <1>3, HandleDisconnectDrops, RejectDrops, ForgetDrops
     DEF NextIdle, Failed, IdleScan, DisconnectIdleSessions, tables, Kept
<1>4. ASSUME NEW t \in Token, Revoke(t) PROVE Kept
  BY <1>4 DEF Revoke, tables, Kept
<1>5. \A s \in SessionIds : soe[s].address \in Address
  BY AddressTyped DEF IInv
<1> QED BY <1>1, <1>2, <1>3, <1>4, <1>5, ConnectTracks, OpenTracks, ClientIdTracks DEF Next, Packet

\* No step disturbs the tables.
LEMMA TablesStep == ASSUME IInv, Next PROVE TablesInv' /\ Entries \subseteq Entries'
<1>1. Entries \subseteq Entries'
  BY EntriesStep DEF Good, Entries
<1>2. ASSUME NEW s, NEW a \in Address, Tracks(s, a) PROVE TablesInv'
  BY <1>1, <1>2, EntryOfTyped, TrackTables DEF IInv, Entries, Tracks
<1>3. ASSUME Kept \/ Dropped PROVE TablesInv'
  BY <1>1, <1>3, DroppedTables DEF IInv
<1> QED BY <1>1, <1>2, <1>3, TablesEffect

-----------------------------------------------------------------------------
(* The calls.                                                               *)

LEMMA StaysFine == ASSUME NEW c, NEW E, NEW F, E \subseteq F, Fine(c, E) PROVE Fine(c, F)
BY DEF Fine, CallOver

LEMMA IdleFine == ASSUME NEW E PROVE Fine(Idle, E)
BY DEF Fine, CallOver, Idle, Call, PCs

\* A step that leaves the calls as they are but one, which is fine.
LEMMA OneCall ==
  ASSUME CallsInv, Entries \subseteq Entries', NEW h \in Handler, NEW c, Fine(c, Entries'),
         op' = [op EXCEPT ![h] = c]
  PROVE  CallsInv'
<1>1. \A g \in Handler : Fine(op[g], Entries')
  BY StaysFine DEF CallsInv
<1>2. op' \in [Handler -> CallOver(Entries')] /\ \A g \in Handler : Fine(op'[g], Entries')
  <2>1. DOMAIN op = Handler
    BY DEF CallsInv
  <2>2. \A g \in Handler : op'[g] = IF g = h THEN c ELSE op[g]
    BY <2>1
  <2>3. \A g \in Handler : Fine(op'[g], Entries')
    BY <1>1, <2>2
  <2>4. \A g \in Handler : op'[g] \in CallOver(Entries')
    BY <2>3 DEF Fine
  <2> QED BY <2>1, <2>3, <2>4
<1> QED BY <1>2 DEF CallsInv, Fine, CallOver

LEMMA DisconnectFine ==
  ASSUME IInv, NEW h \in Handler, NEW e \in Entries, NEW drop \in BOOLEAN,
         NEW idle \in SUBSET Entries, HandleDisconnect(h, e, drop, idle)
  PROVE  \E c : Fine(c, Entries) /\ op' = [op EXCEPT ![h] = c]
<1>1. entries[e] \in EntryRecord
  BY EntryTyped DEF IInv
<1>2. entries[e].token \in Token \cup {NoToken}
  BY <1>1 DEF EntryRecord, EntryOver
<1>3. CASE entries[e].token # NoToken
  <2> DEFINE c == Call("publishGone", e, entries[e].token, drop, idle)
  <2>1. Fine(c, Entries)
    BY <1>2 DEF Fine, CallOver, Call, PCs
  <2> QED BY <1>3, <2>1 DEF HandleDisconnect
<1>4. CASE entries[e].token = NoToken
  <2> DEFINE c == IF idle = {} THEN Idle ELSE Call("nextIdle", e, NoToken, FALSE, idle)
  <2>1. Fine(c, Entries)
    BY IdleFine DEF Fine, CallOver, Call, PCs
  <2> QED BY <1>4, <2>1 DEF HandleDisconnect
<1> QED BY <1>3, <1>4

LEMMA CleanupFine ==
  ASSUME IInv, NEW h \in Handler, NEW a \in Address, CleanupConnectionSession(h, a)
  PROVE  \E c : Fine(c, Entries) /\ op' = [op EXCEPT ![h] = c]
<1>1. CASE connectionSessions[a] = None
  BY <1>1, IdleFine DEF CleanupConnectionSession, Return
<1>2. CASE connectionSessions[a] # None
  <2>1. connectionSessions[a] \in Entries
    BY <1>2 DEF IInv, TablesInv
  <2>2. HandleDisconnect(h, connectionSessions[a], TRUE, {})
    BY <1>2 DEF CleanupConnectionSession
  <2>3. TRUE \in BOOLEAN /\ {} \in SUBSET Entries
    OBVIOUS
  <2> QED BY ONLY IInv, <2>1, <2>2, <2>3, DisconnectFine
<1> QED BY <1>1, <1>2

LEMMA RejectFine ==
  ASSUME IInv, NEW h \in Handler, op[h].pc \notin {"idle", "nextIdle"}, Reject(h)
  PROVE  \E c : Fine(c, Entries) /\ op' = [op EXCEPT ![h] = c]
<1>1. soe[entries[op[h].entry].session].address \in Address
  BY CallTyped, EntryTyped, AddressTyped DEF IInv
<1> QED BY <1>1, CleanupFine, IdleFine DEF Reject, Return

LEMMA ForgetFine ==
  ASSUME IInv, NEW h \in Handler, op[h].pc \notin {"idle", "nextIdle"}, Forget(h)
  PROVE  \E c : Fine(c, Entries) /\ op' = [op EXCEPT ![h] = c]
<1> DEFINE c == IF op[h].idle = {} THEN Idle
                ELSE Call("nextIdle", op[h].entry, NoToken, FALSE, op[h].idle)
<1>1. op[h].entry \in Entries /\ op[h].idle \in SUBSET Entries
  BY CallTyped DEF IInv, CallsInv, CallOver
<1>2. Fine(c, Entries)
  BY <1>1, IdleFine DEF Fine, CallOver, Call, PCs
<1>3. op' = [op EXCEPT ![h] = c]
  BY DEF Forget
<1> QED BY <1>2, <1>3

\* The answers that move a call to its next await, or end it.
LEMMA AnswerFine ==
  ASSUME IInv, NEW h \in Handler, Answer(h)
  PROVE  \E c : Fine(c, Entries) /\ op' = [op EXCEPT ![h] = c]
<1>1. op[h].pc \notin {"idle", "nextIdle"}
  BY DEF Answer, ValidToken, InvalidToken, ExpiredToken, DeletedExpired, Updated, Authenticated,
         Selected, PublishedRouted, ZoneRequested, PublishedGone, DeletedGone, At
<1>2. op[h].entry \in Entries /\ op[h] \in CallOver(Entries)
  BY <1>1, CallTyped DEF IInv, CallsInv
<1>3. entries[op[h].entry].token \in Token \cup {NoToken}
        /\ entries[op[h].entry].sessionToken \in Token \cup {NoToken}
  <2>1. entries[op[h].entry] \in EntryRecord
    BY <1>2, EntryTyped DEF IInv
  <2> QED BY <2>1 DEF EntryRecord, EntryOver
<1>4. CASE ValidToken(h) \/ ExpiredToken(h) \/ Updated(h)
  <2>1. PICK pc \in {"updateSession", "deleteExpired", "publishConnected"} :
          op' = [op EXCEPT ![h].pc = pc]
    BY <1>4 DEF ValidToken, ExpiredToken, Updated, Goto
  <2>2. op[h].token \in Token
    BY <1>4 DEF ValidToken, ExpiredToken, Updated, At, IInv, CallsInv, Fine
  <2>3. Fine([op[h] EXCEPT !.pc = pc], Entries)
    BY <1>2, <2>2 DEF Fine, CallOver, PCs
  <2> QED BY <2>1, <2>3
<1>5. CASE Authenticated(h) \/ ZoneRequested(h)
  BY <1>5, IdleFine DEF Authenticated, ZoneRequested, Return
<1>6. CASE Selected(h) \/ PublishedRouted(h) \/ PublishedGone(h)
  <2>1. PICK pc \in {"publishRouted", "publishZoneRequest", "deleteGone"},
             t \in Token \cup {NoToken} :
          op' = [op EXCEPT ![h].pc = pc, ![h].token = t]
    BY <1>3, <1>6 DEF Selected, PublishedRouted, PublishedGone
  <2>2. Fine([op[h] EXCEPT !.pc = pc, !.token = t], Entries)
    BY <1>2, <2>1 DEF Fine, CallOver, PCs
  <2> QED BY <2>1, <2>2
<1>7. CASE InvalidToken(h) \/ DeletedExpired(h)
  BY <1>1, <1>7, RejectFine DEF InvalidToken, DeletedExpired
<1>8. CASE DeletedGone(h)
  BY <1>1, <1>8, ForgetFine DEF DeletedGone
<1> QED BY <1>4, <1>5, <1>6, <1>7, <1>8 DEF Answer

\* No step leaves a call that knows less than it needs.
LEMMA CallsStep == ASSUME IInv, Next PROVE CallsInv'
<1>1. Entries \subseteq Entries'
  BY TablesStep
<1>2. CASE op' = op
  BY <1>1, <1>2, StaysFine DEF IInv, CallsInv, Fine
<1>3. ASSUME NEW h \in Handler, \E c : Fine(c, Entries) /\ op' = [op EXCEPT ![h] = c]
      PROVE  CallsInv'
  BY <1>1, <1>3, StaysFine, OneCall DEF IInv
<1>4. ASSUME NEW h \in Handler, NEW s \in SessionIds, NEW t \in Token, ClientIdMsg(h, s, t)
      PROVE  CallsInv'
  <2> DEFINE c == Call("getSession", EntryOf(s, soe[s].address), t, FALSE, {})
  <2>1. EntryOf(s, soe[s].address) \in Entries'
    BY <1>4, AddressTyped, EntryOfTyped DEF IInv, ClientIdMsg, Entries
  <2>2. Fine(c, Entries')
    BY <2>1 DEF Fine, CallOver, Call, PCs
  <2>3. op' = [op EXCEPT ![h] = c]
    BY <1>4 DEF ClientIdMsg
  <2> QED BY <1>1, <2>2, <2>3, OneCall DEF IInv
<1>5. ASSUME NEW h \in Handler, NEW s \in SessionIds,
             Disconnect(h, s) \/ RefuseSelect(h, s), op' # op
      PROVE  CallsInv'
  <2>1. soe[s].address \in Address /\ CleanupConnectionSession(h, soe[s].address)
    BY <1>5, AddressTyped DEF IInv, Disconnect, RefuseSelect
  <2> QED BY <1>3, <2>1, CleanupFine
<1>6. ASSUME NEW h \in Handler, NEW s \in SessionIds, SelectCharacter(h, s) PROVE CallsInv'
  <2> DEFINE e == connectionSessions[soe[s].address]
             c == Call("select", e, NoToken, FALSE, {})
  <2>1. e \in Entries
    BY <1>6, AddressTyped DEF IInv, TablesInv, SelectCharacter
  <2>2. Fine(c, Entries)
    BY <2>1 DEF Fine, CallOver, Call, PCs
  <2>3. op' = [op EXCEPT ![h] = c]
    BY <1>6 DEF SelectCharacter
  <2> QED BY <1>3, <2>2, <2>3
<1>7. ASSUME NEW h \in Handler, IdleScan(h) PROVE CallsInv'
  <2>1. PICK idle \in SUBSET {clients[a] : a \in Address} :
          None \notin idle /\ DisconnectIdleSessions(h, idle)
    BY <1>7 DEF IdleScan
  <2> DEFINE c == Call("nextIdle", None, NoToken, FALSE, idle)
  <2>2. idle \in SUBSET Entries
    BY <2>1 DEF IInv, TablesInv
  <2>3. Fine(c, Entries)
    BY <2>2 DEF Fine, CallOver, Call, PCs
  <2>4. op' = [op EXCEPT ![h] = c]
    BY <2>1 DEF DisconnectIdleSessions
  <2> QED BY <1>3, <2>3, <2>4
<1>8. ASSUME NEW h \in Handler, Answer(h) PROVE CallsInv'
  BY <1>3, <1>8, AnswerFine
<1>9. ASSUME NEW h \in Handler, NextIdle(h) PROVE CallsInv'
  <2>1. PICK e \in op[h].idle : HandleDisconnect(h, e, FALSE, op[h].idle \ {e})
    BY <1>9 DEF NextIdle
  <2>2. e \in Entries /\ op[h].idle \ {e} \in SUBSET Entries
    BY <2>1 DEF IInv, CallsInv, CallOver
  <2> QED BY <1>3, <2>1, <2>2, DisconnectFine
<1>10. ASSUME NEW h \in Handler, Failed(h) PROVE CallsInv'
  <2>1. op[h].pc \notin {"idle", "nextIdle"}
    BY <1>10 DEF Failed
  <2>2. Reject(h) \/ Forget(h) \/ Return(h)
    BY <1>10 DEF Failed
  <2> QED BY <1>3, <2>1, <2>2, RejectFine, ForgetFine, IdleFine DEF Return
<1> QED BY <1>2, <1>4, <1>5, <1>6, <1>7, <1>8, <1>9, <1>10
        DEF Next, Packet, Connect, ConnectionOpen, Revoke

-----------------------------------------------------------------------------
(* Redis, the bus and the count of calls.                                   *)

Message == {"connected", "routed", "zoneRequest", "disconnected"}

\* All a step does outside: it is counted or not, takes tokens from Redis, and
\* publishes at most one message.
Outside ==
  /\ calls' = calls \/ Counted
  /\ redis' \subseteq redis
  /\ bus' = bus \/ \E t : \E what \in Message : Publish(t, what)

LEMMA PacketOutside == ASSUME Packet PROVE Outside
<1>1. ASSUME NEW a \in Address, Connect(a) PROVE Outside
  BY <1>1 DEF Connect, Outside
<1>2. ASSUME NEW s \in SessionIds, ConnectionOpen(s) PROVE Outside
  BY <1>2 DEF ConnectionOpen, Outside
<1>3. ASSUME NEW h \in Handler, NEW s \in SessionIds,
             Disconnect(h, s) \/ SelectCharacter(h, s) \/ RefuseSelect(h, s)
      PROVE  Outside
  BY <1>3 DEF Disconnect, SelectCharacter, RefuseSelect, Outside
<1>4. ASSUME NEW h \in Handler, NEW s \in SessionIds, NEW t \in Token, ClientIdMsg(h, s, t)
      PROVE  Outside
  BY <1>4 DEF ClientIdMsg, Outside
<1> QED BY <1>1, <1>2, <1>3, <1>4 DEF Packet

LEMMA AnswerOutside == ASSUME NEW h \in Handler, Answer(h) PROVE Outside
<1>1. CASE ValidToken(h) \/ InvalidToken(h) \/ ExpiredToken(h) \/ DeletedExpired(h) \/ Updated(h)
  BY <1>1 DEF ValidToken, InvalidToken, ExpiredToken, DeletedExpired, Updated, Outside
<1>2. CASE Authenticated(h)
  BY <1>2 DEF Authenticated, Outside, Message
<1>3. CASE Selected(h) \/ DeletedGone(h)
  BY <1>3 DEF Selected, DeletedGone, Outside
<1>4. CASE PublishedRouted(h)
  BY <1>4 DEF PublishedRouted, Outside, Message
<1>5. CASE ZoneRequested(h)
  BY <1>5 DEF ZoneRequested, Outside, Message
<1>6. CASE PublishedGone(h)
  BY <1>6 DEF PublishedGone, Outside, Message
<1> QED BY <1>1, <1>2, <1>3, <1>4, <1>5, <1>6 DEF Answer

LEMMA OutsideStep == ASSUME IInv, Next PROVE OutsideInv'
<1>1. Outside
  <2>1. ASSUME NEW h \in Handler, IdleScan(h) PROVE Outside
    BY <2>1 DEF IdleScan, DisconnectIdleSessions, Outside
  <2>2. ASSUME NEW h \in Handler, NextIdle(h) \/ Failed(h) PROVE Outside
    BY <2>2 DEF NextIdle, Failed, Outside
  <2>3. ASSUME NEW t \in Token, Revoke(t) PROVE Outside
    BY <2>3 DEF Revoke, Outside
  <2> QED BY <2>1, <2>2, <2>3, PacketOutside, AnswerOutside DEF Next
<1>2. calls' \in 0 .. MaxCalls
  BY <1>1, ConnectionAssumption DEF IInv, OutsideInv, Outside, Counted
<1>3. redis' \subseteq Token
  BY <1>1 DEF IInv, OutsideInv, Outside
<1>4. bus' \in [Token -> Seq(Message)]
  <2>1. ASSUME NEW t, NEW what \in Message, Publish(t, what) PROVE bus' \in [Token -> Seq(Message)]
    <3>1. bus \in [Token -> Seq(Message)] /\ bus' = [bus EXCEPT ![t] = Append(@, what)]
      BY <2>1 DEF IInv, OutsideInv, Publish, Message
    <3>2. \A u \in Token : Append(bus[u], what) \in Seq(Message)
      BY <3>1
    <3> QED BY <3>1, <3>2
  <2> QED BY <1>1, <2>1 DEF IInv, OutsideInv, Outside, Message
<1> QED BY <1>2, <1>3, <1>4 DEF OutsideInv, Message

-----------------------------------------------------------------------------
LEMMA InvInit == Init => IInv
<1> SUFFICES ASSUME Init PROVE IInv
  OBVIOUS
<1>1. SessionsTypeOK
  BY DEF Init, SessionsInit, SessionsTypeOK, SessionIds, Session
<1>2. entries = <<>> /\ Entries = {}
  BY DEF Init, Entries
<1>3. EntriesInv
  BY <1>2 DEF EntriesInv
<1>4. TablesInv
  BY DEF Init, TablesInv, ClientsTracked
<1>5. CallsInv
  <2>1. \A h \in Handler : op[h] = Idle
    BY DEF Init
  <2> QED BY <2>1, IdleFine DEF Init, CallsInv, Fine
<1>6. OutsideInv
  BY ConnectionAssumption DEF Init, OutsideInv
<1> QED BY <1>1, <1>3, <1>4, <1>5, <1>6 DEF IInv

LEMMA InvStep == IInv /\ [Next]_vars => IInv'
<1> SUFFICES ASSUME IInv, [Next]_vars PROVE IInv'
  OBVIOUS
<1>1. CASE Next
  <2>1. EntriesInv'
    BY <1>1, EntriesStep DEF Good, EntriesInv, Entries, EntryRecord
  <2> QED BY <1>1, <2>1, SessionsStep, TablesStep, CallsStep, OutsideStep DEF IInv
<1>2. CASE UNCHANGED vars
  BY <1>2 DEF vars, sessionVars, tables, IInv, SessionsTypeOK, SessionIds, EntriesInv, EntryRecord,
              Entries, TablesInv, ClientsTracked, CallsInv, OutsideInv
<1> QED BY <1>1, <1>2

\* Every reachable state of the connection server satisfies the invariant.
THEOREM Invariant == Spec => []IInv
BY InvInit, InvStep, PTL DEF Spec

\* The server's tables, entries and calls keep their types, whatever arrives and
\* whatever Redis answers.
THEOREM TypeCorrect == Spec => []TypeOK
<1>1. IInv => TypeOK
  BY DEF IInv, TypeOK, EntriesInv, EntryRecord, EntryOver, TablesInv, CallsInv, CallOver, OutsideInv
<1> QED BY <1>1, Invariant, PTL

\* No order of ConnectionOpen and the answers of Redis leaves an authenticated
\* client without the packets it waits for, and none gets them before
\* (server.ts:376, :434, :501).
THEOREM NobodyHangs == Spec => []PostAuthReleased
<1>1. IInv => PostAuthReleased
  BY DEF IInv, EntriesInv, ReleasedRight, PostAuthReleased
<1> QED BY <1>1, Invariant, PTL

\* Whatever a late cleanup deletes, the handler's table never holds a client the
\* server's table does not (server.ts:612, connection-handler.ts:170).
THEOREM TablesAgree == Spec => []ClientsTracked
<1>1. IInv => ClientsTracked
  BY DEF IInv, TablesInv
<1> QED BY <1>1, Invariant, PTL

-----------------------------------------------------------------------------
(* Whose entry is whose (ConnectionPresence).                               *)

\* The entry of an address was made for a Session of that address.
Addressed ==
  \A a \in Address : connectionSessions[a] # None => AddressOf(connectionSessions[a]) = a

\* Whoever was found idle is troubled from then on.
IdleTroubled == \A h \in Handler : \A e \in op[h].idle : AddressOf(e) \in troubled

\* Call g cleans up after a client of address a.
CleansOf(g, a) == op[g].pc \in Cleaning /\ AddressOf(op[g].entry) = a

\* What is kept for an address: a cleanup is of a Session that has ended, and takes
\* the entry away; an entry left behind by a Session that has ended is being
\* cleaned up; and the entry of a Session that has not is its own.
RightAt(a) ==
  /\ \A g \in Handler : CleansOf(g, a) => op[g].drop /\ sessions[a] = None
  /\ sessions[a] = None /\ connectionSessions[a] # None => \E g \in Handler : CleansOf(g, a)
  /\ sessions[a] # None => /\ connectionSessions[a] # None
                           /\ entries[connectionSessions[a]].session = sessions[a]

PresenceInv ==
  /\ IInv /\ LiveIffMapped /\ Addressed /\ IdleTroubled
  /\ \A a \in Address \ troubled : RightAt(a)

\* What a step does to the session table.
LEMMA TableEffect ==
  ASSUME IInv, Next
  PROVE  \/ UNCHANGED sessionVars
         \/ \E a \in Address : ProcessSessionRequest(a)
         \/ \E s \in SessionIds : Connected(s) /\ RemoveSession(s)
<1> DEFINE Effect == \/ UNCHANGED sessionVars
                     \/ \E a \in Address : ProcessSessionRequest(a)
                     \/ \E s \in SessionIds : Connected(s) /\ RemoveSession(s)
<1>1. ASSUME NEW a \in Address, Connect(a) PROVE Effect
  BY <1>1 DEF Connect
<1>2. ASSUME NEW h \in Handler, NEW s \in SessionIds, Disconnect(h, s) PROVE Effect
  BY <1>2 DEF Disconnect
<1>3. ASSUME NEW h \in Handler, NEW s \in SessionIds, RefuseSelect(h, s) PROVE Effect
  <2>1. soe[s].address \in Address
    BY AddressTyped DEF IInv
  <2>2. connectionSessions[soe[s].address] # None =>
          entries[connectionSessions[soe[s].address]].session \in SessionIds
    BY <2>1, EntryTyped DEF IInv, TablesInv
  <2> QED BY <1>3, <2>2 DEF RefuseSelect
<1>4. ASSUME NEW h \in Handler, op[h].pc \notin {"idle", "nextIdle"}, Reject(h) PROVE Effect
  BY <1>4, CallTyped, EntryTyped DEF Reject, IInv
<1>5. ASSUME NEW h \in Handler, Answer(h) PROVE Effect
  BY <1>4, <1>5 DEF Answer, ValidToken, InvalidToken, ExpiredToken, DeletedExpired, Updated,
                    Authenticated, Selected, PublishedRouted, ZoneRequested, PublishedGone,
                    DeletedGone, Forget, At
<1>6. ASSUME NEW h \in Handler, Failed(h) PROVE Effect
  BY <1>4, <1>6 DEF Failed, Forget
<1> QED BY <1>1, <1>2, <1>3, <1>5, <1>6
        DEF Next, Packet, IdleScan, ConnectionOpen, ClientIdMsg, SelectCharacter,
            DisconnectIdleSessions, NextIdle, Revoke

\* Closing a Session changes its state and nothing else.
LEMMA ClosedState ==
  ASSUME SessionsTypeOK, NEW r \in {None} \cup SessionIds
  PROVE  \A s \in SessionIds :
           /\ Closed(r)[s].address = soe[s].address
           /\ Closed(r)[s].state = IF s = r THEN "Disconnected" ELSE soe[s].state
<1>1. soe \in Seq(Session)
  BY DEF SessionsTypeOK
<1>2. CASE r = None
  BY <1>1, <1>2 DEF Closed, SessionIds, None
<1>3. CASE r # None
  <2> DEFINE x == [soe[r] EXCEPT !.state = "Disconnected"]
  <2>1. r \in 1 .. Len(soe) /\ soe[r] \in Session
    BY <1>1, <1>3 DEF SessionIds
  <2>2. x \in Session /\ x.address = soe[r].address /\ x.state = "Disconnected"
    BY <2>1 DEF Session
  <2>3. Closed(r) = [soe EXCEPT ![r] = x]
    BY <1>3 DEF Closed
  <2> HIDE DEF x
  <2> QED BY <1>1, <2>1, <2>2, <2>3, SeqSet DEF SessionIds
<1> QED BY <1>2, <1>3

\* A Session never changes its address, does not come back to life, and is bound to
\* its address as long as it is connected.
LEMMA MappedStep ==
  ASSUME IInv, LiveIffMapped, Next
  PROVE  /\ LiveIffMapped'
         /\ \A s \in SessionIds :
              soe'[s].address = soe[s].address /\ (~Connected(s) => ~Connected(s)')
<1> DEFINE Goal == /\ LiveIffMapped'
                   /\ \A s \in SessionIds :
                        soe'[s].address = soe[s].address /\ (~Connected(s) => ~Connected(s)')
<1>1. /\ SessionsTypeOK /\ soe \in Seq(Session) /\ Len(soe) \in Nat
      /\ sessions \in [Address -> {None} \cup SessionIds]
      /\ \A s \in SessionIds : soe[s].address \in Address
  BY AddressTyped DEF IInv, SessionsTypeOK
<1>2. /\ \A s \in SessionIds : soe[s].state = "Connected" <=> sessions[soe[s].address] = s
      /\ \A b \in Address : sessions[b] # None => soe[sessions[b]].address = b
  BY DEF LiveIffMapped, Connected
<1>3. CASE UNCHANGED sessionVars
  BY <1>3 DEF sessionVars, LiveIffMapped, SessionIds, Connected
<1>4. ASSUME NEW a \in Address, ProcessSessionRequest(a) PROVE Goal
  <2> DEFINE new == [address |-> a, state |-> "Connected"]
             n == Len(soe) + 1
  <2>1. \A s \in SessionIds :
          /\ Closed(sessions[a])[s].address = soe[s].address
          /\ Closed(sessions[a])[s].state = IF s = sessions[a] THEN "Disconnected" ELSE soe[s].state
    BY <1>1, ClosedState
  <2>2. Closed(sessions[a]) \in Seq(Session) /\ Len(Closed(sessions[a])) = Len(soe)
    BY <1>1, ClosedTypes
  <2>3. /\ soe' = Append(Closed(sessions[a]), new) /\ new \in Session
        /\ sessions' = [sessions EXCEPT ![a] = n]
    BY <1>4 DEF ProcessSessionRequest, Session
  <2>4. /\ Len(soe') = n
        /\ \A s \in SessionIds : soe'[s] = Closed(sessions[a])[s]
        /\ soe'[n] = new
    BY <1>1, <2>2, <2>3, SeqAppend DEF SessionIds
  <2>5. \A s \in SessionIds :
          /\ soe'[s].address = soe[s].address
          /\ soe'[s].state = IF s = sessions[a] THEN "Disconnected" ELSE soe[s].state
    BY <2>1, <2>4
  <2>6. /\ sessions'[a] = n /\ \A b \in Address \ {a} : sessions'[b] = sessions[b]
        /\ SessionIds' = SessionIds \cup {n} /\ n \notin SessionIds
        /\ soe'[n].address = a /\ soe'[n].state = "Connected"
    BY <1>1, <2>3, <2>4 DEF SessionIds
  <2>7. ASSUME NEW s \in SessionIds
        PROVE  soe'[s].state = "Connected" <=> sessions'[soe'[s].address] = s
    <3>1. CASE soe[s].address = a
      BY <1>2, <2>5, <2>6, <3>1
    <3>2. CASE soe[s].address # a
      <4>1. s # sessions[a] /\ sessions'[soe'[s].address] = sessions[soe[s].address]
        BY <1>1, <1>2, <2>5, <2>6, <3>2 DEF SessionIds, None
      <4> QED BY <1>2, <2>5, <4>1
    <3> QED BY <3>1, <3>2
  <2>8. \A b \in Address : sessions'[b] # None => soe'[sessions'[b]].address = b
    BY <1>1, <1>2, <2>5, <2>6
  <2> HIDE DEF n, new
  <2>9. LiveIffMapped'
    BY <2>6, <2>7, <2>8 DEF LiveIffMapped, Connected
  <2> QED BY <2>5, <2>9 DEF Connected
<1>5. ASSUME NEW r \in SessionIds, Connected(r), RemoveSession(r) PROVE Goal
  <2>1. sessions[soe[r].address] = r /\ r # None
    BY <1>1, <1>2, <1>5 DEF Connected, SessionIds, None
  <2>2. soe' = Closed(r) /\ sessions' = [sessions EXCEPT ![soe[r].address] = None]
    BY <1>5, <2>1 DEF RemoveSession
  <2>3. /\ SessionIds' = SessionIds
        /\ \A s \in SessionIds :
             /\ soe'[s].address = soe[s].address
             /\ soe'[s].state = IF s = r THEN "Disconnected" ELSE soe[s].state
    BY <1>1, <1>5, <2>2, ClosedState, RemoveTypes
  <2>4. /\ sessions'[soe[r].address] = None
        /\ \A b \in Address \ {soe[r].address} : sessions'[b] = sessions[b]
    BY <1>1, <2>2
  <2>5. ASSUME NEW s \in SessionIds
        PROVE  soe'[s].state = "Connected" <=> sessions'[soe'[s].address] = s
    <3>1. s # None
      BY <1>1 DEF SessionIds, None
    <3>2. CASE soe[s].address = soe[r].address
      BY <1>2, <2>1, <2>3, <2>4, <3>1, <3>2
    <3>3. CASE soe[s].address # soe[r].address
      BY <1>1, <1>2, <2>3, <2>4, <3>3
    <3> QED BY <3>2, <3>3
  <2>6. \A b \in Address : sessions'[b] # None => soe'[sessions'[b]].address = b
    BY <1>1, <1>2, <2>3, <2>4
  <2> QED BY <2>3, <2>5, <2>6 DEF LiveIffMapped, Connected
<1> QED BY <1>3, <1>4, <1>5, TableEffect

\* An entry keeps the Session it was made for.
LEMMA EntryStays ==
  ASSUME IInv, Next, NEW e \in Entries
  PROVE  e \in Entries' /\ entries'[e].session = entries[e].session
<1> DEFINE Stays == entries'[e].session = entries[e].session
<1>1. e \in Entries' /\ entries \in Seq(EntryRecord) /\ e \in 1 .. Len(entries)
  BY TablesStep DEF IInv, EntriesInv, Entries
<1>2. ASSUME NEW s, NEW a PROVE Tracked(s, a)[e] = entries[e] /\ e \in DOMAIN Tracked(s, a)
  BY <1>1 DEF Tracked
<1>3. ASSUME NEW a \in Address, Connect(a) PROVE Stays
  BY <1>2, <1>3 DEF Connect
<1>4. ASSUME NEW s \in SessionIds, ConnectionOpen(s) PROVE Stays
  <2> DEFINE q == Tracked(s, soe[s].address)
             n == EntryOf(s, soe[s].address)
             x == Released([q[n] EXCEPT !.receivedConnectionOpen = TRUE])
  <2>1. entries' = [q EXCEPT ![n] = x]
    BY <1>4 DEF ConnectionOpen
  <2>2. x.session = q[n].session
    <3>1. n \in 1 .. Len(q) /\ q \in Seq(EntryOver(SessionIds))
      BY AddressTyped, EntryOfTyped, TrackedGood DEF IInv, Good
    <3> QED BY <3>1 DEF Released, EntryOver
  <2> HIDE DEF x, n
  <2>3. q[e] = entries[e] /\ e \in DOMAIN q
    BY <1>2
  <2> HIDE DEF q
  <2> QED BY <2>1, <2>2, <2>3
<1>5. ASSUME NEW h \in Handler, NEW s \in SessionIds, NEW t \in Token, ClientIdMsg(h, s, t)
      PROVE  Stays
  BY <1>2, <1>5 DEF ClientIdMsg
<1>6. CASE entries' = entries
  BY <1>1, <1>6
<1>7. ASSUME NEW h \in Handler, Answer(h) PROVE Stays
  <2>1. CASE ValidToken(h) \/ Authenticated(h) \/ ZoneRequested(h)
    <3>1. PICK x : x.session = entries[op[h].entry].session
                   /\ entries' = [entries EXCEPT ![op[h].entry] = x]
      <4>1. op[h].entry \in Entries
        BY <2>1, CallTyped DEF IInv, ValidToken, Authenticated, ZoneRequested, At
      <4>2. entries[op[h].entry] \in EntryRecord
        BY <4>1, EntryTyped DEF IInv
      <4> QED BY <2>1, <4>2 DEF ValidToken, Authenticated, ZoneRequested, Released, EntryRecord, EntryOver
    <3> QED BY <1>1, <3>1
  <2>2. CASE entries' = entries
    BY <2>2
  <2> QED BY <1>7, <2>1, <2>2 DEF Answer, InvalidToken, ExpiredToken, DeletedExpired, Updated,
             Selected, PublishedRouted, PublishedGone, DeletedGone, Reject, Forget, tables
<1>8. ASSUME NEW h \in Handler, Failed(h) PROVE entries' = entries
  BY <1>8 DEF Failed, Reject, Forget, tables
<1> QED BY <1>1, <1>3, <1>4, <1>5, <1>6, <1>7, <1>8
        DEF Next, Packet, IdleScan, Disconnect, SelectCharacter, RefuseSelect,
            DisconnectIdleSessions, NextIdle, Revoke, tables

\* So it keeps its address.
LEMMA AddressStays ==
  ASSUME IInv, LiveIffMapped, Next, NEW e \in Entries
  PROVE  AddressOf(e)' = AddressOf(e) /\ AddressOf(e) \in Address
<1>1. entries'[e].session = entries[e].session /\ entries[e].session \in SessionIds
  BY EntryStays, EntryTyped DEF IInv
<1>2. soe[entries[e].session].address \in Address
  BY <1>1, AddressTyped DEF IInv
<1> QED BY <1>1, <1>2, MappedStep DEF AddressOf

\* Every entry in the table is still, or becomes, one of its address.
LEMMA AddressedStep == ASSUME IInv, LiveIffMapped, Addressed, Next PROVE Addressed'
<1> SUFFICES ASSUME NEW b \in Address, NEW e, e = connectionSessions'[b], e # None
             PROVE  AddressOf(e)' = b
  BY DEF Addressed, AddressOf
<1>1. /\ connectionSessions \in [Address -> {None} \cup Entries]
      /\ connectionSessions[b] # None => AddressOf(connectionSessions[b]) = b
  BY DEF IInv, TablesInv, Addressed
<1>2. CASE connectionSessions'[b] = connectionSessions[b]
  <2>1. e \in Entries /\ AddressOf(e) = b
    BY <1>1, <1>2
  <2> QED BY <2>1, AddressStays
<1>3. CASE Kept \/ Dropped
  BY <1>1, <1>2, <1>3 DEF Kept, Dropped
<1>4. ASSUME NEW t, NEW a \in Address, Tracks(t, a), connectionSessions'[b] # connectionSessions[b]
      PROVE  AddressOf(e)' = b
  <2>1. a = b /\ connectionSessions[a] = None /\ e = EntryOf(t, a)
    BY <1>1, <1>4 DEF Tracks, Track, EntryOf
  <2>2. entries'[e].session = t /\ soe'[t].address = a
    BY <1>4, <2>1 DEF Tracks
  <2> QED BY <2>1, <2>2 DEF AddressOf
<1> QED BY <1>2, <1>3, <1>4, TablesEffect

-----------------------------------------------------------------------------
(* The clients found idle. *)

\* What a scan has still to disconnect becomes no more, unless it begins.
LEMMA IdleShrinks ==
  ASSUME IInv, Next, NEW g \in Handler, ~\E h \in Handler : IdleScan(h)
  PROVE  op'[g].idle \subseteq op[g].idle
<1>1. DOMAIN op = Handler /\ op \in [Handler -> CallOver(Entries)]
  BY DEF IInv, CallsInv
<1>2. ASSUME NEW h \in Handler, NEW c, op' = [op EXCEPT ![h] = c], c.idle \subseteq op[h].idle
      PROVE  op'[g].idle \subseteq op[g].idle
  BY <1>1, <1>2
<1>3. ASSUME NEW h \in Handler, NEW e, NEW drop, NEW idle, idle \subseteq op[h].idle,
             HandleDisconnect(h, e, drop, idle)
      PROVE  op'[g].idle \subseteq op[g].idle
  BY <1>2, <1>3 DEF HandleDisconnect, Call, Idle
<1>4. ASSUME NEW h \in Handler, Return(h) PROVE op'[g].idle \subseteq op[g].idle
  BY <1>2, <1>4 DEF Return, Idle, Call
<1>5. ASSUME NEW h \in Handler, NEW a, CleanupConnectionSession(h, a)
      PROVE  op'[g].idle \subseteq op[g].idle
  BY <1>3, <1>4, <1>5 DEF CleanupConnectionSession
<1>6. ASSUME NEW h \in Handler, Reject(h) PROVE op'[g].idle \subseteq op[g].idle
  BY <1>4, <1>5, <1>6 DEF Reject
<1>7. ASSUME NEW h \in Handler, Forget(h) PROVE op'[g].idle \subseteq op[g].idle
  BY <1>2, <1>7 DEF Forget, Call, Idle
<1>8. CASE Packet
  BY <1>2, <1>5, <1>8 DEF Packet, Connect, ConnectionOpen, Disconnect, ClientIdMsg,
                          SelectCharacter, RefuseSelect, Call
<1>9. ASSUME NEW h \in Handler, Answer(h) PROVE op'[g].idle \subseteq op[g].idle
  <2>1. CASE InvalidToken(h) \/ DeletedExpired(h) \/ DeletedGone(h) \/ Authenticated(h)
             \/ ZoneRequested(h)
    BY <1>4, <1>6, <1>7, <2>1
       DEF InvalidToken, DeletedExpired, DeletedGone, Authenticated, ZoneRequested
  <2>2. CASE ValidToken(h) \/ ExpiredToken(h) \/ Updated(h)
    <3>1. PICK pc : op' = [op EXCEPT ![h].pc = pc]
      BY <2>2 DEF ValidToken, ExpiredToken, Updated, Goto
    <3>2. [op[h] EXCEPT !.pc = pc].idle = op[h].idle
      BY <1>1 DEF CallOver
    <3> QED BY <1>1, <3>1, <3>2
  <2>3. CASE Selected(h) \/ PublishedRouted(h) \/ PublishedGone(h)
    <3>1. PICK pc, t : op' = [op EXCEPT ![h].pc = pc, ![h].token = t]
      BY <2>3 DEF Selected, PublishedRouted, PublishedGone
    <3>2. [op[h] EXCEPT !.pc = pc, !.token = t].idle = op[h].idle
      BY <1>1 DEF CallOver
    <3> QED BY <1>1, <3>1, <3>2
  <2> QED BY <1>9, <2>1, <2>2, <2>3 DEF Answer
<1>10. ASSUME NEW h \in Handler, NextIdle(h) \/ Failed(h) PROVE op'[g].idle \subseteq op[g].idle
  BY <1>3, <1>4, <1>6, <1>7, <1>10 DEF NextIdle, Failed
<1>11. ASSUME NEW t \in Token, Revoke(t) PROVE op'[g].idle \subseteq op[g].idle
  BY <1>11 DEF Revoke
<1> QED BY <1>8, <1>9, <1>10, <1>11 DEF Next

\* Trouble is remembered.
LEMMA TroubleKnown ==
  ASSUME PresenceNext
  PROVE  /\ Next /\ troubled \subseteq troubled'
         /\ \A a \in Address : TroubleInStep(a) \/ FoundIdle(a)' => a \in troubled'
BY DEF PresenceNext, Trouble

LEMMA IdleStep == ASSUME PresenceInv, PresenceNext PROVE IdleTroubled'
<1> SUFFICES ASSUME NEW g \in Handler, NEW e \in op'[g].idle PROVE AddressOf(e)' \in troubled'
  BY DEF IdleTroubled
<1>1. Next /\ troubled \subseteq troubled' /\ IInv /\ LiveIffMapped
  BY TroubleKnown DEF PresenceInv
<1>2. \A f \in op[g].idle : f \in Entries /\ AddressOf(f) \in troubled
  BY DEF PresenceInv, IInv, CallsInv, CallOver, IdleTroubled
<1>3. CASE e \in op[g].idle
  BY <1>1, <1>2, <1>3, AddressStays
<1>4. CASE ~\E h \in Handler : IdleScan(h)
  BY <1>1, <1>3, <1>4, IdleShrinks
<1>5. ASSUME NEW h \in Handler, IdleScan(h) PROVE AddressOf(e)' \in troubled'
  <2>1. PICK idle \in SUBSET {clients[a] : a \in Address} :
          None \notin idle /\ DisconnectIdleSessions(h, idle)
    BY <1>5 DEF IdleScan
  <2>2. idle \subseteq Entries
    BY <1>1, <2>1 DEF IInv, TablesInv
  <2>3. op' = [op EXCEPT ![h] = Call("nextIdle", None, NoToken, FALSE, idle)] /\ DOMAIN op = Handler
    BY <1>1, <2>1 DEF DisconnectIdleSessions, IInv, CallsInv
  <2>4. CASE g # h
    BY <1>3, <2>3, <2>4
  <2>5. CASE g = h
    <3>1. op'[g].pc = "nextIdle" /\ e \in idle /\ e \in Entries
      BY <2>2, <2>3, <2>5 DEF Call
    <3>2. PICK a \in Address : AddressOf(e)' = a
      BY <1>1, <3>1, AddressStays
    <3>3. FoundIdle(a)'
      BY <3>1, <3>2 DEF FoundIdle
    <3> QED BY <3>2, <3>3, TroubleKnown
  <2> QED BY <2>4, <2>5
<1> QED BY <1>4, <1>5

-----------------------------------------------------------------------------
(* What is kept for an address nobody has troubled. *)

\* A call that a step does not touch goes on cleaning up the same address.
LEMMA OtherCalls ==
  ASSUME IInv, LiveIffMapped, Next, NEW g \in Handler, op'[g] = op[g], NEW a
  PROVE  CleansOf(g, a)' <=> CleansOf(g, a)
<1>1. CASE op[g].pc \in Cleaning
  <2>1. PICK e \in Entries : op[g].entry = e
    BY <1>1, CallTyped DEF IInv, Cleaning
  <2>2. op'[g].entry = e /\ AddressOf(e)' = AddressOf(e)
    BY <2>1, AddressStays
  <2>3. AddressOf(op[g].entry)' = AddressOf(op[g].entry)
    BY <2>1, <2>2 DEF AddressOf
  <2> QED BY <2>3 DEF CleansOf
<1>2. CASE op[g].pc \notin Cleaning
  BY <1>2 DEF CleansOf
<1> QED BY <1>1, <1>2

\* A step that leaves what is kept for an address alone, and the calls but one,
\* which cleans up after the address as before or did not and does not.
LEMMA QuietStep ==
  ASSUME PresenceInv, Next, NEW a \in Address \ troubled, NEW h \in Handler,
         \A g \in Handler \ {h} : op'[g] = op[g],
         CleansOf(h, a)' <=> CleansOf(h, a), CleansOf(h, a) => op'[h].drop = op[h].drop,
         sessions'[a] = sessions[a], connectionSessions'[a] = connectionSessions[a]
  PROVE  RightAt(a)'
<1>1. IInv /\ LiveIffMapped /\ RightAt(a)
  BY DEF PresenceInv
<1>2. \A g \in Handler : (CleansOf(g, a)' <=> CleansOf(g, a)) /\ (CleansOf(g, a) => op'[g].drop = op[g].drop)
  BY <1>1, OtherCalls
<1>3. connectionSessions[a] # None =>
        entries'[connectionSessions[a]].session = entries[connectionSessions[a]].session
  BY <1>1, EntryStays DEF IInv, TablesInv
<1> QED BY <1>1, <1>2, <1>3 DEF RightAt

\* A step of a call that is no cleanup, before or after.
LEMMA PassingStep ==
  ASSUME PresenceInv, Next, NEW a \in Address \ troubled, NEW h \in Handler, NEW c,
         op' = [op EXCEPT ![h] = c], op[h].pc \notin Cleaning, c.pc \notin Cleaning,
         sessions'[a] = sessions[a], connectionSessions'[a] = connectionSessions[a]
  PROVE  RightAt(a)'
<1>1. DOMAIN op = Handler
  BY DEF PresenceInv, IInv, CallsInv
<1>2. op'[h] = c /\ \A g \in Handler \ {h} : op'[g] = op[g]
  BY <1>1
<1>3. ~CleansOf(h, a) /\ ~CleansOf(h, a)'
  BY <1>2 DEF CleansOf
<1> QED BY <1>2, <1>3, QuietStep

\* A step of no call.
LEMMA CallsAside ==
  ASSUME PresenceInv, Next, NEW a \in Address \ troubled, UNCHANGED op,
         sessions'[a] = sessions[a], connectionSessions'[a] = connectionSessions[a]
  PROVE  RightAt(a)'
<1>1. IInv /\ LiveIffMapped /\ RightAt(a)
  BY DEF PresenceInv
<1>2. \A g \in Handler : CleansOf(g, a)' <=> CleansOf(g, a)
  BY <1>1, OtherCalls
<1>3. connectionSessions[a] # None =>
        entries'[connectionSessions[a]].session = entries[connectionSessions[a]].session
  BY <1>1, EntryStays DEF IInv, TablesInv
<1> QED BY <1>1, <1>2, <1>3 DEF RightAt

\* A connected Session ends and its client is cleaned up after.
LEMMA EndRight ==
  ASSUME PresenceInv, Next, NEW a \in Address \ troubled, NEW h \in Handler,
         NEW s \in SessionIds, Connected(s), RemoveSession(s), op[h].pc \notin Cleaning,
         CleanupConnectionSession(h, soe[s].address)
  PROVE  RightAt(a)'
<1> DEFINE b == soe[s].address
           e == connectionSessions[b]
<1>1. /\ IInv /\ LiveIffMapped /\ Addressed /\ RightAt(a)
      /\ op \in [Handler -> CallOver(Entries)]
      /\ sessions \in [Address -> {None} \cup SessionIds]
      /\ connectionSessions \in [Address -> {None} \cup Entries]
  BY DEF PresenceInv, IInv, CallsInv, SessionsTypeOK, TablesInv
<1>2. b \in Address /\ sessions[b] = s /\ s # None
  BY <1>1, AddressTyped DEF IInv, LiveIffMapped, SessionIds, None
<1>3. sessions' = [sessions EXCEPT ![b] = None]
  BY DEF RemoveSession
<1>4. PICK c :
        /\ op' = [op EXCEPT ![h] = c]
        /\ c.pc \in Cleaning => c.entry = e /\ e # None /\ c.drop
        /\ connectionSessions'[b] # None => c.pc \in Cleaning
        /\ \A d \in Address \ {b} : connectionSessions'[d] = connectionSessions[d]
  <2>1. CASE e = None
    BY <1>1, <1>2, <2>1 DEF CleanupConnectionSession, Return, Idle, Call, Cleaning
  <2>2. CASE e # None /\ entries[e].token # NoToken
    <3> DEFINE c == Call("publishGone", e, entries[e].token, TRUE, {})
    <3>1. op' = [op EXCEPT ![h] = c] /\ UNCHANGED connectionSessions
      BY <2>2 DEF CleanupConnectionSession, HandleDisconnect
    <3>2. c.pc \in Cleaning /\ c.entry = e /\ c.drop
      BY DEF Call, Cleaning
    <3> QED BY <2>2, <3>1, <3>2
  <2>3. CASE e # None /\ entries[e].token = NoToken
    <3>1. /\ op' = [op EXCEPT ![h] = Idle]
          /\ connectionSessions' = [connectionSessions EXCEPT ![AddressOf(e)] = None]
      BY <2>3 DEF CleanupConnectionSession, HandleDisconnect
    <3>2. AddressOf(e) = b
      BY <1>1, <1>2, <2>3 DEF Addressed
    <3>3. Idle.pc \notin Cleaning
      BY DEF Idle, Call, Cleaning
    <3> QED BY <1>1, <1>2, <3>1, <3>2, <3>3
  <2> QED BY <2>1, <2>2, <2>3
<1>5. op'[h] = c /\ \A g \in Handler \ {h} : op'[g] = op[g]
  BY <1>1, <1>4
<1>6. c.pc \in Cleaning => AddressOf(op[h].entry)' = b
  <2>1. PICK f : f = e
    OBVIOUS
  <2>2. c.pc \in Cleaning => op'[h].entry = f /\ AddressOf(f)' = b
    BY <1>1, <1>2, <1>4, <1>5, <2>1, AddressStays DEF Addressed
  <2> QED BY <2>2 DEF AddressOf
<1>7. CASE a # b
  <2>1. ~CleansOf(h, a) /\ ~CleansOf(h, a)'
    BY <1>5, <1>6, <1>7 DEF CleansOf
  <2> QED BY <1>1, <1>2, <1>3, <1>4, <1>5, <1>7, <2>1, QuietStep
<1>8. CASE a = b
  <2>1. sessions'[a] = None
    BY <1>1, <1>2, <1>3, <1>8
  <2>2. \A g \in Handler \ {h} : ~CleansOf(g, a)'
    BY <1>1, <1>2, <1>5, <1>8, OtherCalls DEF RightAt
  <2>3. CleansOf(h, a)' => op'[h].drop
    BY <1>4, <1>5 DEF CleansOf
  <2>4. connectionSessions'[a] # None => CleansOf(h, a)'
    BY <1>4, <1>5, <1>6, <1>8 DEF CleansOf
  <2> QED BY <2>1, <2>2, <2>3, <2>4 DEF RightAt
<1> QED BY <1>7, <1>8

\* A cleanup ends.
LEMMA ForgetRight ==
  ASSUME PresenceInv, Next, NEW a \in Address \ troubled, NEW h \in Handler,
         op[h].pc \in Cleaning, Forget(h)
  PROVE  RightAt(a)'
<1> DEFINE b == AddressOf(op[h].entry)
<1>1. /\ IInv /\ LiveIffMapped /\ RightAt(a)
      /\ op \in [Handler -> CallOver(Entries)]
      /\ connectionSessions \in [Address -> {None} \cup Entries]
  BY DEF PresenceInv, IInv, CallsInv, TablesInv
<1>2. /\ sessions' = sessions
      /\ connectionSessions' = IF op[h].drop THEN [connectionSessions EXCEPT ![b] = None]
                               ELSE connectionSessions
  BY DEF Forget, sessionVars
<1>3. /\ op'[h].pc \notin Cleaning
      /\ \A g \in Handler \ {h} : op'[g] = op[g]
  BY <1>1 DEF Forget, Idle, Call, Cleaning
<1>4. ~CleansOf(h, a)'
  BY <1>3 DEF CleansOf
<1>5. CASE a # b
  <2>1. ~CleansOf(h, a)
    BY <1>5 DEF CleansOf
  <2> QED BY <1>1, <1>2, <1>3, <1>4, <1>5, <2>1, QuietStep
<1>6. CASE a = b
  <2>1. op[h].drop /\ sessions[a] = None
    BY <1>1, <1>6 DEF RightAt, CleansOf
  <2>2. sessions'[a] = None /\ connectionSessions'[a] = None
    BY <1>1, <1>2, <1>6, <2>1
  <2>3. \A g \in Handler : CleansOf(g, a)' => op'[g].drop
    BY <1>1, <1>3, <1>4, OtherCalls DEF RightAt
  <2> QED BY <2>2, <2>3 DEF RightAt
<1> QED BY <1>5, <1>6

\* A SessionRequest: an address in order has neither a Session nor an entry then.
LEMMA ConnectRight ==
  ASSUME PresenceInv, PresenceNext, NEW a \in Address \ troubled', NEW b \in Address, Connect(b)
  PROVE  RightAt(a)'
<1>1. Next /\ a \notin troubled
  BY TroubleKnown
<1>2. /\ IInv /\ LiveIffMapped /\ RightAt(a)
      /\ sessions \in [Address -> {None} \cup SessionIds]
      /\ connectionSessions \in [Address -> {None} \cup Entries]
      /\ Len(soe) \in Nat
  BY <1>1 DEF PresenceInv, IInv, SessionsTypeOK, TablesInv
<1>3. /\ op' = op
      /\ sessions' = [sessions EXCEPT ![b] = Len(soe) + 1]
      /\ connectionSessions' = [connectionSessions EXCEPT ![b] = EntryOf(Len(soe) + 1, b)]
      /\ Tracks(Len(soe) + 1, b)
  BY <1>2, ConnectTracks DEF Connect, ProcessSessionRequest, Track
<1>4. CASE a # b
  BY <1>1, <1>2, <1>3, <1>4, CallsAside
<1>5. CASE a = b
  <2>1. sessions'[a] = Len(soe) + 1 /\ sessions'[a] # None /\ sessions[a] # sessions'[a]
    BY <1>2, <1>3, <1>5 DEF SessionIds, None
  <2>2. sessions[a] = None /\ CallsOf(a, Cleaning) = {}
    BY <2>1, TroubleKnown DEF TroubleInStep
  <2>3. \A g \in Handler : ~CleansOf(g, a)
    <3>1. \A g \in Handler : op[g].pc \in Cleaning => op[g].entry # None
      BY <1>2, CallTyped DEF IInv, Cleaning, Entries, None
    <3> QED BY <2>2, <3>1 DEF CallsOf, CleansOf
  <2>4. \A g \in Handler : ~CleansOf(g, a)'
    BY <1>1, <1>2, <1>3, <2>3, OtherCalls
  <2>5. connectionSessions[a] = None
    BY <1>2, <2>2, <2>3 DEF RightAt
  <2>6. /\ connectionSessions'[a] = Len(entries) + 1 /\ Len(entries) \in Nat
        /\ entries'[Len(entries) + 1].session = Len(soe) + 1
    BY <1>2, <1>3, <1>5, <2>5 DEF Tracks, EntryOf, IInv, EntriesInv
  <2> QED BY <2>1, <2>4, <2>6 DEF RightAt, None
<1> QED BY <1>4, <1>5

\* A packet of a connected client finds its entry, if the address is in order.
LEMMA TrackRight ==
  ASSUME PresenceInv, NEW a \in Address \ troubled, NEW s \in SessionIds, Connected(s),
         Track(s, soe[s].address)
  PROVE  connectionSessions'[a] = connectionSessions[a]
<1> DEFINE b == soe[s].address
<1>1. b \in Address /\ sessions[b] = s /\ s # None
  BY AddressTyped DEF PresenceInv, IInv, LiveIffMapped, SessionIds, None
<1>2. connectionSessions \in [Address -> {None} \cup Entries]
  BY DEF PresenceInv, IInv, TablesInv
<1>3. connectionSessions' = [connectionSessions EXCEPT ![b] = EntryOf(s, b)]
  BY DEF Track
<1>4. CASE a = b
  <2>1. connectionSessions[b] # None
    BY <1>1, <1>4 DEF PresenceInv, RightAt
  <2> QED BY <1>2, <1>3, <2>1 DEF EntryOf
<1>5. CASE a # b
  BY <1>2, <1>3, <1>5
<1> QED BY <1>4, <1>5

\* disconnectSession, on the Session of a call's entry.
LEMMA RejectRight ==
  ASSUME PresenceInv, Next, NEW a \in Address \ troubled, NEW h \in Handler,
         op[h].pc \notin {"idle", "nextIdle"}, op[h].pc \notin Cleaning, Reject(h)
  PROVE  RightAt(a)'
<1> DEFINE s == entries[op[h].entry].session
<1>1. s \in SessionIds
  BY CallTyped, EntryTyped DEF PresenceInv, IInv
<1>2. CASE Connected(s)
  BY <1>1, <1>2, EndRight DEF Reject
<1>3. CASE ~Connected(s)
  <2>1. Return(h) /\ UNCHANGED <<sessions, connectionSessions>>
    BY <1>3 DEF Reject, sessionVars
  <2>2. Idle.pc \notin Cleaning
    BY DEF Idle, Call, Cleaning
  <2> QED BY <2>1, <2>2, PassingStep DEF Return
<1> QED BY <1>2, <1>3

LEMMA PacketRight ==
  ASSUME PresenceInv, PresenceNext, NEW a \in Address \ troubled', Packet
  PROVE  RightAt(a)'
<1>1. Next /\ a \in Address \ troubled /\ IInv /\ Addressed
  BY TroubleKnown DEF PresenceInv
<1>2. ASSUME NEW s \in SessionIds, ConnectionOpen(s) PROVE RightAt(a)'
  BY <1>1, <1>2, TrackRight, CallsAside DEF ConnectionOpen, sessionVars
<1>3. Idle.pc \notin Cleaning
  BY DEF Idle, Call, Cleaning
<1>4. ASSUME NEW h \in Handler, NEW s \in SessionIds, Disconnect(h, s) PROVE RightAt(a)'
  BY <1>1, <1>3, <1>4, EndRight DEF Disconnect
<1>5. ASSUME NEW h \in Handler, NEW s \in SessionIds, NEW t \in Token, ClientIdMsg(h, s, t)
      PROVE  RightAt(a)'
  <2> DEFINE c == Call("getSession", EntryOf(s, soe[s].address), t, FALSE, {})
  <2>1. op' = [op EXCEPT ![h] = c] /\ op[h].pc \notin Cleaning /\ UNCHANGED sessions
    BY <1>3, <1>5 DEF ClientIdMsg, sessionVars
  <2>2. c.pc \notin Cleaning
    BY DEF Call, Cleaning
  <2>3. connectionSessions'[a] = connectionSessions[a]
    BY <1>1, <1>5, TrackRight DEF ClientIdMsg
  <2> QED BY <1>1, <2>1, <2>2, <2>3, PassingStep
<1>6. ASSUME NEW h \in Handler, NEW s \in SessionIds, SelectCharacter(h, s) PROVE RightAt(a)'
  <2> DEFINE c == Call("select", connectionSessions[soe[s].address], NoToken, FALSE, {})
  <2>1. /\ op' = [op EXCEPT ![h] = c] /\ op[h].pc \notin Cleaning
        /\ UNCHANGED <<sessions, connectionSessions>>
    BY <1>3, <1>6 DEF SelectCharacter, sessionVars, tables
  <2>2. c.pc \notin Cleaning
    BY DEF Call, Cleaning
  <2> QED BY <1>1, <2>1, <2>2, PassingStep
<1>7. ASSUME NEW h \in Handler, NEW s \in SessionIds, RefuseSelect(h, s) PROVE RightAt(a)'
  <2> DEFINE b == soe[s].address
             e == connectionSessions[b]
             own == IF e = None THEN s ELSE entries[e].session
  <2>1. b \in Address /\ e \in {None} \cup Entries
    BY <1>1, AddressTyped DEF IInv, TablesInv
  <2>2. own \in SessionIds /\ soe[own].address = b
    BY <1>1, <2>1, EntryTyped DEF IInv, Addressed, AddressOf
  <2>3. CASE Connected(own)
    BY <1>1, <1>3, <1>7, <2>2, <2>3, EndRight DEF RefuseSelect
  <2>4. CASE ~Connected(own)
    BY <1>1, <1>7, <2>4, CallsAside DEF RefuseSelect, sessionVars
  <2> QED BY <2>3, <2>4
<1> QED BY <1>2, <1>4, <1>5, <1>6, <1>7, ConnectRight DEF Packet

LEMMA AnswerRight ==
  ASSUME PresenceInv, Next, NEW a \in Address \ troubled, NEW h \in Handler, Answer(h)
  PROVE  RightAt(a)'
<1>1. IInv /\ LiveIffMapped /\ op \in [Handler -> CallOver(Entries)]
  BY DEF PresenceInv, IInv, CallsInv
<1>2. CASE ValidToken(h) \/ ExpiredToken(h) \/ Updated(h)
  <2>1. PICK pc \in {"updateSession", "deleteExpired", "publishConnected"} :
          op' = [op EXCEPT ![h].pc = pc]
    BY <1>2 DEF ValidToken, ExpiredToken, Updated, Goto
  <2>2. op[h].pc \notin Cleaning /\ [op[h] EXCEPT !.pc = pc].pc \notin Cleaning
    BY <1>1, <1>2 DEF ValidToken, ExpiredToken, Updated, At, Cleaning, CallOver
  <2>3. UNCHANGED <<sessions, connectionSessions>>
    BY <1>2 DEF ValidToken, ExpiredToken, Updated, sessionVars, tables
  <2> QED BY <2>1, <2>2, <2>3, PassingStep
<1>3. CASE Authenticated(h) \/ ZoneRequested(h)
  <2>1. op[h].pc \notin Cleaning /\ Idle.pc \notin Cleaning
    BY <1>3 DEF Authenticated, ZoneRequested, At, Cleaning, Idle, Call
  <2> QED BY <1>3, <2>1, PassingStep DEF Authenticated, ZoneRequested, Return, sessionVars
<1>4. CASE Selected(h) \/ PublishedRouted(h)
  <2>1. PICK pc, t :
          /\ pc \in {"publishRouted", "publishZoneRequest"}
          /\ op' = [op EXCEPT ![h].pc = pc, ![h].token = t]
    BY <1>4 DEF Selected, PublishedRouted
  <2>2. op[h].pc \notin Cleaning /\ [op[h] EXCEPT !.pc = pc, !.token = t].pc \notin Cleaning
    BY <1>1, <1>4, <2>1 DEF Selected, PublishedRouted, At, Cleaning, CallOver
  <2>3. UNCHANGED <<sessions, connectionSessions>>
    BY <1>4 DEF Selected, PublishedRouted, sessionVars, tables
  <2> QED BY <2>1, <2>2, <2>3, PassingStep
<1>5. CASE InvalidToken(h) \/ DeletedExpired(h)
  <2>1. op[h].pc \notin {"idle", "nextIdle"} /\ op[h].pc \notin Cleaning /\ Reject(h)
    BY <1>5 DEF InvalidToken, DeletedExpired, At, Cleaning
  <2> QED BY <2>1, RejectRight
<1>6. CASE PublishedGone(h)
  <2> DEFINE t == entries[op[h].entry].token
  <2>1. /\ op' = [op EXCEPT ![h].pc = "deleteGone", ![h].token = t]
        /\ op[h].pc \in Cleaning /\ UNCHANGED <<sessions, connectionSessions>>
    BY <1>6 DEF PublishedGone, At, Cleaning, sessionVars, tables
  <2>2. /\ op'[h].pc \in Cleaning /\ op'[h].entry = op[h].entry /\ op'[h].drop = op[h].drop
        /\ \A g \in Handler \ {h} : op'[g] = op[g]
    BY <1>1, <2>1 DEF CallOver, Cleaning
  <2>3. CleansOf(h, a)' <=> CleansOf(h, a)
    <3>1. PICK e \in Entries : op[h].entry = e
      BY <1>1, <2>1, CallTyped DEF IInv, Cleaning
    <3>2. AddressOf(e)' = AddressOf(e)
      BY <1>1, AddressStays
    <3>3. AddressOf(op[h].entry)' = AddressOf(op[h].entry)
      BY <2>2, <3>1, <3>2 DEF AddressOf
    <3> QED BY <2>1, <2>2, <3>3 DEF CleansOf
  <2> QED BY <2>1, <2>2, <2>3, QuietStep
<1>7. CASE DeletedGone(h)
  BY <1>7, ForgetRight DEF DeletedGone, At, Cleaning
<1> QED BY <1>2, <1>3, <1>4, <1>5, <1>6, <1>7 DEF Answer

\* A client that was found idle is cleaned up after: its address is troubled.
LEMMA NextIdleRight ==
  ASSUME PresenceInv, Next, NEW a \in Address \ troubled, NEW h \in Handler, NextIdle(h)
  PROVE  RightAt(a)'
<1>1. /\ IInv /\ LiveIffMapped /\ IdleTroubled /\ op \in [Handler -> CallOver(Entries)]
      /\ op[h].pc = "nextIdle" /\ sessions' = sessions
  BY DEF PresenceInv, IInv, CallsInv, NextIdle, At, sessionVars
<1>2. PICK e \in op[h].idle : HandleDisconnect(h, e, FALSE, op[h].idle \ {e})
  BY DEF NextIdle
<1>3. e \in Entries /\ AddressOf(e) # a
  BY <1>1, <1>2 DEF IdleTroubled, CallOver
<1>4. PICK c : /\ op' = [op EXCEPT ![h] = c]
               /\ c.pc \in Cleaning => c.entry = e
               /\ UNCHANGED connectionSessions
  <2>1. CASE entries[e].token # NoToken
    BY <1>2, <2>1 DEF HandleDisconnect, Call
  <2>2. CASE entries[e].token = NoToken
    BY <1>2, <2>2 DEF HandleDisconnect, Call, Idle, Cleaning
  <2> QED BY <2>1, <2>2
<1>5. op'[h] = c /\ \A g \in Handler \ {h} : op'[g] = op[g]
  BY <1>1, <1>4
<1>6. ~CleansOf(h, a)
  BY <1>1 DEF CleansOf, Cleaning
<1>7. ~CleansOf(h, a)'
  <2>1. AddressOf(e)' # a
    BY <1>1, <1>3, AddressStays
  <2>2. c.pc \in Cleaning => AddressOf(op[h].entry)' # a
    BY <1>4, <1>5, <2>1 DEF AddressOf
  <2> QED BY <1>5, <2>2 DEF CleansOf
<1> QED BY <1>1, <1>4, <1>5, <1>6, <1>7, QuietStep

LEMMA FailedRight ==
  ASSUME PresenceInv, Next, NEW a \in Address \ troubled, NEW h \in Handler, Failed(h)
  PROVE  RightAt(a)'
<1>1. CASE op[h].pc = "deleteExpired"
  BY <1>1, RejectRight DEF Failed, Cleaning
<1>2. CASE op[h].pc \in {"publishGone", "deleteGone"}
  BY <1>2, ForgetRight DEF Failed, Cleaning
<1>3. CASE op[h].pc \notin {"deleteExpired", "publishGone", "deleteGone"}
  <2>1. Return(h) /\ UNCHANGED <<sessions, connectionSessions>>
    BY <1>3 DEF Failed, sessionVars, tables
  <2>2. Idle.pc \notin Cleaning /\ op[h].pc \notin Cleaning
    BY <1>3 DEF Idle, Call, Cleaning
  <2> QED BY <2>1, <2>2, PassingStep DEF Return
<1> QED BY <1>1, <1>2, <1>3

LEMMA RightStep ==
  ASSUME PresenceInv, PresenceNext, NEW a \in Address \ troubled'
  PROVE  RightAt(a)'
<1>1. Next /\ a \in Address \ troubled
  BY TroubleKnown
<1>2. ASSUME NEW h \in Handler, IdleScan(h) PROVE RightAt(a)'
  <2>1. PICK idle : DisconnectIdleSessions(h, idle)
    BY <1>2 DEF IdleScan
  <2> DEFINE c == Call("nextIdle", None, NoToken, FALSE, idle)
  <2>2. op' = [op EXCEPT ![h] = c] /\ UNCHANGED <<sessions, connectionSessions>>
    BY <2>1 DEF DisconnectIdleSessions, sessionVars, tables
  <2>3. c.pc \notin Cleaning /\ op[h].pc \notin Cleaning
    BY <2>1 DEF DisconnectIdleSessions, Idle, Call, Cleaning
  <2> QED BY <1>1, <2>2, <2>3, PassingStep
<1>3. ASSUME NEW t \in Token, Revoke(t) PROVE RightAt(a)'
  BY <1>1, <1>3, CallsAside DEF Revoke, sessionVars, tables
<1> QED BY <1>1, <1>2, <1>3, PacketRight, AnswerRight, NextIdleRight, FailedRight DEF Next

-----------------------------------------------------------------------------
LEMMA PresenceInvInit == PresenceInit => PresenceInv
<1> SUFFICES ASSUME PresenceInit PROVE PresenceInv
  OBVIOUS
<1>1. IInv
  BY InvInit DEF PresenceInit
<1>2. /\ soe = <<>> /\ SessionIds = {}
      /\ connectionSessions = [a \in Address |-> None] /\ sessions = [a \in Address |-> None]
      /\ \A h \in Handler : op[h].pc \notin Cleaning /\ op[h].idle = {}
  BY DEF PresenceInit, Init, SessionsInit, SessionIds, Idle, Call, Cleaning
<1>3. LiveIffMapped /\ Addressed /\ IdleTroubled
  BY <1>2 DEF LiveIffMapped, Addressed, IdleTroubled
<1>4. \A a \in Address : RightAt(a)
  BY <1>2 DEF RightAt, CleansOf
<1> QED BY <1>1, <1>3, <1>4 DEF PresenceInv

LEMMA PresenceInvStep == PresenceInv /\ [PresenceNext]_presenceVars => PresenceInv'
<1> SUFFICES ASSUME PresenceInv, [PresenceNext]_presenceVars PROVE PresenceInv'
  OBVIOUS
<1>1. CASE PresenceNext
  <2>1. Next /\ IInv /\ LiveIffMapped /\ Addressed
    BY <1>1, TroubleKnown DEF PresenceInv
  <2>2. IInv' /\ LiveIffMapped' /\ Addressed' /\ IdleTroubled'
    BY <1>1, <2>1, InvStep, MappedStep, AddressedStep, IdleStep
  <2>3. \A a \in Address \ troubled' : RightAt(a)'
    BY <1>1, RightStep
  <2> QED BY <2>2, <2>3 DEF PresenceInv
<1>2. CASE UNCHANGED presenceVars
  <2>1. IInv'
    BY <1>2, InvStep DEF presenceVars, PresenceInv
  <2> QED BY <1>2, <2>1 DEF presenceVars, vars, sessionVars, tables, PresenceInv, LiveIffMapped, SessionIds,
             Connected, Addressed, AddressOf, IdleTroubled, RightAt, CleansOf
<1> QED BY <1>1, <1>2

\* A client whose address has got into none of the races of ConnectionPresence has
\* the entry that was made for its own Session, never its predecessor's
\* (server.ts:601, :620).
THEOREM EntriesOwn == PresenceSpec => []OwnEntry
<1>1. PresenceInv => OwnEntry
  BY DEF PresenceInv, RightAt, OwnEntry
<1> QED BY <1>1, PresenceInvInit, PresenceInvStep, PTL DEF PresenceSpec

-----------------------------------------------------------------------------
(* What the bus and Redis say of a client (ConnectionPresence).             *)

Checking == {"getSession", "deleteExpired"}
Authenticating == {"updateSession", "publishConnected"}
Routed == {"publishRouted", "publishZoneRequest"}
Working == Handling \cup Cleaning

\* Call h works for a client of address a; and it is the only one.
Works(h, a) == op[h].pc \in Working /\ AddressOf(op[h].entry) = a
Alone(h, a) == \A g \in Handler : Works(g, a) => g = h

\* A history that began with the client's arrival, and one that is over.
Whole(q) ==
  /\ q # <<>>
  /\ \A i \in DOMAIN q : /\ (q[i] = "connected") <=> (i = 1)
                         /\ q[i] = "disconnected" => i = Len(q)
Ended(q) == q[Len(q)] = "disconnected"

\* Each call works on the entry of its address, and each kind of call at its time:
\* a token is checked of a client that has none; it is authenticated by one call,
\* before anything was published of it; and it is routed and cleaned up after when
\* it is authenticated.
CallRight(h, a) ==
  LET c == op[h]
      x == entries[connectionSessions[a]]
  IN  Works(h, a) =>
        /\ c.entry = connectionSessions[a]
        /\ c.pc \in Handling => sessions[a] # None
        /\ c.pc \in Checking \cup Authenticating \cup Cleaning => Alone(h, a)
        /\ c.pc \in Checking => x.token = NoToken
        /\ c.pc \in Authenticating => x.sessionToken = NoToken /\ bus[c.token] = <<>>
        /\ c.pc \notin Checking \cup Authenticating => x.sessionToken # NoToken
        /\ c.pc \in Authenticating \cup Routed \cup Cleaning => c.token = x.token

\* The entry of an address: one with a token is authenticated or about to be, and
\* its history is over when its end has been published.
CurrentRight(a) ==
  LET x == entries[connectionSessions[a]] IN
  connectionSessions[a] # None =>
    /\ x.sessionToken \in {NoToken, x.token}
    /\ x.token # NoToken /\ x.sessionToken = NoToken =>
         \E h \in Handler : Works(h, a) /\ op[h].pc \in Authenticating
    /\ x.sessionToken # NoToken =>
         /\ Whole(bus[x.token])
         /\ Ended(bus[x.token]) <=> \E h \in Handler : Works(h, a) /\ op[h].pc = "deleteGone"

\* Entry e is of a client that has gone, and all is over for it.
Past(e) ==
  /\ ~Connected(entries[e].session)
  /\ entries[e].token \notin redis
  /\ Whole(bus[entries[e].token]) /\ Ended(bus[entries[e].token])

\* Whatever token an entry had, no other of the address has.
PastRight(a) ==
  \A e \in Entries : AddressOf(e) = a /\ entries[e].token # NoToken =>
    /\ e # connectionSessions[a] => Past(e)
    /\ \A f \in Entries : AddressOf(f) = a /\ entries[f].token = entries[e].token => f = e

\* A token presented by a is its own, and what was published of it is of its clients.
HeldRight(a) ==
  \A t \in Token : a \in holders[t] =>
    /\ holders[t] = {a}
    /\ bus[t] # <<>> => \E e \in Entries : AddressOf(e) = a /\ entries[e].token = t

HistoryRight(a) ==
  (\A h \in Handler : CallRight(h, a)) /\ CurrentRight(a) /\ PastRight(a) /\ HeldRight(a)

\* Whoever has to do with a token has presented it.
HoldersInv ==
  /\ holders \in [Token -> SUBSET Address]
  /\ \A e \in Entries :
       /\ entries[e].token # NoToken => AddressOf(e) \in holders[entries[e].token]
       /\ entries[e].sessionToken # NoToken => AddressOf(e) \in holders[entries[e].sessionToken]
  /\ \A h \in Handler :
       op[h].pc \in Working /\ op[h].token # NoToken => AddressOf(op[h].entry) \in holders[op[h].token]
  /\ \A t \in Token : bus[t] # <<>> => holders[t] # {}

HistoryInv == PresenceInv /\ HoldersInv /\ \A a \in Address \ troubled : HistoryRight(a)

\* The types, as the steps need them.
LEMMA Typed ==
  ASSUME IInv
  PROVE  /\ entries \in Seq(EntryRecord) /\ Len(entries) \in Nat /\ Entries = 1 .. Len(entries)
         /\ op \in [Handler -> CallOver(Entries)]
         /\ bus \in [Token -> Seq(Message)] /\ redis \subseteq Token
         /\ sessions \in [Address -> {None} \cup SessionIds]
         /\ connectionSessions \in [Address -> {None} \cup Entries]
         /\ \A e \in Entries : /\ entries[e].session \in SessionIds
                               /\ entries[e].token \in Token \cup {NoToken}
                               /\ entries[e].sessionToken \in Token \cup {NoToken}
         /\ \A h \in Handler : op[h].token \in Token \cup {NoToken}
         /\ \A h \in Handler : op[h].pc \in Working => op[h].entry \in Entries
<1>1. entries \in Seq(EntryRecord)
  BY DEF IInv, EntriesInv
<1>2. \A e \in Entries : entries[e] \in EntryRecord
  BY <1>1 DEF Entries
<1>3. \A h \in Handler : op[h] \in CallOver(Entries)
  BY DEF IInv, CallsInv
<1>4. \A h \in Handler : op[h].pc \in Working => op[h].pc \notin {"idle", "nextIdle"}
  BY DEF Working, Handling, Cleaning
<1>5. \A h \in Handler : op[h].pc \in Working => op[h].entry \in Entries
  BY <1>4, CallTyped DEF IInv
<1> QED BY <1>1, <1>2, <1>3, <1>5
        DEF IInv, CallsInv, OutsideInv, SessionsTypeOK, TablesInv, EntryRecord, EntryOver, CallOver,
            Entries, Message

\* And after a step.
LEMMA TypedAfter ==
  ASSUME IInv'
  PROVE  /\ \A e \in Entries' : entries'[e].session \in SessionIds'
         /\ \A s \in SessionIds' : soe'[s].address \in Address
         /\ \A e \in Entries' : AddressOf(e)' \in Address
         /\ \A h \in Handler : op'[h].token \in Token \cup {NoToken}
         /\ \A h \in Handler : op'[h].pc \in Working => op'[h].entry \in Entries'
<1>1. \A e \in Entries' : entries'[e] \in EntryRecord'
  BY DEF IInv, EntriesInv, Entries
<1>2. \A e \in Entries' : entries'[e].session \in SessionIds'
  BY <1>1 DEF EntryRecord, EntryOver
<1>3. \A s \in SessionIds' : soe'[s] \in Session
  BY DEF IInv, SessionsTypeOK, SessionIds
<1>4. \A s \in SessionIds' : soe'[s].address \in Address
  BY <1>3 DEF Session
<1>5. \A h \in Handler : op'[h].token \in Token \cup {NoToken}
  BY DEF IInv, CallsInv, CallOver
<1>6. \A h \in Handler : op'[h].pc \in Working => op'[h].entry \in Entries'
  BY DEF IInv, CallsInv, Fine, Working, Handling, Cleaning
<1> QED BY <1>2, <1>4, <1>5, <1>6 DEF AddressOf

\* Entries keep their address, Sessions do not come back.
LEMMA Stays ==
  ASSUME IInv, LiveIffMapped, Next
  PROVE  \A e \in Entries :
           /\ e \in Entries' /\ AddressOf(e)' = AddressOf(e)
           /\ entries'[e].session = entries[e].session
           /\ ~Connected(entries[e].session) => ~Connected(entries[e].session)'
<1> SUFFICES ASSUME NEW e \in Entries
             PROVE  /\ e \in Entries' /\ AddressOf(e)' = AddressOf(e)
                    /\ entries'[e].session = entries[e].session
                    /\ ~Connected(entries[e].session) => ~Connected(entries[e].session)'
  OBVIOUS
<1>1. PICK s \in SessionIds : entries[e].session = s
  BY Typed
<1>2. entries'[e].session = s /\ e \in Entries' /\ AddressOf(e)' = AddressOf(e)
  BY <1>1, EntryStays, AddressStays
<1>3. ~Connected(s) => ~Connected(s)'
  BY MappedStep
<1> QED BY <1>1, <1>2, <1>3 DEF Connected

-----------------------------------------------------------------------------
(* The tokens of entries and calls, and what is published.                  *)

SameTokens(e) ==
  entries'[e].token = entries[e].token /\ entries'[e].sessionToken = entries[e].sessionToken

LEMMA TrackedEntry ==
  ASSUME IInv, NEW s, NEW a, NEW e \in 1 .. Len(Tracked(s, a))
  PROVE  \/ e \in Entries /\ Tracked(s, a)[e] = entries[e]
         \/ e \notin Entries /\ Tracked(s, a)[e] = NewEntry(s)
<1>1. entries \in Seq(EntryRecord) /\ Len(entries) \in Nat /\ Entries = 1 .. Len(entries)
  BY Typed
<1>2. CASE connectionSessions[a] # None
  BY <1>1, <1>2 DEF Tracked
<1>3. CASE connectionSessions[a] = None
  <2>1. Tracked(s, a) = Append(entries, NewEntry(s))
    BY <1>3 DEF Tracked
  <2> QED BY <1>1, <2>1
<1> QED BY <1>2, <1>3

\* An entry gets its tokens from the call that checks one, and a new one has none.
EntryKept(e) == e \in Entries /\ SameTokens(e)
EntryNew(e) == e \notin Entries /\ entries'[e].token = NoToken /\ entries'[e].sessionToken = NoToken
EntryGiven(e) ==
  \E h \in Handler :
    /\ e = op[h].entry /\ e \in Entries /\ op[h].token \in Token
    /\ \/ /\ ValidToken(h) /\ entries'[e].token = op[h].token
          /\ entries'[e].sessionToken = entries[e].sessionToken
       \/ /\ Authenticated(h) /\ entries'[e].token = entries[e].token
          /\ entries'[e].sessionToken = op[h].token

LEMMA OpenTokens ==
  ASSUME IInv, NEW s \in SessionIds, ConnectionOpen(s), NEW e \in Entries'
  PROVE  EntryKept(e) \/ EntryNew(e)
<1> DEFINE a == soe[s].address
           q == Tracked(s, a)
           n == EntryOf(s, a)
           y == [q[n] EXCEPT !.receivedConnectionOpen = TRUE]
           x == Released(y)
<1>1. q \in Seq(EntryOver(SessionIds)) /\ n \in 1 .. Len(q)
  BY AddressTyped, EntryOfTyped, TrackedGood DEF IInv, Good
<1>2. x.token = q[n].token /\ x.sessionToken = q[n].sessionToken
  <2>1. q[n] \in EntryOver(SessionIds)
    BY <1>1
  <2>2. y.token = q[n].token /\ y.sessionToken = q[n].sessionToken /\ y \in EntryOver(SessionIds)
    BY <2>1 DEF EntryOver
  <2> QED BY <2>2 DEF Released, EntryOver
<1>3. entries' = [q EXCEPT ![n] = x]
  BY DEF ConnectionOpen
<1> HIDE DEF x
<1>4. /\ e \in 1 .. Len(q) /\ entries'[e].token = q[e].token
      /\ entries'[e].sessionToken = q[e].sessionToken
  BY <1>1, <1>2, <1>3 DEF Entries
<1>5. \/ e \in Entries /\ q[e] = entries[e]
      \/ e \notin Entries /\ q[e] = NewEntry(s)
  BY <1>4, TrackedEntry
<1>6. NewEntry(s).token = NoToken /\ NewEntry(s).sessionToken = NoToken
  BY DEF NewEntry
<1> HIDE DEF q
<1> QED BY <1>4, <1>5, <1>6 DEF EntryKept, EntryNew, SameTokens

LEMMA EntryTokens ==
  ASSUME IInv, Next, NEW e \in Entries'
  PROVE  EntryKept(e) \/ EntryNew(e) \/ EntryGiven(e)
<1>1. /\ entries \in Seq(EntryRecord) /\ Entries = 1 .. Len(entries) /\ Entries' = 1 .. Len(entries')
      /\ \A f \in Entries : entries[f] \in EntryRecord
  BY Typed DEF Entries
<1>2. CASE entries' = entries
  BY <1>1, <1>2 DEF EntryKept, SameTokens
<1>3. ASSUME NEW s, NEW a, entries' = Tracked(s, a) PROVE EntryKept(e) \/ EntryNew(e)
  <2>1. e \in 1 .. Len(Tracked(s, a)) /\ entries'[e] = Tracked(s, a)[e]
    BY <1>1, <1>3
  <2>2. \/ e \in Entries /\ Tracked(s, a)[e] = entries[e]
        \/ e \notin Entries /\ Tracked(s, a)[e] = NewEntry(s)
    BY <2>1, TrackedEntry
  <2>3. NewEntry(s).token = NoToken /\ NewEntry(s).sessionToken = NoToken
    BY DEF NewEntry
  <2> QED BY <2>1, <2>2, <2>3 DEF EntryKept, EntryNew, SameTokens
<1>4. ASSUME NEW h \in Handler, ValidToken(h) \/ Authenticated(h) \/ ZoneRequested(h)
      PROVE  EntryKept(e) \/ EntryGiven(e)
  <2> DEFINE f == op[h].entry
  <2>1. f \in Entries /\ entries[f] \in EntryOver(SessionIds)
    BY <1>1, <1>4, CallTyped DEF IInv, ValidToken, Authenticated, ZoneRequested, At, EntryRecord
  <2>2. CASE ValidToken(h)
    <3>1. op[h].token \in Token
      BY <2>2 DEF ValidToken, At, IInv, CallsInv, Fine
    <3>2. entries' = [entries EXCEPT ![f] = [entries[f] EXCEPT !.token = op[h].token]]
      BY <2>2 DEF ValidToken
    <3> DEFINE x == [entries[f] EXCEPT !.token = op[h].token]
    <3>3. x.token = op[h].token /\ x.sessionToken = entries[f].sessionToken
      BY <2>1 DEF EntryOver
    <3> HIDE DEF x
    <3>4. e \in Entries /\ entries'[e] = IF e = f THEN x ELSE entries[e]
      BY <1>1, <2>1, <3>2 DEF x
    <3> QED BY <2>1, <2>2, <3>1, <3>3, <3>4 DEF EntryKept, EntryGiven, SameTokens
  <2>3. CASE Authenticated(h)
    <3>1. op[h].token \in Token
      BY <2>3 DEF Authenticated, At, IInv, CallsInv, Fine
    <3> DEFINE y == [entries[f] EXCEPT !.sessionToken = op[h].token]
               x == Released(y)
    <3>2. entries' = [entries EXCEPT ![f] = x]
      BY <2>3 DEF Authenticated
    <3>3. x.sessionToken = op[h].token /\ x.token = entries[f].token
      <4>1. /\ y.sessionToken = op[h].token /\ y.token = entries[f].token
            /\ y \in EntryOver(SessionIds)
        BY <2>1, <3>1 DEF EntryOver
      <4> QED BY <4>1 DEF Released, EntryOver
    <3> HIDE DEF x
    <3>4. e \in Entries /\ entries'[e] = IF e = f THEN x ELSE entries[e]
      BY <1>1, <2>1, <3>2
    <3> QED BY <2>1, <2>3, <3>1, <3>3, <3>4 DEF EntryKept, EntryGiven, SameTokens
  <2>4. CASE ZoneRequested(h)
    <3> DEFINE x == [entries[f] EXCEPT !.sentPostSelectPackets = TRUE]
    <3>1. entries' = [entries EXCEPT ![f] = x]
      BY <2>4 DEF ZoneRequested
    <3>2. x.sessionToken = entries[f].sessionToken /\ x.token = entries[f].token
      BY <2>1 DEF EntryOver
    <3> HIDE DEF x
    <3>3. e \in Entries /\ entries'[e] = IF e = f THEN x ELSE entries[e]
      BY <1>1, <2>1, <3>1
    <3> QED BY <3>2, <3>3 DEF EntryKept, SameTokens
  <2> QED BY <1>4, <2>2, <2>3, <2>4
<1>5. ASSUME NEW h \in Handler, Answer(h), entries' # entries PROVE EntryKept(e) \/ EntryGiven(e)
  BY <1>4, <1>5 DEF Answer, InvalidToken, ExpiredToken, DeletedExpired, Updated, Selected,
                    PublishedRouted, PublishedGone, DeletedGone, Reject, Forget, tables
<1>6. ASSUME NEW h \in Handler, Failed(h) PROVE entries' = entries
  BY <1>6 DEF Failed, Reject, Forget, tables
<1> QED BY <1>2, <1>3, <1>5, <1>6, OpenTokens
        DEF Next, Packet, IdleScan, Connect, ClientIdMsg, Disconnect, SelectCharacter, RefuseSelect,
            DisconnectIdleSessions, NextIdle, Revoke, tables

\* Whatever is published is published of the token a call works with.
LEMMA BusEffect ==
  ASSUME Next
  PROVE  \/ bus' = bus
         \/ \E h \in Handler, what \in Message :
              /\ op[h].pc \in Working /\ Publish(op[h].token, what)
              /\ Authenticated(h) \/ PublishedRouted(h) \/ ZoneRequested(h) \/ PublishedGone(h)
<1>1. ASSUME NEW h \in Handler, Answer(h), bus' # bus
      PROVE  \E what \in Message :
               /\ op[h].pc \in Working /\ Publish(op[h].token, what)
               /\ Authenticated(h) \/ PublishedRouted(h) \/ ZoneRequested(h) \/ PublishedGone(h)
  <2>1. Authenticated(h) \/ PublishedRouted(h) \/ ZoneRequested(h) \/ PublishedGone(h)
    BY <1>1 DEF Answer, ValidToken, InvalidToken, ExpiredToken, DeletedExpired, Updated, Selected,
                DeletedGone
  <2>2. op[h].pc \in Working
    BY <2>1 DEF Authenticated, PublishedRouted, ZoneRequested, PublishedGone, At, Working, Handling,
                Cleaning
  <2>3. \E what \in Message : Publish(op[h].token, what)
    BY <2>1 DEF Authenticated, PublishedRouted, ZoneRequested, PublishedGone, Message
  <2> QED BY <2>1, <2>2, <2>3
<1>2. ASSUME NEW h \in Handler, NextIdle(h) \/ Failed(h) \/ IdleScan(h) PROVE bus' = bus
  BY <1>2 DEF NextIdle, Failed, IdleScan, DisconnectIdleSessions
<1> QED BY <1>1, <1>2 DEF Next, Packet, Connect, ConnectionOpen, Disconnect, ClientIdMsg,
           SelectCharacter, RefuseSelect, Revoke

\* A call gets its token from the packet that starts it, or from its entry.
TokenKept(g) ==
  op[g].pc \in Working /\ op'[g].entry = op[g].entry /\ op'[g].token = op[g].token
TokenRead(g) ==
  \E e \in Entries : /\ op'[g].entry = e
                     /\ op'[g].token \in {NoToken, entries[e].token, entries[e].sessionToken}

LEMMA CallTokens ==
  ASSUME IInv, Next, NEW g \in Handler, op'[g].pc \in Working
  PROVE  TokenKept(g) \/ TokenRead(g) \/ op'[g].pc = "getSession"
<1> DEFINE Goal == TokenKept(g) \/ TokenRead(g) \/ op'[g].pc = "getSession"
<1>1. /\ DOMAIN op = Handler /\ op \in [Handler -> CallOver(Entries)]
      /\ connectionSessions \in [Address -> {None} \cup Entries]
      /\ \A h \in Handler : op[h].pc \in Working => op[h].entry \in Entries
      /\ \A s \in SessionIds : soe[s].address \in Address
  BY Typed, AddressTyped DEF IInv, CallsInv
<1>2. "idle" \notin Working /\ "nextIdle" \notin Working
  BY DEF Working, Handling, Cleaning
<1>3. CASE op'[g] = op[g]
  BY <1>3 DEF TokenKept
<1>4. ASSUME NEW h \in Handler, NEW c, op' = [op EXCEPT ![h] = c], c.pc \notin Working PROVE Goal
  BY <1>1, <1>3, <1>4
<1>5. ASSUME NEW h \in Handler, NEW e \in Entries, NEW c, op' = [op EXCEPT ![h] = c], c.entry = e,
             c.token \in {NoToken, entries[e].token, entries[e].sessionToken}
      PROVE  Goal
  BY <1>1, <1>3, <1>5 DEF TokenRead
<1>6. Idle.pc = "idle"
  BY DEF Idle, Call
<1>7. ASSUME NEW h \in Handler, Return(h) PROVE Goal
  <2>1. op' = [op EXCEPT ![h] = Idle] /\ Idle.pc \notin Working
    BY <1>2, <1>6, <1>7 DEF Return
  <2> HIDE DEF Goal
  <2> QED BY <1>4, <2>1
<1>8. ASSUME NEW h \in Handler, NEW e \in Entries, NEW drop, NEW idle, HandleDisconnect(h, e, drop, idle)
      PROVE  Goal
  <2>1. CASE entries[e].token # NoToken
    <3> DEFINE c == Call("publishGone", e, entries[e].token, drop, idle)
    <3>1. op' = [op EXCEPT ![h] = c] /\ c.entry = e /\ c.token = entries[e].token
      BY <1>8, <2>1 DEF HandleDisconnect, Call
    <3> QED BY <1>5, <3>1
  <2>2. CASE entries[e].token = NoToken
    <3> DEFINE c == IF idle = {} THEN Idle ELSE Call("nextIdle", e, NoToken, FALSE, idle)
    <3>1. op' = [op EXCEPT ![h] = c] /\ c.pc \notin Working
      BY <1>2, <1>6, <1>8, <2>2 DEF HandleDisconnect, Call
    <3> QED BY <1>4, <3>1
  <2> QED BY <2>1, <2>2
<1>9. ASSUME NEW h \in Handler, NEW a \in Address, CleanupConnectionSession(h, a) PROVE Goal
  BY <1>1, <1>7, <1>8, <1>9 DEF CleanupConnectionSession
<1>10. ASSUME NEW h \in Handler, op[h].pc \in Working, Reject(h) PROVE Goal
  <2>1. soe[entries[op[h].entry].session].address \in Address
    BY <1>1, <1>10, EntryTyped DEF IInv
  <2> QED BY <1>7, <1>9, <1>10, <2>1 DEF Reject
<1>11. ASSUME NEW h \in Handler, Forget(h) PROVE Goal
  <2> DEFINE c == IF op[h].idle = {} THEN Idle
                  ELSE Call("nextIdle", op[h].entry, NoToken, FALSE, op[h].idle)
  <2>1. op' = [op EXCEPT ![h] = c] /\ c.pc \notin Working
    BY <1>2, <1>6, <1>11 DEF Forget, Call
  <2> QED BY <1>4, <2>1
<1>12. ASSUME NEW h \in Handler, NEW s \in SessionIds, Disconnect(h, s) \/ RefuseSelect(h, s) PROVE Goal
  BY <1>1, <1>3, <1>9, <1>12 DEF Disconnect, RefuseSelect
<1>13. ASSUME NEW h \in Handler, NEW s \in SessionIds, NEW t \in Token, ClientIdMsg(h, s, t) PROVE Goal
  BY <1>1, <1>3, <1>13 DEF ClientIdMsg, Call
<1>14. ASSUME NEW h \in Handler, NEW s \in SessionIds, SelectCharacter(h, s) PROVE Goal
  <2> DEFINE e == connectionSessions[soe[s].address]
             c == Call("select", e, NoToken, FALSE, {})
  <2>1. e \in Entries
    BY <1>1, <1>14 DEF SelectCharacter
  <2>2. op' = [op EXCEPT ![h] = c] /\ c.entry = e /\ c.token = NoToken
    BY <1>14 DEF SelectCharacter, Call
  <2> QED BY <1>5, <2>1, <2>2
<1>15. ASSUME NEW h \in Handler, Answer(h) PROVE Goal
  <2>1. op[h].pc \in Working
    BY <1>15 DEF Answer, ValidToken, InvalidToken, ExpiredToken, DeletedExpired, Updated,
                 Authenticated, Selected, PublishedRouted, ZoneRequested, PublishedGone,
                 DeletedGone, At, Working, Handling, Cleaning
  <2>2. CASE InvalidToken(h) \/ DeletedExpired(h) \/ DeletedGone(h) \/ Authenticated(h)
             \/ ZoneRequested(h)
    BY <1>7, <1>10, <1>11, <2>1, <2>2
       DEF InvalidToken, DeletedExpired, DeletedGone, Authenticated, ZoneRequested
  <2>3. CASE ValidToken(h) \/ ExpiredToken(h) \/ Updated(h)
    <3>1. PICK pc : op' = [op EXCEPT ![h].pc = pc]
      BY <2>3 DEF ValidToken, ExpiredToken, Updated, Goto
    <3> DEFINE c == [op[h] EXCEPT !.pc = pc]
    <3>2. op' = [op EXCEPT ![h] = c] /\ c.entry = op[h].entry /\ c.token = op[h].token
      BY <1>1, <3>1 DEF CallOver
    <3> HIDE DEF c
    <3> QED BY <1>1, <1>3, <2>1, <3>2 DEF TokenKept
  <2>4. CASE Selected(h) \/ PublishedRouted(h) \/ PublishedGone(h)
    <3>1. PICK pc, t : /\ op' = [op EXCEPT ![h].pc = pc, ![h].token = t]
                       /\ t \in {entries[op[h].entry].token, entries[op[h].entry].sessionToken}
      BY <2>4 DEF Selected, PublishedRouted, PublishedGone
    <3> DEFINE c == [op[h] EXCEPT !.pc = pc, !.token = t]
    <3>2. PICK e \in Entries : op[h].entry = e
      BY <1>1, <2>1
    <3>3. op' = [op EXCEPT ![h] = c] /\ c.entry = e /\ c.token = t
      BY <1>1, <3>1, <3>2 DEF CallOver
    <3>4. t \in {NoToken, entries[e].token, entries[e].sessionToken}
      BY <3>1, <3>2
    <3> HIDE DEF c, Goal
    <3> QED BY <1>5, <3>3, <3>4
  <2> QED BY <1>15, <2>2, <2>3, <2>4 DEF Answer
<1>16. ASSUME NEW h \in Handler, NextIdle(h) PROVE Goal
  <2>1. PICK e \in op[h].idle : HandleDisconnect(h, e, FALSE, op[h].idle \ {e})
    BY <1>16 DEF NextIdle
  <2>2. e \in Entries
    BY <1>1, <2>1 DEF CallOver
  <2> QED BY <1>8, <2>1, <2>2
<1>17. ASSUME NEW h \in Handler, Failed(h) PROVE Goal
  <2>1. Return(h) \/ Forget(h) \/ (op[h].pc = "deleteExpired" /\ Reject(h))
    BY <1>17 DEF Failed
  <2>2. "deleteExpired" \in Working
    BY DEF Working, Handling
  <2> QED BY <1>7, <1>10, <1>11, <2>1, <2>2
<1>18. ASSUME NEW h \in Handler, IdleScan(h) PROVE Goal
  <2>1. PICK idle : DisconnectIdleSessions(h, idle)
    BY <1>18 DEF IdleScan
  <2> DEFINE c == Call("nextIdle", None, NoToken, FALSE, idle)
  <2>2. op' = [op EXCEPT ![h] = c] /\ c.pc \notin Working
    BY <1>2, <2>1 DEF DisconnectIdleSessions, Call
  <2> QED BY <1>4, <2>2
<1> QED BY <1>3, <1>12, <1>13, <1>14, <1>15, <1>16, <1>17, <1>18
        DEF Next, Packet, Connect, ConnectionOpen, Revoke

\* Whoever comes to have to do with a token has presented it.
LEMMA HoldersStep == ASSUME HistoryInv, PresenceNext PROVE HoldersInv'
<1>1. /\ Next /\ IInv /\ LiveIffMapped /\ HoldersInv /\ IInv'
      /\ holders' = [t \in Token |-> holders[t] \cup Presenters(t)']
  BY InvStep DEF PresenceNext, HistoryInv, PresenceInv
<1>2. \A e \in Entries : e \in Entries' /\ AddressOf(e)' = AddressOf(e) /\ AddressOf(e) \in Address
  BY <1>1, AddressStays, Stays
<1>3. /\ \A e \in Entries' : AddressOf(e)' \in Address
      /\ \A h \in Handler : op'[h].token \in Token \cup {NoToken}
      /\ \A h \in Handler : op'[h].pc \in Working => op'[h].entry \in Entries'
  BY <1>1, TypedAfter
<1>4. holders' \in [Token -> SUBSET Address]
  <2>1. \A t \in Token : Presenters(t)' \subseteq Address
    <3> SUFFICES ASSUME NEW t \in Token, NEW b \in Presenters(t)' PROVE b \in Address
      OBVIOUS
    <3>1. PICK h \in Handler : op'[h].pc = "getSession" /\ b = AddressOf(op[h].entry)'
      BY DEF Presenters, At
    <3>2. PICK e \in Entries' : op'[h].entry = e
      BY <1>3, <3>1 DEF Working, Handling
    <3> QED BY <1>3, <3>1, <3>2 DEF AddressOf
  <2> QED BY <1>1, <2>1 DEF HoldersInv
<1>5. \A t \in Token : holders[t] \subseteq holders'[t]
  BY <1>1 DEF HoldersInv
<1>6. \A e \in Entries' :
        /\ entries'[e].token # NoToken => AddressOf(e)' \in holders'[entries'[e].token]
        /\ entries'[e].sessionToken # NoToken => AddressOf(e)' \in holders'[entries'[e].sessionToken]
  <2> SUFFICES ASSUME NEW e \in Entries'
               PROVE  /\ entries'[e].token # NoToken => AddressOf(e)' \in holders'[entries'[e].token]
                      /\ entries'[e].sessionToken # NoToken
                           => AddressOf(e)' \in holders'[entries'[e].sessionToken]
    OBVIOUS
  <2>1. CASE EntryNew(e)
    BY <2>1 DEF EntryNew
  <2>2. CASE EntryKept(e)
    <3>1. entries[e].token \in Token \cup {NoToken} /\ entries[e].sessionToken \in Token \cup {NoToken}
      BY <1>1, <2>2, Typed DEF EntryKept
    <3>2. /\ entries[e].token # NoToken => AddressOf(e) \in holders[entries[e].token]
          /\ entries[e].sessionToken # NoToken => AddressOf(e) \in holders[entries[e].sessionToken]
      BY <1>1, <2>2 DEF EntryKept, HoldersInv
    <3> QED BY <1>2, <1>5, <2>2, <3>1, <3>2 DEF EntryKept, SameTokens
  <2>3. CASE EntryGiven(e)
    <3>1. PICK h \in Handler :
            /\ e = op[h].entry /\ e \in Entries /\ op[h].token \in Token
            /\ op[h].pc \in Working
            /\ entries'[e].token \in {entries[e].token, op[h].token}
            /\ entries'[e].sessionToken \in {entries[e].sessionToken, op[h].token}
      BY <2>3 DEF EntryGiven, ValidToken, Authenticated, At, Working, Handling
    <3>2. entries[e].token \in Token \cup {NoToken} /\ entries[e].sessionToken \in Token \cup {NoToken}
      BY <1>1, <3>1, Typed
    <3>3. AddressOf(e) \in holders[op[h].token]
      BY <1>1, <3>1, ConnectionAssumption DEF HoldersInv
    <3>4. /\ entries[e].token # NoToken => AddressOf(e) \in holders[entries[e].token]
          /\ entries[e].sessionToken # NoToken => AddressOf(e) \in holders[entries[e].sessionToken]
      BY <1>1, <3>1 DEF HoldersInv
    <3> QED BY <1>2, <1>5, <3>1, <3>2, <3>3, <3>4
  <2> QED BY <1>1, <2>1, <2>2, <2>3, EntryTokens
<1>7. \A h \in Handler :
        op'[h].pc \in Working /\ op'[h].token # NoToken
          => AddressOf(op[h].entry)' \in holders'[op'[h].token]
  <2> SUFFICES ASSUME NEW h \in Handler, op'[h].pc \in Working, op'[h].token # NoToken
               PROVE  AddressOf(op[h].entry)' \in holders'[op'[h].token]
    OBVIOUS
  <2>1. op'[h].token \in Token
    BY <1>3
  <2>2. ASSUME NEW e \in Entries, op'[h].entry = e, AddressOf(e) \in holders[op'[h].token]
        PROVE  AddressOf(op[h].entry)' \in holders'[op'[h].token]
    BY <1>2, <1>5, <2>1, <2>2 DEF AddressOf
  <2>3. CASE TokenKept(h)
    <3>1. PICK e \in Entries : op[h].entry = e
      BY <1>1, <2>3, Typed DEF TokenKept
    <3>2. op'[h].entry = e /\ AddressOf(e) \in holders[op'[h].token]
      BY <1>1, <2>3, <3>1 DEF TokenKept, HoldersInv
    <3> QED BY <2>2, <3>2
  <2>4. CASE TokenRead(h)
    <3>1. PICK e \in Entries : /\ op'[h].entry = e
                               /\ op'[h].token \in {entries[e].token, entries[e].sessionToken}
      BY <2>4 DEF TokenRead
    <3> QED BY <1>1, <2>2, <3>1 DEF HoldersInv
  <2>5. CASE op'[h].pc = "getSession"
    <3>1. PICK t \in Token : op'[h].token = t
      BY <2>1
    <3>2. AddressOf(op[h].entry)' \in Presenters(t)'
      BY <2>5, <3>1 DEF Presenters, At
    <3> QED BY <1>1, <3>1, <3>2
  <2> QED BY <1>1, <2>3, <2>4, <2>5, CallTokens
<1>8. \A t \in Token : bus'[t] # <<>> => holders'[t] # {}
  <2> SUFFICES ASSUME NEW t \in Token, bus'[t] # <<>> PROVE holders'[t] # {}
    OBVIOUS
  <2>1. CASE bus'[t] = bus[t]
    BY <1>1, <1>5, <2>1 DEF HoldersInv
  <2>2. ASSUME NEW h \in Handler, NEW what, op[h].pc \in Working, Publish(op[h].token, what),
               bus'[t] # bus[t]
        PROVE  holders'[t] # {}
    <3>1. op[h].token = t
      BY <1>1, <2>2, Typed DEF Publish
    <3> QED BY <1>1, <1>5, <2>2, <3>1, ConnectionAssumption DEF HoldersInv
  <2> QED BY <1>1, <2>1, <2>2, BusEffect
<1> QED BY <1>4, <1>6, <1>7, <1>8 DEF HoldersInv

-----------------------------------------------------------------------------
(* What a step leaves as it is at an address nobody has troubled.           *)

LEMMA Parts ==
  ASSUME HistoryInv
  PROVE  /\ IInv /\ LiveIffMapped /\ Addressed /\ IdleTroubled /\ HoldersInv /\ PresenceInv
         /\ \A a \in Address \ troubled :
              /\ RightAt(a) /\ CurrentRight(a) /\ PastRight(a) /\ HeldRight(a)
              /\ \A h \in Handler : CallRight(h, a)
BY DEF HistoryInv, PresenceInv, HistoryRight

LEMMA Untroubled ==
  ASSUME PresenceNext, NEW a \in Address \ troubled'
  PROVE  /\ Next /\ a \in Address \ troubled
         /\ ~EndedInCall(a)' /\ ~AuthenticatedTwice(a)' /\ ~TokenShared(a)' /\ ~TroubleInStep(a)
         /\ holders' = [t \in Token |-> holders[t] \cup Presenters(t)']
BY DEF PresenceNext, Trouble

LEMMA NothingNew == ASSUME Next PROVE redis' \subseteq redis
<1>1. ASSUME NEW h \in Handler, IdleScan(h) PROVE Outside
  BY <1>1 DEF IdleScan, DisconnectIdleSessions, Outside
<1>2. ASSUME NEW h \in Handler, NextIdle(h) \/ Failed(h) PROVE Outside
  BY <1>2 DEF NextIdle, Failed, Outside
<1>3. ASSUME NEW t \in Token, Revoke(t) PROVE Outside
  BY <1>3 DEF Revoke, Outside
<1>4. Outside
  BY <1>1, <1>2, <1>3, PacketOutside, AnswerOutside DEF Next
<1> QED BY <1>4 DEF Outside

\* A call that a step does not touch works for the same address.
LEMMA WorksStays ==
  ASSUME IInv, LiveIffMapped, Next, NEW g \in Handler, op'[g] = op[g], NEW a
  PROVE  Works(g, a)' <=> Works(g, a)
<1>1. CASE op[g].pc \in Working
  <2>1. PICK e \in Entries : op[g].entry = e
    BY <1>1, Typed
  <2>2. op'[g].entry = e /\ AddressOf(e)' = AddressOf(e)
    BY <2>1, AddressStays
  <2>3. AddressOf(op[g].entry)' = AddressOf(op[g].entry)
    BY <2>1, <2>2 DEF AddressOf
  <2> QED BY <2>3 DEF Works
<1>2. CASE op[g].pc \notin Working
  BY <1>2 DEF Works
<1> QED BY <1>1, <1>2

\* The token of a is published of by a call that works for a.
LEMMA OwnBus ==
  ASSUME HistoryInv, Next, NEW a \in Address \ troubled, NEW t \in Token, a \in holders[t],
         bus'[t] # bus[t]
  PROVE  \E h \in Handler, what \in Message :
           /\ Works(h, a) /\ op[h].token = t /\ Publish(t, what)
           /\ Authenticated(h) \/ PublishedRouted(h) \/ ZoneRequested(h) \/ PublishedGone(h)
<1>1. PICK h \in Handler, what \in Message :
        /\ op[h].pc \in Working /\ Publish(op[h].token, what)
        /\ Authenticated(h) \/ PublishedRouted(h) \/ ZoneRequested(h) \/ PublishedGone(h)
  BY BusEffect
<1>2. op[h].token = t
  BY <1>1, Parts, Typed DEF Publish
<1>3. AddressOf(op[h].entry) \in holders[t]
  BY <1>1, <1>2, Parts, ConnectionAssumption DEF HoldersInv
<1>4. holders[t] = {a}
  BY Parts DEF HeldRight
<1> QED BY <1>1, <1>2, <1>3, <1>4 DEF Works

\* The calls that publish work with the token of the entry.
LEMMA PublishersToken ==
  ASSUME HistoryInv, NEW a \in Address \ troubled, NEW h \in Handler, Works(h, a),
         Authenticated(h) \/ PublishedRouted(h) \/ ZoneRequested(h) \/ PublishedGone(h)
  PROVE  op[h].token = entries[connectionSessions[a]].token
<1>1. op[h].pc \in Authenticating \cup Routed \cup Cleaning
  BY DEF Authenticated, PublishedRouted, ZoneRequested, PublishedGone, At, Authenticating, Routed,
         Cleaning
<1> QED BY <1>1, Parts DEF CallRight

\* An entry is new at a if a has just connected.
LEMMA NewEntryAt ==
  ASSUME HistoryInv, Next, NEW a \in Address \ troubled, NEW e \in Entries' \ Entries,
         AddressOf(e)' = a
  PROVE  Connect(a)
<1>1. /\ entries \in Seq(EntryRecord) /\ Entries = 1 .. Len(entries) /\ Len(entries) \in Nat
      /\ Entries' = 1 .. Len(entries')
  BY Parts, Typed DEF Entries
<1>2. ASSUME Len(entries') = Len(entries) PROVE FALSE
  BY <1>1, <1>2
<1>3. ASSUME NEW s, NEW b \in Address, Tracks(s, b)
      PROVE  b = a /\ connectionSessions[a] = None
  <2>1. CASE connectionSessions[b] # None
    BY <1>2, <1>3, <2>1 DEF Tracks, Tracked
  <2>2. CASE connectionSessions[b] = None
    <3>1. Len(Tracked(s, b)) = Len(entries) + 1
      BY <1>1, <2>2 DEF Tracked
    <3>2. e = EntryOf(s, b)
      BY <1>1, <1>3, <2>2, <3>1 DEF Tracks, EntryOf
    <3>3. entries'[e].session = s /\ soe'[s].address = b
      BY <1>3, <2>2, <3>2 DEF Tracks
    <3> QED BY <2>2, <3>3 DEF AddressOf
  <2> QED BY <2>1, <2>2
<1>4. ASSUME NEW s \in SessionIds, Connected(s), soe[s].address = a, connectionSessions[a] = None
      PROVE  FALSE
  <2>1. sessions[a] = s /\ s # None
    BY <1>4, Parts DEF LiveIffMapped, SessionIds, None
  <2> QED BY <1>4, <2>1, Parts DEF RightAt
<1>5. ASSUME NEW b \in Address, Connect(b) PROVE Connect(a)
  BY <1>3, <1>5, ConnectTracks, Parts
<1>6. ASSUME NEW s \in SessionIds, ConnectionOpen(s) PROVE FALSE
  <2>1. soe[s].address = a /\ connectionSessions[a] = None
    BY <1>3, <1>6, OpenTracks, AddressTyped, Parts DEF IInv
  <2> QED BY <1>4, <1>6, <2>1 DEF ConnectionOpen
<1>7. ASSUME NEW h \in Handler, NEW s \in SessionIds, NEW t \in Token, ClientIdMsg(h, s, t)
      PROVE  FALSE
  <2>1. soe[s].address = a /\ connectionSessions[a] = None
    BY <1>3, <1>7, ClientIdTracks, AddressTyped, Parts DEF IInv
  <2> QED BY <1>4, <1>7, <2>1 DEF ClientIdMsg
<1>8. ASSUME NEW h \in Handler, Answer(h) PROVE FALSE
  <2>1. CASE ValidToken(h) \/ Authenticated(h) \/ ZoneRequested(h)
    <3>1. PICK x : entries' = [entries EXCEPT ![op[h].entry] = x]
      BY <2>1 DEF ValidToken, Authenticated, ZoneRequested
    <3> QED BY <1>1, <1>2, <3>1
  <2>2. CASE entries' = entries
    BY <1>2, <2>2
  <2> QED BY <1>8, <2>1, <2>2 DEF Answer, InvalidToken, ExpiredToken, DeletedExpired, Updated,
             Selected, PublishedRouted, PublishedGone, DeletedGone, Reject, Forget, tables
<1>9. ASSUME NEW h \in Handler, Failed(h) PROVE FALSE
  BY <1>2, <1>9 DEF Failed, Reject, Forget, tables
<1> QED BY <1>2, <1>5, <1>6, <1>7, <1>8, <1>9
        DEF Next, Packet, IdleScan, Disconnect, SelectCharacter, RefuseSelect,
            DisconnectIdleSessions, NextIdle, Revoke, tables

\* Where an address stands: its entry, and that of its calls.
LEMMA Current ==
  ASSUME HistoryInv, NEW a \in Address \ troubled
  PROVE  /\ connectionSessions[a] \in {None} \cup Entries
         /\ connectionSessions[a] # None =>
              /\ connectionSessions[a] \in Entries
              /\ AddressOf(connectionSessions[a]) = a
         /\ sessions[a] # None =>
              /\ connectionSessions[a] # None
              /\ entries[connectionSessions[a]].session = sessions[a]
              /\ Connected(sessions[a])
         /\ \A h \in Handler : Works(h, a) =>
              /\ op[h].entry = connectionSessions[a] /\ connectionSessions[a] # None
              /\ op[h].pc \in Cleaning => op[h].drop /\ sessions[a] = None
<1>1. /\ connectionSessions[a] \in {None} \cup Entries
      /\ connectionSessions[a] # None => AddressOf(connectionSessions[a]) = a
  BY Parts, Typed DEF Addressed
<1>2. sessions[a] # None => Connected(sessions[a])
  BY Parts, Typed DEF LiveIffMapped
<1>3. \A h \in Handler : Works(h, a) =>
         /\ op[h].entry = connectionSessions[a]
         /\ op[h].pc \in Cleaning => op[h].drop /\ sessions[a] = None
  BY Parts DEF CallRight, RightAt, CleansOf, Works
<1>4. \A h \in Handler : Works(h, a) => op[h].entry \in Entries
  BY Parts, Typed DEF Works
<1>5. None \notin Entries
  BY Parts, Typed DEF None
<1> QED BY <1>1, <1>2, <1>3, <1>4, <1>5, Parts DEF RightAt

\* An entry of the address keeps its token; only its current entry can be given one,
\* that is in Redis and that it did not have.
LEMMA TokenOnce ==
  ASSUME HistoryInv, Next, NEW a \in Address \ troubled, NEW e \in Entries, AddressOf(e) = a
  PROVE  \/ entries'[e].token = entries[e].token
         \/ /\ e = connectionSessions[a] /\ entries[e].token = NoToken
            /\ connectionSessions'[a] = e /\ entries'[e].token \in redis
<1>1. e \in Entries' /\ (EntryKept(e) \/ EntryGiven(e))
  BY Parts, Stays, EntryTokens DEF EntryNew
<1>2. CASE EntryKept(e)
  BY <1>2 DEF EntryKept, SameTokens
<1>3. ASSUME NEW h \in Handler, e = op[h].entry, ValidToken(h), entries'[e].token = op[h].token
      PROVE  /\ e = connectionSessions[a] /\ entries[e].token = NoToken
             /\ connectionSessions'[a] = e /\ entries'[e].token \in redis
  <2>1. op[h].pc \in Checking /\ op[h].pc \in Working
    BY <1>3 DEF ValidToken, At, Checking, Working, Handling
  <2>2. Works(h, a) /\ CallRight(h, a)
    BY <1>3, <2>1, Parts DEF Works
  <2> QED BY <1>3, <2>1, <2>2 DEF CallRight, ValidToken
<1> QED BY <1>1, <1>2, <1>3 DEF EntryGiven

\* What is over for a client of the address stays over.
LEMMA PastStays ==
  ASSUME HistoryInv, Next, NEW a \in Address \ troubled, NEW e \in Entries, AddressOf(e) = a,
         entries[e].token # NoToken, e # connectionSessions[a]
  PROVE  Past(e)'
<1>1. PICK t \in Token : entries[e].token = t
  BY Parts, Typed
<1>2. /\ Past(e) /\ redis' \subseteq redis
      /\ entries'[e].session = entries[e].session
      /\ ~Connected(entries[e].session) => ~Connected(entries[e].session)'
  <2>1. PastRight(a) /\ IInv /\ LiveIffMapped
    BY Parts
  <2> QED BY <2>1, Stays, NothingNew DEF PastRight
<1>3. entries'[e].token = t
  BY <1>1, TokenOnce
<1>4. bus'[t] = bus[t]
  <2>1. SUFFICES ASSUME bus'[t] # bus[t] PROVE FALSE
    OBVIOUS
  <2>2. a \in holders[t]
    BY <1>1, Parts DEF HoldersInv
  <2>3. PICK h \in Handler :
          /\ Works(h, a) /\ op[h].token = t
          /\ Authenticated(h) \/ PublishedRouted(h) \/ ZoneRequested(h) \/ PublishedGone(h)
    BY <2>1, <2>2, OwnBus
  <2>4. entries[connectionSessions[a]].token = t
    BY <2>3, PublishersToken
  <2>5. connectionSessions[a] \in Entries /\ AddressOf(connectionSessions[a]) = a
    BY <2>3, Current
  <2> QED BY <1>1, <2>4, <2>5, Parts DEF PastRight
<1>5. Whole(bus'[t]) /\ Ended(bus'[t]) /\ t \notin redis'
  BY <1>1, <1>2, <1>4 DEF Past
<1> QED BY <1>2, <1>3, <1>5 DEF Past

\* An entry with a token that an address loses is past.
LEMMA PastStep ==
  ASSUME HistoryInv, PresenceNext, NEW a \in Address \ troubled',
         connectionSessions[a] # None /\ connectionSessions'[a] # connectionSessions[a] =>
           \/ entries[connectionSessions[a]].token = NoToken
           \/ \A e \in Entries : e = connectionSessions[a] => Past(e)'
  PROVE  PastRight(a)'
<1>1. Next /\ a \in Address \ troubled /\ IInv /\ LiveIffMapped
  BY Untroubled, Parts
<1>2. \A e \in Entries' : AddressOf(e)' = a /\ entries'[e].token # NoToken =>
        e \in Entries /\ AddressOf(e) = a
  BY <1>1, EntryTokens, Stays DEF EntryNew, EntryKept, EntryGiven
<1>3. ASSUME NEW e \in Entries, AddressOf(e) = a, entries'[e].token # NoToken,
             e # connectionSessions'[a]
      PROVE  Past(e)'
  <2>1. entries[e].token # NoToken
    BY <1>1, <1>3, TokenOnce
  <2>2. CASE e = connectionSessions[a]
    BY <1>1, <1>3, <2>1, <2>2, Typed DEF None
  <2> QED BY <1>1, <1>3, <2>1, <2>2, PastStays
<1>4. ASSUME NEW e \in Entries, NEW f \in Entries, AddressOf(e) = a, AddressOf(f) = a,
             entries'[e].token # NoToken, entries'[f].token = entries'[e].token
      PROVE  f = e
  <2>1. /\ entries'[e].token = entries[e].token \/ entries'[e].token \in redis
        /\ entries'[f].token = entries[f].token \/ entries'[f].token \in redis
    BY <1>1, <1>4, TokenOnce
  <2>2. PastRight(a)
    BY <1>1, Parts
  <2>3. CASE entries'[e].token = entries[e].token /\ entries'[f].token = entries[f].token
    BY <1>4, <2>2, <2>3 DEF PastRight
  <2>4. ASSUME NEW x \in {e, f}, entries'[x].token # entries[x].token
        PROVE  x = connectionSessions[a] /\ entries'[x].token \in redis
    BY <1>1, <1>4, <2>4, TokenOnce
  <2>5. ASSUME NEW x \in {e, f}, x # connectionSessions[a], entries'[x].token \in redis PROVE FALSE
    <3>1. entries[x].token = entries'[x].token /\ x \in Entries /\ AddressOf(x) = a
      BY <1>4, <2>4, <2>5
    <3> QED BY <1>4, <2>2, <2>5, <3>1 DEF PastRight, Past
  <2> QED BY <1>4, <2>3, <2>4, <2>5
<1> QED BY <1>2, <1>3, <1>4 DEF PastRight

\* What is known of who presented a token stays right.
LEMMA HeldStep ==
  ASSUME HistoryInv, PresenceNext, NEW a \in Address \ troubled'
  PROVE  HeldRight(a)'
<1>1. /\ Next /\ a \in Address \ troubled /\ IInv /\ LiveIffMapped /\ HoldersInv
      /\ ~TokenShared(a)' /\ \A t \in Token : holders[t] \subseteq holders'[t]
  BY Untroubled, Parts DEF HoldersInv
<1> SUFFICES ASSUME NEW t \in Token, a \in holders'[t]
             PROVE  /\ holders'[t] = {a}
                    /\ bus'[t] # <<>> =>
                         \E e \in Entries' : AddressOf(e)' = a /\ entries'[e].token = t
  BY DEF HeldRight
<1>2. holders'[t] = {a}
  BY <1>1 DEF TokenShared
<1>3. ASSUME NEW e \in Entries, AddressOf(e) = a, entries[e].token = t
      PROVE  \E f \in Entries' : AddressOf(f)' = a /\ entries'[f].token = t
  <2>1. entries'[e].token = t
    BY <1>1, <1>3, TokenOnce, ConnectionAssumption
  <2> QED BY <1>1, <1>3, <2>1, Stays
<1>4. CASE bus'[t] = bus[t] /\ bus[t] # <<>>
  <2>1. a \in holders[t]
    BY <1>1, <1>2, <1>4 DEF HoldersInv
  <2> QED BY <1>1, <1>2, <1>3, <1>4, <2>1, Parts DEF HeldRight
<1>5. CASE bus'[t] # bus[t]
  <2>1. PICK h \in Handler, what \in Message :
          /\ op[h].pc \in Working /\ Publish(op[h].token, what)
          /\ Authenticated(h) \/ PublishedRouted(h) \/ ZoneRequested(h) \/ PublishedGone(h)
    BY <1>1, <1>5, BusEffect
  <2>2. op[h].token = t
    BY <1>1, <1>5, <2>1, Typed DEF Publish
  <2>3. Works(h, a)
    BY <1>1, <1>2, <2>1, <2>2, ConnectionAssumption DEF HoldersInv, Works
  <2> QED BY <1>1, <1>2, <1>3, <2>1, <2>2, <2>3, Current, PublishersToken
<1> QED BY <1>2, <1>4, <1>5

-----------------------------------------------------------------------------
(* The steps of others.                                                     *)

\* What the entry of an address and the calls that work for it have stays right.
LEMMA AsideStep ==
  ASSUME HistoryInv, PresenceNext, NEW a \in Address \ troubled',
         sessions'[a] = sessions[a], connectionSessions'[a] = connectionSessions[a],
         \A g \in Handler : op'[g] = op[g] \/ (~Works(g, a) /\ ~Works(g, a)')
  PROVE  HistoryRight(a)'
<1>1. /\ Next /\ a \in Address \ troubled /\ IInv /\ LiveIffMapped /\ HoldersInv
      /\ \A h \in Handler : CallRight(h, a)
      /\ CurrentRight(a)
  BY Untroubled, Parts
<1>2. \A g \in Handler : Works(g, a)' <=> Works(g, a)
  BY <1>1, WorksStays
<1>3. \A h \in Handler : Works(h, a) => op'[h] = op[h]
  OBVIOUS
<1>4. \A h \in Handler : Works(h, a) =>
        ~(ValidToken(h) \/ Authenticated(h) \/ PublishedRouted(h) \/ ZoneRequested(h) \/ PublishedGone(h))
  <2> SUFFICES ASSUME NEW h \in Handler, Works(h, a),
                      ValidToken(h) \/ Authenticated(h) \/ PublishedRouted(h) \/ ZoneRequested(h)
                        \/ PublishedGone(h)
               PROVE  FALSE
    OBVIOUS
  <2>1. op \in [Handler -> CallOver(Entries)] /\ op'[h] = op[h]
    BY <1>1, <1>3, Typed
  <2>2. CASE ValidToken(h)
    BY <2>1, <2>2 DEF ValidToken, At, Goto, CallOver
  <2>3. CASE Authenticated(h) \/ ZoneRequested(h)
    BY <2>1, <2>3 DEF Authenticated, ZoneRequested, At, Return, Idle, Call
  <2>4. CASE PublishedRouted(h)
    BY <2>1, <2>4 DEF PublishedRouted, At, CallOver
  <2>5. CASE PublishedGone(h)
    BY <2>1, <2>5 DEF PublishedGone, At, CallOver
  <2> QED BY <2>2, <2>3, <2>4, <2>5
<1>5. \A t \in Token : a \in holders[t] => bus'[t] = bus[t]
  BY <1>1, <1>4, OwnBus
<1>6. ASSUME NEW e \in Entries, AddressOf(e) = a PROVE SameTokens(e)
  <2>1. ASSUME NEW h \in Handler, e = op[h].entry, ValidToken(h) \/ Authenticated(h) PROVE FALSE
    <3>1. op[h].pc \in Working
      BY <2>1 DEF ValidToken, Authenticated, At, Working, Handling
    <3> QED BY <1>4, <1>6, <2>1, <3>1 DEF Works
  <2> QED BY <1>1, <2>1, Stays, EntryTokens DEF EntryNew, EntryKept, EntryGiven
<1>7. ASSUME NEW h \in Handler PROVE CallRight(h, a)'
  <2> SUFFICES ASSUME Works(h, a)' PROVE CallRight(h, a)'
    BY DEF CallRight
  <2>1. Works(h, a) /\ op'[h] = op[h]
    BY <1>2, <1>3
  <2>2. PICK e \in Entries : e = connectionSessions[a] /\ AddressOf(e) = a
    BY <1>1, <2>1, Current
  <2>3. CallRight(h, a) /\ SameTokens(e) /\ connectionSessions'[a] = e
    BY <1>1, <1>6, <2>2
  <2>4. Alone(h, a) => Alone(h, a)'
    BY <1>2 DEF Alone
  <2>5. op[h].pc \in Authenticating => op[h].token \in Token /\ a \in holders[op[h].token]
    <3>1. op[h].pc \in Authenticating => op[h].token = entries[e].token /\ op[h].token \in Token
      BY <1>1, <2>1, <2>2, <2>3 DEF CallRight, IInv, CallsInv, Fine, Authenticating
    <3> QED BY <1>1, <2>2, <3>1, ConnectionAssumption DEF HoldersInv
  <2>6. op[h].pc \in Authenticating /\ bus[op[h].token] = <<>> => bus'[op[h].token] = <<>>
    BY <1>5, <2>5
  <2> QED BY <2>1, <2>2, <2>3, <2>4, <2>6 DEF CallRight, SameTokens
<1>8. CurrentRight(a)'
  <2> SUFFICES ASSUME connectionSessions[a] # None PROVE CurrentRight(a)'
    BY DEF CurrentRight
  <2>1. PICK e \in Entries : e = connectionSessions[a] /\ AddressOf(e) = a
    BY <1>1, Current
  <2>2. /\ connectionSessions'[a] = e /\ SameTokens(e)
        /\ entries[e].token \in Token \cup {NoToken}
        /\ entries[e].sessionToken # NoToken => entries[e].sessionToken = entries[e].token
    BY <1>1, <1>6, <2>1, Typed DEF CurrentRight
  <2>3. entries[e].sessionToken # NoToken => bus'[entries[e].token] = bus[entries[e].token]
    BY <1>1, <1>5, <2>1, <2>2 DEF HoldersInv
  <2>4. \A pc : (\E h \in Handler : Works(h, a)' /\ op'[h].pc = pc)
                  <=> \E h \in Handler : Works(h, a) /\ op[h].pc = pc
    BY <1>2, <1>3
  <2>5. (\E h \in Handler : Works(h, a) /\ op[h].pc \in Authenticating)
          => \E h \in Handler : Works(h, a)' /\ op'[h].pc \in Authenticating
    BY <1>2, <1>3
  <2> QED BY <1>1, <2>1, <2>2, <2>3, <2>4, <2>5 DEF CurrentRight, SameTokens
<1>9. PastRight(a)' /\ HeldRight(a)'
  BY PastStep, HeldStep
<1> QED BY <1>7, <1>8, <1>9 DEF HistoryRight

-----------------------------------------------------------------------------
(* The steps of an address's own calls.                                     *)

\* A history that is not over goes on.
LEMMA WholeGoesOn ==
  ASSUME NEW q \in Seq(Message), Whole(q), ~Ended(q), NEW m \in Message, m # "connected"
  PROVE  Whole(Append(q, m)) /\ (Ended(Append(q, m)) <=> m = "disconnected")
<1> DEFINE r == Append(q, m)
<1>1. /\ Len(q) \in Nat /\ Len(r) = Len(q) + 1 /\ DOMAIN q = 1 .. Len(q) /\ DOMAIN r = 1 .. Len(r)
      /\ r[Len(r)] = m /\ \A i \in 1 .. Len(q) : r[i] = q[i]
  OBVIOUS
<1>2. Len(q) > 0 /\ Len(q) \in DOMAIN q
  BY <1>1 DEF Whole
<1>3. r # <<>>
  BY <1>1
<1> HIDE DEF r
<1>4. ASSUME NEW i \in DOMAIN r
      PROVE  /\ (r[i] = "connected") <=> (i = 1)
             /\ r[i] = "disconnected" => i = Len(r)
  BY <1>1, <1>2, <1>4 DEF Whole, Ended
<1>5. Whole(r) /\ (Ended(r) <=> m = "disconnected")
  BY <1>1, <1>3, <1>4 DEF Whole, Ended
<1> QED BY <1>5 DEF r

LEMMA WholeBegins == Whole(Append(<<>>, "connected")) /\ ~Ended(Append(<<>>, "connected"))
<1>1. Append(<<>>, "connected") = <<"connected">>
  OBVIOUS
<1> QED BY <1>1 DEF Whole, Ended

\* The calls a step does not touch work for whom they did.
LEMMA OthersWork ==
  ASSUME HistoryInv, Next, NEW a, NEW h \in Handler, \A g \in Handler \ {h} : op'[g] = op[g]
  PROVE  \A g \in Handler \ {h} : Works(g, a)' <=> Works(g, a)
BY WorksStays, Parts

\* A call that is alone takes a step and leaves the address as right as it was.
LEMMA AloneStep ==
  ASSUME HistoryInv, PresenceNext, NEW a \in Address \ troubled', NEW h \in Handler,
         \A g \in Handler \ {h} : op'[g] = op[g] /\ ~Works(g, a),
         connectionSessions'[a] = connectionSessions[a], CurrentRight(a)',
         Alone(h, a)' => CallRight(h, a)'
  PROVE  HistoryRight(a)'
<1>1. \A g \in Handler \ {h} : ~Works(g, a)'
  BY Untroubled, OthersWork
<1>2. \A g \in Handler : CallRight(g, a)'
  BY <1>1 DEF CallRight, Alone
<1> QED BY <1>2, PastStep, HeldStep DEF HistoryRight

\* While an authenticated client is connected, all its calls are those that route it.
LEMMA BusyCalls ==
  ASSUME HistoryInv, NEW a \in Address \ troubled, sessions[a] # None,
         entries[connectionSessions[a]].sessionToken # NoToken
  PROVE  \A g \in Handler : Works(g, a) => op[g].pc \in {"select"} \cup Routed
<1> SUFFICES ASSUME NEW g \in Handler, Works(g, a) PROVE op[g].pc \in {"select"} \cup Routed
  OBVIOUS
<1>1. CallRight(g, a) /\ CurrentRight(a) /\ connectionSessions[a] # None
  BY Parts, Current
<1>2. op[g].pc \notin Cleaning
  BY Current
<1>3. op[g].pc \notin Checking /\ op[g].pc \notin Authenticating
  BY <1>1 DEF CallRight, CurrentRight
<1> QED BY <1>2, <1>3 DEF Works, Working, Handling, Checking, Authenticating, Routed

\* The routing of a connected client goes on.
LEMMA BusyStep ==
  ASSUME HistoryInv, PresenceNext, NEW a \in Address \ troubled', NEW h \in Handler,
         NEW e \in Entries, e = connectionSessions[a],
         sessions[a] # None, entries[e].sessionToken # NoToken,
         sessions'[a] = sessions[a], connectionSessions'[a] = e, SameTokens(e),
         \A g \in Handler \ {h} : op'[g] = op[g],
         op'[h].pc \in Working =>
           /\ op'[h].pc \in {"select"} \cup Routed /\ op'[h].entry = e
           /\ op'[h].pc \in Routed => op'[h].token = entries[e].token,
         bus' = bus \/ \E m \in {"routed", "zoneRequest"} : Publish(entries[e].token, m)
  PROVE  HistoryRight(a)'
<1>1. /\ Next /\ a \in Address \ troubled /\ \A g \in Handler : CallRight(g, a)
      /\ CurrentRight(a) /\ bus \in [Token -> Seq(Message)] /\ connectionSessions[a] # None
      /\ entries[e].token \in Token \cup {NoToken}
  BY Untroubled, Parts, Typed, Current
<1>2. \A g \in Handler : Works(g, a) => op[g].pc \in {"select"} \cup Routed
  BY <1>1, BusyCalls
<1>3. \A g \in Handler : Works(g, a)' =>
        /\ op'[g].pc \in {"select"} \cup Routed /\ op'[g].entry = e
        /\ op'[g].pc \in Routed => op'[g].token = entries[e].token
  <2> SUFFICES ASSUME NEW g \in Handler, Works(g, a)'
               PROVE  /\ op'[g].pc \in {"select"} \cup Routed /\ op'[g].entry = e
                      /\ op'[g].pc \in Routed => op'[g].token = entries[e].token
    OBVIOUS
  <2>1. CASE g = h
    BY <2>1 DEF Works
  <2>2. CASE g # h
    <3>1. Works(g, a) /\ op'[g] = op[g]
      BY <1>1, <2>2, OthersWork
    <3> QED BY <1>1, <1>2, <3>1 DEF CallRight
  <2> QED BY <2>1, <2>2
<1>4. \A g \in Handler : CallRight(g, a)'
  BY <1>3 DEF CallRight, SameTokens, Checking, Authenticating, Cleaning, Routed
<1>5. CurrentRight(a)'
  <2>1. PICK t \in Token : entries[e].token = t /\ entries[e].sessionToken = t
    BY <1>1 DEF CurrentRight
  <2>2. Whole(bus[t]) /\ ~Ended(bus[t])
    BY <1>1, <1>2, <2>1 DEF CurrentRight, Routed
  <2>3. Whole(bus'[t]) /\ ~Ended(bus'[t])
    <3>1. CASE bus' = bus
      BY <2>2, <3>1
    <3>2. ASSUME NEW m \in {"routed", "zoneRequest"}, Publish(t, m) PROVE Whole(bus'[t]) /\ ~Ended(bus'[t])
      <4>1. bus'[t] = Append(bus[t], m) /\ bus[t] \in Seq(Message) /\ m \in Message
        BY <1>1, <3>2 DEF Publish, Message
      <4> QED BY <2>2, <3>2, <4>1, WholeGoesOn
    <3> QED BY <2>1, <3>1, <3>2
  <2>4. \A g \in Handler : ~(Works(g, a)' /\ op'[g].pc = "deleteGone")
    BY <1>3 DEF Routed
  <2> QED BY <2>1, <2>3, <2>4, ConnectionAssumption DEF CurrentRight, SameTokens
<1> QED BY <1>4, <1>5, PastStep, HeldStep DEF HistoryRight

\* The last call of a client goes, and its entry with it.
LEMMA DroppedStep ==
  ASSUME HistoryInv, PresenceNext, NEW a \in Address \ troubled', NEW h \in Handler,
         \A g \in Handler \ {h} : op'[g] = op[g] /\ ~Works(g, a),
         op'[h].pc \notin Working, connectionSessions'[a] = None,
         connectionSessions[a] # None =>
           \/ entries[connectionSessions[a]].token = NoToken
           \/ \A e \in Entries : e = connectionSessions[a] => Past(e)'
  PROVE  HistoryRight(a)'
<1>1. \A g \in Handler \ {h} : ~Works(g, a)'
  BY Untroubled, OthersWork
<1>2. ~Works(h, a)'
  BY DEF Works
<1>3. \A g \in Handler : CallRight(g, a)'
  BY <1>1, <1>2 DEF CallRight
<1>4. CurrentRight(a)'
  BY DEF CurrentRight
<1> QED BY <1>3, <1>4, PastStep, HeldStep DEF HistoryRight

\* What a call that checks a token has to do with.
LEMMA CheckingAt ==
  ASSUME HistoryInv, NEW a \in Address \ troubled, NEW h \in Handler, Works(h, a),
         op[h].pc \in Checking \cup Authenticating \cup Cleaning
  PROVE  /\ \A g \in Handler \ {h} : ~Works(g, a)
         /\ connectionSessions[a] \in Entries /\ op[h].entry = connectionSessions[a]
         /\ op[h].pc \in Checking =>
              /\ entries[connectionSessions[a]].token = NoToken
              /\ entries[connectionSessions[a]].sessionToken = NoToken
         /\ op[h].pc \in Authenticating =>
              /\ entries[connectionSessions[a]].token = op[h].token /\ op[h].token \in Token
              /\ entries[connectionSessions[a]].sessionToken = NoToken
              /\ bus[op[h].token] = <<>>
         /\ op[h].pc \notin Cleaning => sessions[a] # None
<1>1. CallRight(h, a) /\ CurrentRight(a) /\ connectionSessions[a] # None
  BY Parts, Current
<1>2. connectionSessions[a] \in Entries /\ op[h].entry = connectionSessions[a]
  BY Current
<1>3. op[h].pc \in Authenticating => op[h].token \in Token
  BY Parts DEF IInv, CallsInv, Fine, Authenticating
<1>4. op[h].pc \notin Cleaning => op[h].pc \in Handling
  BY DEF Checking, Authenticating, Cleaning, Handling
<1> QED BY <1>1, <1>2, <1>3, <1>4 DEF CallRight, CurrentRight, Alone

LEMMA ValidHistory ==
  ASSUME HistoryInv, PresenceNext, NEW a \in Address \ troubled', NEW h \in Handler, Works(h, a),
         ValidToken(h)
  PROVE  HistoryRight(a)'
<1>1. /\ Next /\ a \in Address \ troubled /\ op \in [Handler -> CallOver(Entries)]
      /\ entries \in Seq(EntryRecord) /\ Entries = 1 .. Len(entries)
      /\ op[h].pc = "getSession" /\ op[h].pc \in Checking
  BY Untroubled, Parts, Typed DEF ValidToken, At, Checking
<1>2. PICK e \in Entries : e = connectionSessions[a]
  BY <1>1, CheckingAt
<1>3. PICK t \in Token : op[h].token = t
  BY Parts, <1>1 DEF IInv, CallsInv, Fine
<1>4. /\ \A g \in Handler \ {h} : ~Works(g, a)
      /\ op[h].entry = e /\ entries[e].token = NoToken /\ entries[e].sessionToken = NoToken
      /\ sessions[a] # None /\ AddressOf(e) = a /\ e # None
  BY <1>1, <1>2, CheckingAt, Current DEF Checking, Cleaning
<1>5. entries'[e].token = t /\ entries'[e].sessionToken = NoToken
  <2> DEFINE x == [entries[e] EXCEPT !.token = t]
  <2>1. entries' = [entries EXCEPT ![e] = x]
    BY <1>3, <1>4 DEF ValidToken
  <2>2. entries[e] \in EntryRecord
    BY <1>1
  <2>3. x.token = t /\ x.sessionToken = NoToken
    BY <1>4, <2>2 DEF EntryRecord, EntryOver
  <2> HIDE DEF x
  <2> QED BY <1>1, <2>1, <2>3
<1>6. /\ op'[h].pc = "updateSession" /\ op'[h].entry = e /\ op'[h].token = t
      /\ \A g \in Handler \ {h} : op'[g] = op[g]
  <2> DEFINE c == [op[h] EXCEPT !.pc = "updateSession"]
  <2>1. op' = [op EXCEPT ![h] = c] /\ c.pc = "updateSession" /\ c.entry = e /\ c.token = t
    BY <1>1, <1>3, <1>4 DEF ValidToken, Goto, CallOver
  <2> HIDE DEF c
  <2> QED BY <1>1, <2>1
<1>7. /\ bus' = bus /\ sessions' = sessions /\ connectionSessions' = connectionSessions /\ t \in redis
  BY <1>3 DEF ValidToken, sessionVars
<1>8. bus[t] = <<>>
  <2> SUFFICES ASSUME bus[t] # <<>> PROVE FALSE
    OBVIOUS
  <2>1. HeldRight(a) /\ PastRight(a) /\ HoldersInv
    BY <1>1, Parts
  <2>2. a \in holders[t]
    BY <1>1, <1>3, <2>1, ConnectionAssumption DEF HoldersInv, Works
  <2>3. PICK f \in Entries : AddressOf(f) = a /\ entries[f].token = t
    BY <2>1, <2>2 DEF HeldRight
  <2>4. Past(f)
    BY <1>2, <1>4, <2>1, <2>3, ConnectionAssumption DEF PastRight
  <2> QED BY <1>7, <2>3, <2>4 DEF Past
<1>9. Works(h, a)'
  <2>1. AddressOf(e)' = a
    BY <1>1, <1>4, Parts, Stays
  <2> QED BY <1>6, <2>1 DEF Works, AddressOf, Working, Handling
<1>10. CurrentRight(a)'
  BY <1>2, <1>5, <1>6, <1>7, <1>9 DEF CurrentRight, Authenticating
<1>11. Alone(h, a)' => CallRight(h, a)'
  BY <1>2, <1>4, <1>5, <1>6, <1>7, <1>8 DEF CallRight, Checking, Authenticating, Routed, Cleaning
<1> QED BY <1>2, <1>4, <1>6, <1>7, <1>10, <1>11, AloneStep

\* The call goes on to its next await, and nothing else happens.
LEMMA OnwardHistory ==
  ASSUME HistoryInv, PresenceNext, NEW a \in Address \ troubled', NEW h \in Handler, Works(h, a),
         ExpiredToken(h) \/ Updated(h)
  PROVE  HistoryRight(a)'
<1>1. /\ Next /\ a \in Address \ troubled /\ op \in [Handler -> CallOver(Entries)]
      /\ op[h].pc \in Checking \cup Authenticating
      /\ entries' = entries /\ bus' = bus /\ sessions' = sessions
      /\ connectionSessions' = connectionSessions
  BY Untroubled, Parts, Typed
     DEF ExpiredToken, Updated, At, Checking, Authenticating, sessionVars, tables
<1>2. PICK e \in Entries : e = connectionSessions[a]
  BY <1>1, CheckingAt
<1>3. /\ \A g \in Handler \ {h} : ~Works(g, a)
      /\ op[h].entry = e /\ entries[e].sessionToken = NoToken
      /\ op[h].pc \in Checking => entries[e].token = NoToken
      /\ op[h].pc \in Authenticating => entries[e].token = op[h].token /\ bus[op[h].token] = <<>>
      /\ sessions[a] # None /\ AddressOf(e) = a
  BY <1>1, <1>2, CheckingAt, Current DEF Checking, Authenticating, Cleaning
<1>4. PICK pc :
        /\ op' = [op EXCEPT ![h].pc = pc]
        /\ \/ op[h].pc \in Checking /\ pc = "deleteExpired"
           \/ op[h].pc \in Authenticating /\ pc = "publishConnected"
  BY DEF ExpiredToken, Updated, Goto, At, Checking, Authenticating
<1>5. /\ op'[h].pc = pc /\ op'[h].entry = e /\ op'[h].token = op[h].token
      /\ \A g \in Handler \ {h} : op'[g] = op[g]
  <2> DEFINE c == [op[h] EXCEPT !.pc = pc]
  <2>1. op' = [op EXCEPT ![h] = c] /\ c.pc = pc /\ c.entry = e /\ c.token = op[h].token
    BY <1>1, <1>3, <1>4 DEF CallOver
  <2> HIDE DEF c
  <2> QED BY <1>1, <2>1
<1>6. Works(h, a)'
  <2>1. AddressOf(e)' = a
    BY <1>1, <1>3, Parts, Stays
  <2> QED BY <1>4, <1>5, <2>1 DEF Works, AddressOf, Working, Handling
<1>7. CurrentRight(a)'
  <2>1. op[h].pc \in Checking => entries[e].token = NoToken
    BY <1>3
  <2>2. op[h].pc \in Authenticating => op'[h].pc \in Authenticating
    BY <1>4, <1>5 DEF Checking, Authenticating
  <2> QED BY <1>1, <1>2, <1>3, <1>6, <2>2 DEF CurrentRight
<1>8. Alone(h, a)' => CallRight(h, a)'
  BY <1>1, <1>2, <1>3, <1>4, <1>5 DEF CallRight, Checking, Authenticating, Routed, Cleaning
<1> QED BY <1>1, <1>3, <1>5, <1>7, <1>8, AloneStep

LEMMA AuthenticatedHistory ==
  ASSUME HistoryInv, PresenceNext, NEW a \in Address \ troubled', NEW h \in Handler, Works(h, a),
         Authenticated(h)
  PROVE  HistoryRight(a)'
<1>1. /\ Next /\ a \in Address \ troubled /\ op \in [Handler -> CallOver(Entries)]
      /\ entries \in Seq(EntryRecord) /\ Entries = 1 .. Len(entries)
      /\ bus \in [Token -> Seq(Message)] /\ op[h].pc \in Authenticating
  BY Untroubled, Parts, Typed DEF Authenticated, At, Authenticating
<1>2. PICK e \in Entries : e = connectionSessions[a]
  BY <1>1, CheckingAt
<1>3. /\ \A g \in Handler \ {h} : ~Works(g, a)
      /\ op[h].entry = e /\ entries[e].token = op[h].token /\ bus[op[h].token] = <<>>
      /\ op[h].token \in Token
  BY <1>1, <1>2, CheckingAt
<1>4. entries'[e].token = op[h].token /\ entries'[e].sessionToken = op[h].token
  <2> DEFINE y == [entries[e] EXCEPT !.sessionToken = op[h].token]
             x == Released(y)
  <2>1. entries' = [entries EXCEPT ![e] = x]
    BY <1>3 DEF Authenticated
  <2>2. entries[e] \in EntryRecord
    BY <1>1
  <2>3. /\ y.token = op[h].token /\ y.sessionToken = op[h].token
        /\ y \in [session : SessionIds, token : Token \cup {NoToken},
                  sessionToken : Token \cup {NoToken}, receivedConnectionOpen : BOOLEAN,
                  sentPostAuthPackets : BOOLEAN, sentPostSelectPackets : BOOLEAN]
    BY <1>3, <2>2 DEF EntryRecord, EntryOver
  <2>4. x.token = op[h].token /\ x.sessionToken = op[h].token
    BY <2>3 DEF Released
  <2> HIDE DEF x
  <2> QED BY <1>1, <2>1, <2>4
<1>5. /\ op'[h] = Idle /\ \A g \in Handler \ {h} : op'[g] = op[g]
      /\ sessions' = sessions /\ connectionSessions' = connectionSessions
      /\ bus'[op[h].token] = Append(<<>>, "connected")
  BY <1>1, <1>3 DEF Authenticated, Return, Publish, sessionVars
<1>6. Idle.pc \notin Working
  BY DEF Idle, Call, Working, Handling, Cleaning
<1>7. \A g \in Handler : ~Works(g, a)'
  <2>1. \A g \in Handler \ {h} : ~Works(g, a)'
    BY <1>1, <1>3, <1>5, OthersWork
  <2> QED BY <1>5, <1>6, <2>1 DEF Works
<1>8. CurrentRight(a)'
  BY <1>2, <1>3, <1>4, <1>5, <1>7, WholeBegins, ConnectionAssumption DEF CurrentRight
<1> QED BY <1>3, <1>5, <1>7, <1>8, AloneStep DEF CallRight

\* What was read of the entry is the token it was authenticated with.
LEMMA RoutedHistory ==
  ASSUME HistoryInv, PresenceNext, NEW a \in Address \ troubled', NEW h \in Handler, Works(h, a),
         Selected(h) \/ PublishedRouted(h) \/ ZoneRequested(h)
  PROVE  HistoryRight(a)'
<1>1. /\ Next /\ a \in Address \ troubled /\ op \in [Handler -> CallOver(Entries)]
      /\ entries \in Seq(EntryRecord) /\ Entries = 1 .. Len(entries)
      /\ CallRight(h, a) /\ CurrentRight(a)
  BY Untroubled, Parts, Typed
<1>2. PICK e \in Entries : e = connectionSessions[a]
  BY <1>1, Current
<1>3. op[h].pc \in {"select"} \cup Routed /\ op[h].pc \in Handling
  BY DEF Selected, PublishedRouted, ZoneRequested, At, Routed, Handling
<1>4. /\ op[h].entry = e /\ sessions[a] # None /\ entries[e].sessionToken # NoToken
      /\ entries[e].sessionToken = entries[e].token /\ connectionSessions[a] # None
      /\ op[h].pc \in Routed => op[h].token = entries[e].token
  <2>1. op[h].pc \notin Checking \cup Authenticating
    BY <1>3 DEF Checking, Authenticating, Routed
  <2> QED BY <1>1, <1>2, <1>3, <2>1, Current DEF CallRight, CurrentRight
<1>5. sessions' = sessions /\ connectionSessions' = connectionSessions
  BY DEF Selected, PublishedRouted, ZoneRequested, sessionVars, tables
<1>6. SameTokens(e)
  <2>1. ASSUME ZoneRequested(h) PROVE SameTokens(e)
    <3> DEFINE x == [entries[e] EXCEPT !.sentPostSelectPackets = TRUE]
    <3>1. entries' = [entries EXCEPT ![e] = x] /\ entries[e] \in EntryRecord
      BY <1>1, <1>4, <2>1 DEF ZoneRequested
    <3>2. x.token = entries[e].token /\ x.sessionToken = entries[e].sessionToken
      BY <3>1 DEF EntryRecord, EntryOver
    <3> HIDE DEF x
    <3> QED BY <1>1, <3>1, <3>2 DEF SameTokens
  <2> QED BY <2>1 DEF Selected, PublishedRouted, tables, SameTokens
<1>7. /\ \A g \in Handler \ {h} : op'[g] = op[g]
      /\ op'[h].pc \in Working =>
           /\ op'[h].pc \in {"select"} \cup Routed /\ op'[h].entry = e
           /\ op'[h].pc \in Routed => op'[h].token = entries[e].token
  <2>1. CASE ZoneRequested(h)
    BY <1>1, <2>1 DEF ZoneRequested, Return, Idle, Call, Working, Handling, Cleaning
  <2>2. CASE Selected(h) \/ PublishedRouted(h)
    <3>1. PICK pc, t : /\ op' = [op EXCEPT ![h].pc = pc, ![h].token = t]
                       /\ pc \in Routed /\ t = entries[e].token
      BY <1>4, <2>2 DEF Selected, PublishedRouted, Routed
    <3> DEFINE c == [op[h] EXCEPT !.pc = pc, !.token = t]
    <3>2. op' = [op EXCEPT ![h] = c] /\ c.pc = pc /\ c.entry = e /\ c.token = t
      BY <1>1, <1>4, <3>1 DEF CallOver
    <3> HIDE DEF c
    <3> QED BY <1>1, <3>1, <3>2
  <2> QED BY <2>1, <2>2
<1>8. bus' = bus \/ \E m \in {"routed", "zoneRequest"} : Publish(entries[e].token, m)
  BY <1>4 DEF Selected, PublishedRouted, ZoneRequested, At, Routed
<1> QED BY <1>2, <1>4, <1>5, <1>6, <1>7, <1>8, BusyStep

LEMMA PublishedGoneHistory ==
  ASSUME HistoryInv, PresenceNext, NEW a \in Address \ troubled', NEW h \in Handler, Works(h, a),
         PublishedGone(h)
  PROVE  HistoryRight(a)'
<1>1. /\ Next /\ a \in Address \ troubled /\ op \in [Handler -> CallOver(Entries)]
      /\ bus \in [Token -> Seq(Message)] /\ op[h].pc = "publishGone" /\ op[h].pc \in Cleaning
      /\ CallRight(h, a) /\ CurrentRight(a)
  BY Untroubled, Parts, Typed DEF PublishedGone, At, Cleaning
<1>2. PICK e \in Entries : e = connectionSessions[a]
  BY <1>1, Current
<1>3. PICK t : t = op[h].token
  OBVIOUS
<1>4. /\ \A g \in Handler \ {h} : ~Works(g, a)
      /\ op[h].entry = e /\ entries[e].token = t /\ entries[e].sessionToken = t
      /\ t \in Token /\ AddressOf(e) = a /\ connectionSessions[a] # None
  <2>1. entries[e].sessionToken # NoToken /\ entries[e].token = t
    BY <1>1, <1>2, <1>3 DEF CallRight, Cleaning, Checking, Authenticating
  <2>2. entries[e].sessionToken = t
    BY <1>1, <1>2, <2>1, Current DEF CurrentRight
  <2>3. t \in Token
    BY Parts, Typed, <2>1, <2>2
  <2> QED BY <1>1, <1>2, <2>1, <2>2, <2>3, CheckingAt, Current
<1>5. /\ sessions' = sessions /\ connectionSessions' = connectionSessions /\ entries' = entries
      /\ bus'[t] = Append(bus[t], "disconnected")
  BY <1>1, <1>3, <1>4 DEF PublishedGone, Publish, sessionVars, tables
<1>6. /\ op'[h].pc = "deleteGone" /\ op'[h].entry = e /\ op'[h].token = t
      /\ \A g \in Handler \ {h} : op'[g] = op[g]
  <2> DEFINE c == [op[h] EXCEPT !.pc = "deleteGone", !.token = t]
  <2>1. op' = [op EXCEPT ![h] = c] /\ c.pc = "deleteGone" /\ c.entry = e /\ c.token = t
    BY <1>1, <1>3, <1>4 DEF PublishedGone, CallOver
  <2> HIDE DEF c
  <2> QED BY <1>1, <2>1
<1>7. Whole(bus'[t]) /\ Ended(bus'[t])
  <2>1. Whole(bus[t]) /\ ~Ended(bus[t])
    <3>1. \A g \in Handler : ~(Works(g, a) /\ op[g].pc = "deleteGone")
      BY <1>1, <1>4
    <3> QED BY <1>1, <1>2, <1>4, <3>1, ConnectionAssumption DEF CurrentRight
  <2>2. bus[t] \in Seq(Message) /\ "disconnected" \in Message
    BY <1>1, <1>4 DEF Message
  <2> QED BY <1>5, <2>1, <2>2, WholeGoesOn
<1>8. Works(h, a)'
  <2>1. AddressOf(e)' = a
    BY <1>1, <1>4, Parts, Stays
  <2> QED BY <1>6, <2>1 DEF Works, AddressOf, Working, Cleaning
<1>9. CurrentRight(a)'
  BY <1>2, <1>4, <1>5, <1>6, <1>7, <1>8 DEF CurrentRight
<1>10. Alone(h, a)' => CallRight(h, a)'
  BY <1>2, <1>4, <1>5, <1>6, ConnectionAssumption
     DEF CallRight, Checking, Authenticating, Routed, Cleaning, Handling
<1> QED BY <1>4, <1>5, <1>6, <1>9, <1>10, AloneStep

LEMMA DeletedGoneHistory ==
  ASSUME HistoryInv, PresenceNext, NEW a \in Address \ troubled', NEW h \in Handler, Works(h, a),
         DeletedGone(h)
  PROVE  HistoryRight(a)'
<1>1. /\ Next /\ a \in Address \ troubled /\ op \in [Handler -> CallOver(Entries)]
      /\ connectionSessions \in [Address -> {None} \cup Entries]
      /\ op[h].pc = "deleteGone" /\ op[h].pc \in Cleaning
      /\ CallRight(h, a) /\ CurrentRight(a)
  BY Untroubled, Parts, Typed DEF DeletedGone, At, Cleaning
<1>2. PICK e \in Entries : e = connectionSessions[a]
  BY <1>1, Current
<1>3. PICK t : t = op[h].token
  OBVIOUS
<1>4. /\ \A g \in Handler \ {h} : ~Works(g, a)
      /\ op[h].entry = e /\ entries[e].token = t /\ AddressOf(e) = a /\ op[h].drop
      /\ entries[e].sessionToken # NoToken /\ connectionSessions[a] # None /\ sessions[a] = None
  <2>1. entries[e].sessionToken # NoToken /\ entries[e].token = t
    BY <1>1, <1>2, <1>3 DEF CallRight, Cleaning, Checking, Authenticating
  <2> QED BY <1>1, <1>2, <2>1, CheckingAt, Current
<1>5. /\ redis' = redis \ {t} /\ bus' = bus /\ entries' = entries /\ Forget(h)
      /\ connectionSessions' = [connectionSessions EXCEPT ![a] = None]
  BY <1>3, <1>4 DEF DeletedGone, Forget
<1>6. op'[h].pc \notin Working /\ \A g \in Handler \ {h} : op'[g] = op[g]
  BY <1>1, <1>5 DEF Forget, Idle, Call, Working, Handling, Cleaning
<1>7. Past(e)'
  <2>1. ~Connected(entries[e].session)'
    <3>1. PICK s \in SessionIds : entries[e].session = s
      BY Parts, Typed
    <3>2. soe[s].address = a /\ s # None
      BY <1>4, <3>1, Parts, Typed DEF AddressOf, SessionIds, None
    <3>3. ~Connected(s)
      BY <1>4, <3>1, <3>2, Parts DEF LiveIffMapped
    <3> QED BY <1>1, <3>1, <3>3, Parts, Stays
  <2>2. Whole(bus[t]) /\ Ended(bus[t])
    BY <1>1, <1>2, <1>4 DEF CurrentRight
  <2> QED BY <1>4, <1>5, <2>1, <2>2 DEF Past
<1>8. connectionSessions'[a] = None
  BY <1>1, <1>5
<1> QED BY <1>2, <1>4, <1>6, <1>7, <1>8, DroppedStep

\* A client's Session ends: nothing was under way for it but the call that ends it.
LEMMA EndHistory ==
  ASSUME HistoryInv, PresenceNext, NEW a \in Address \ troubled', NEW h \in Handler,
         NEW s \in SessionIds, soe[s].address = a, Connected(s), RemoveSession(s),
         CleanupConnectionSession(h, a), entries' = entries, bus' = bus,
         op[h] = Idle \/ (Works(h, a) /\ op[h].pc \in Checking)
  PROVE  HistoryRight(a)'
<1>1. /\ Next /\ a \in Address \ troubled /\ op \in [Handler -> CallOver(Entries)]
      /\ connectionSessions \in [Address -> {None} \cup Entries]
      /\ sessions \in [Address -> {None} \cup SessionIds]
      /\ IInv /\ LiveIffMapped /\ CurrentRight(a) /\ ~EndedInCall(a)' /\ s # None
  BY Untroubled, Parts, Typed DEF SessionIds, None
<1>2. sessions[a] = s /\ sessions'[a] = None
  BY <1>1 DEF LiveIffMapped, RemoveSession
<1>3. PICK e \in Entries : e = connectionSessions[a]
  BY <1>1, <1>2, Current
<1>4. /\ entries[e].session = s /\ AddressOf(e) = a /\ connectionSessions[a] # None
      /\ entries'[e].session = s /\ e \in Entries' /\ AddressOf(e)' = a /\ e # None
  BY <1>1, <1>2, <1>3, Current, Stays
<1>5. ~Connected(s)'
  <2>1. soe' = Closed(s)
    BY <1>1, <1>2 DEF RemoveSession
  <2> QED BY <1>1, <2>1, ClosedState DEF Connected, IInv
<1>6. \A g \in Handler \ {h} : op'[g] = op[g]
  BY <1>1 DEF CleanupConnectionSession, HandleDisconnect, Return
<1>7. \A g \in Handler \ {h} : ~Works(g, a)
  <2> SUFFICES ASSUME NEW g \in Handler \ {h}, Works(g, a) PROVE FALSE
    OBVIOUS
  <2>1. op[g].pc \in Handling /\ op[g].entry = e
    BY <1>1, <1>2, <1>3, Current DEF Works, Working
  <2>2. op'[g].pc \in Handling /\ op'[g].entry = e
    BY <1>6, <2>1
  <2>3. op'[g].entry # None /\ AddressOf(op[g].entry)' = a
    BY <1>4, <2>2 DEF AddressOf
  <2>4. ~Connected(entries[op[g].entry].session)'
    BY <1>4, <1>5, <2>2 DEF Connected
  <2>5. g \in CallsOf(a, Handling)'
    BY <2>2, <2>3 DEF CallsOf
  <2> QED BY <1>1, <2>4, <2>5 DEF EndedInCall
<1>8. CASE entries[e].token = NoToken
  <2>1. op' = [op EXCEPT ![h] = Idle] /\ connectionSessions' = [connectionSessions EXCEPT ![a] = None]
    BY <1>3, <1>4, <1>8 DEF CleanupConnectionSession, HandleDisconnect
  <2>2. Idle.pc \notin Working
    BY DEF Idle, Call, Working, Handling, Cleaning
  <2>3. op'[h].pc \notin Working /\ connectionSessions'[a] = None
    BY <1>1, <2>1, <2>2
  <2> QED BY <1>3, <1>6, <1>7, <1>8, <2>3, DroppedStep
<1>9. CASE entries[e].token # NoToken
  <2> DEFINE c == Call("publishGone", e, entries[e].token, TRUE, {})
  <2>1. op' = [op EXCEPT ![h] = c] /\ UNCHANGED connectionSessions
    BY <1>3, <1>4, <1>9 DEF CleanupConnectionSession, HandleDisconnect
  <2>2. op'[h] = c /\ c.pc = "publishGone" /\ c.entry = e /\ c.token = entries[e].token
    BY <1>1, <2>1 DEF Call
  <2> HIDE DEF c
  <2>3. op[h] = Idle
    <3>1. op[h].pc \in Checking /\ Works(h, a) => entries[e].token = NoToken
      BY <1>1, <1>3, CheckingAt
    <3> QED BY <1>9, <3>1
  <2>4. \A g \in Handler : ~Works(g, a)
    <3>1. ~Works(h, a)
      BY <2>3 DEF Works, Idle, Call, Working, Handling, Cleaning
    <3> QED BY <1>7, <3>1
  <2>5. entries[e].sessionToken # NoToken
    BY <1>1, <1>3, <1>4, <1>9, <2>4 DEF CurrentRight
  <2>6. \A g \in Handler : ~(Works(g, a)' /\ op'[g].pc = "deleteGone")
    <3>1. \A g \in Handler \ {h} : ~Works(g, a)'
      BY <1>1, <1>6, <2>4, OthersWork
    <3> QED BY <2>2, <3>1
  <2>7. CurrentRight(a)'
    BY <1>1, <1>3, <1>4, <2>1, <2>4, <2>5, <2>6 DEF CurrentRight
  <2>8. Alone(h, a)' => CallRight(h, a)'
    BY <1>3, <2>1, <2>2, <2>5 DEF CallRight, Checking, Authenticating, Routed, Cleaning, Handling
  <2> QED BY <1>6, <1>7, <2>1, <2>7, <2>8, AloneStep
<1> QED BY <1>8, <1>9

\* A token is presented: the client has none, and no other call is under way.
LEMMA ClientIdHistory ==
  ASSUME HistoryInv, PresenceNext, NEW a \in Address \ troubled', NEW h \in Handler,
         NEW s \in SessionIds, NEW t \in Token, soe[s].address = a, ClientIdMsg(h, s, t)
  PROVE  HistoryRight(a)'
<1>1. /\ Next /\ a \in Address \ troubled /\ op \in [Handler -> CallOver(Entries)]
      /\ IInv /\ LiveIffMapped /\ PresenceInv /\ CurrentRight(a) /\ ~AuthenticatedTwice(a)'
      /\ s # None /\ entries \in Seq(EntryRecord) /\ Entries = 1 .. Len(entries)
  BY Untroubled, Parts, Typed DEF SessionIds, None
<1>2. sessions[a] = s
  BY <1>1 DEF LiveIffMapped, ClientIdMsg
<1>3. PICK e \in Entries : e = connectionSessions[a]
  BY <1>1, <1>2, Current
<1>4. AddressOf(e) = a /\ connectionSessions[a] # None /\ AddressOf(e)' = a /\ e # None
  BY <1>1, <1>2, <1>3, Current, Stays
<1>5. /\ entries' = entries /\ bus' = bus /\ sessions' = sessions
      /\ connectionSessions'[a] = connectionSessions[a]
  BY <1>1, <1>4, TrackRight DEF ClientIdMsg, Tracked, sessionVars
<1>6. /\ op'[h].pc = "getSession" /\ op'[h].entry = e /\ op'[h].token = t
      /\ \A g \in Handler \ {h} : op'[g] = op[g]
  BY <1>1, <1>3, <1>4 DEF ClientIdMsg, EntryOf, Call
<1>7. h \in CallsOf(a, Handling)'
  <2>1. op'[h].entry # None /\ AddressOf(op[h].entry)' = a
    BY <1>4, <1>6 DEF AddressOf
  <2> QED BY <1>6, <2>1 DEF CallsOf, Handling
<1>8. entries[e].token = NoToken
  <2>1. ~(entries'[op'[h].entry].token # NoToken)
    BY <1>1, <1>6, <1>7 DEF AuthenticatedTwice, At
  <2> QED BY <1>5, <1>6, <2>1
<1>9. \A g \in Handler \ {h} : ~Works(g, a)
  <2> SUFFICES ASSUME NEW g \in Handler \ {h}, Works(g, a) PROVE FALSE
    OBVIOUS
  <2>1. op[g].pc \in Handling /\ op[g].entry = e
    BY <1>1, <1>2, <1>3, Current DEF Works, Working
  <2>2. op'[g].pc \in Handling /\ op'[g].entry = e
    BY <1>6, <2>1
  <2>3. op'[g].entry # None /\ AddressOf(op[g].entry)' = a
    BY <1>4, <2>2 DEF AddressOf
  <2>4. g \in CallsOf(a, Handling)'
    BY <2>2, <2>3 DEF CallsOf
  <2> QED BY <1>1, <1>6, <1>7, <2>2, <2>4 DEF AuthenticatedTwice, At
<1>10. entries[e].sessionToken = NoToken
  BY <1>1, <1>3, <1>4, <1>8 DEF CurrentRight
<1>11. CurrentRight(a)'
  BY <1>3, <1>5, <1>8, <1>10 DEF CurrentRight
<1>12. Alone(h, a)' => CallRight(h, a)'
  BY <1>1, <1>2, <1>3, <1>5, <1>6, <1>8
     DEF CallRight, Checking, Authenticating, Routed, Cleaning, Handling
<1> QED BY <1>5, <1>6, <1>9, <1>11, <1>12, AloneStep

LEMMA SelectHistory ==
  ASSUME HistoryInv, PresenceNext, NEW a \in Address \ troubled', NEW h \in Handler,
         NEW s \in SessionIds, soe[s].address = a, SelectCharacter(h, s)
  PROVE  HistoryRight(a)'
<1>1. /\ Next /\ a \in Address \ troubled /\ op \in [Handler -> CallOver(Entries)]
      /\ LiveIffMapped /\ s # None
  BY Untroubled, Parts, Typed DEF SessionIds, None
<1>2. sessions[a] = s
  BY <1>1 DEF LiveIffMapped, SelectCharacter
<1>3. PICK e \in Entries : e = connectionSessions[a]
  BY <1>1, <1>2, Current
<1>4. /\ entries' = entries /\ bus' = bus /\ sessions' = sessions
      /\ connectionSessions' = connectionSessions /\ entries[e].sessionToken # NoToken
  BY <1>3 DEF SelectCharacter, sessionVars, tables, IsAuthenticated
<1>5. /\ op'[h].pc = "select" /\ op'[h].entry = e
      /\ \A g \in Handler \ {h} : op'[g] = op[g]
  BY <1>1, <1>3 DEF SelectCharacter, Call
<1>6. "select" \notin Routed
  BY DEF Routed
<1> QED BY <1>1, <1>2, <1>3, <1>4, <1>5, <1>6, BusyStep DEF SameTokens

\* A client arrives at an address where nothing was left.
LEMMA ConnectHistory ==
  ASSUME HistoryInv, PresenceNext, NEW a \in Address \ troubled', Connect(a)
  PROVE  HistoryRight(a)'
<1>1. /\ Next /\ a \in Address \ troubled /\ ~TroubleInStep(a) /\ RightAt(a) /\ IInv /\ LiveIffMapped
      /\ sessions \in [Address -> {None} \cup SessionIds]
      /\ connectionSessions \in [Address -> {None} \cup Entries]
      /\ entries \in Seq(EntryRecord) /\ Len(entries) \in Nat
  BY Untroubled, Parts, Typed
<1>2. sessions'[a] = Len(soe) + 1 /\ Len(soe) \in Nat /\ op' = op
  BY <1>1 DEF Connect, ProcessSessionRequest, IInv, SessionsTypeOK
<1>3. sessions[a] = None /\ CallsOf(a, Cleaning) = {}
  BY <1>1, <1>2 DEF TroubleInStep, SessionIds, None
<1>4. \A g \in Handler : ~Works(g, a)
  <2> SUFFICES ASSUME NEW g \in Handler, Works(g, a) PROVE FALSE
    OBVIOUS
  <2>1. op[g].pc \in Cleaning
    BY <1>1, <1>3, Parts DEF CallRight, Works, Working
  <2>2. op[g].entry # None
    BY <1>1, Current
  <2> QED BY <1>3, <2>1, <2>2 DEF CallsOf, Works
<1>5. connectionSessions[a] = None
  BY <1>1, <1>3, <1>4 DEF RightAt, CleansOf, Works, Working
<1>6. PICK e : e = Len(entries) + 1
  OBVIOUS
<1>7. connectionSessions'[a] = e /\ entries' = Append(entries, NewEntry(Len(soe) + 1))
  BY <1>1, <1>5, <1>6 DEF Connect, Track, Tracked, EntryOf
<1>8. entries'[e].token = NoToken /\ entries'[e].sessionToken = NoToken
  BY <1>1, <1>6, <1>7 DEF NewEntry
<1>9. \A g \in Handler : ~Works(g, a)'
  BY <1>1, <1>2, <1>4, WorksStays
<1>10. CurrentRight(a)' /\ \A g \in Handler : CallRight(g, a)'
  BY <1>7, <1>8, <1>9 DEF CurrentRight, CallRight
<1> QED BY <1>5, <1>10, PastStep, HeldStep DEF HistoryRight

-----------------------------------------------------------------------------
(* The steps of another address's calls.                                    *)

\* A call of another address, before and after, does not disturb this one.
LEMMA OtherStep ==
  ASSUME HistoryInv, PresenceNext, NEW a \in Address \ troubled', NEW h \in Handler, NEW c,
         ~Works(h, a), op' = [op EXCEPT ![h] = c],
         c.pc \in Working => c.entry \in Entries /\ AddressOf(c.entry) # a,
         sessions'[a] = sessions[a], connectionSessions'[a] = connectionSessions[a]
  PROVE  HistoryRight(a)'
<1>1. Next /\ IInv /\ LiveIffMapped /\ op \in [Handler -> CallOver(Entries)]
  BY Untroubled, Parts, Typed
<1>2. op'[h] = c /\ \A g \in Handler \ {h} : op'[g] = op[g]
  BY <1>1
<1>3. ~Works(h, a)'
  <2>1. c.pc \in Working => AddressOf(op[h].entry)' # a
    <3> SUFFICES ASSUME c.pc \in Working PROVE AddressOf(op[h].entry)' # a
      OBVIOUS
    <3>1. PICK e \in Entries : c.entry = e
      OBVIOUS
    <3>2. op'[h].entry = e /\ AddressOf(e)' # a
      BY <1>1, <1>2, <3>1, Stays
    <3> QED BY <3>2 DEF AddressOf
  <2> QED BY <1>2, <2>1 DEF Works
<1> QED BY <1>2, <1>3, AsideStep

\* A Session of another address ends.
LEMMA EndElsewhere ==
  ASSUME HistoryInv, PresenceNext, NEW a \in Address \ troubled', NEW h \in Handler, ~Works(h, a),
         NEW s \in SessionIds, soe[s].address # a, Connected(s), RemoveSession(s),
         CleanupConnectionSession(h, soe[s].address)
  PROVE  HistoryRight(a)'
<1> DEFINE b == soe[s].address
           e == connectionSessions[b]
<1>1. /\ IInv /\ Addressed /\ b \in Address
      /\ sessions \in [Address -> {None} \cup SessionIds]
      /\ connectionSessions \in [Address -> {None} \cup Entries]
  BY Parts, Typed, AddressTyped DEF IInv
<1>2. sessions'[a] = sessions[a]
  BY <1>1 DEF RemoveSession
<1>3. e # None => e \in Entries /\ AddressOf(e) = b
  BY <1>1 DEF Addressed
<1>4. PICK c :
        /\ op' = [op EXCEPT ![h] = c]
        /\ c.pc \in Working => c.entry \in Entries /\ AddressOf(c.entry) # a
        /\ connectionSessions'[a] = connectionSessions[a]
  <2>1. Idle.pc \notin Working
    BY DEF Idle, Call, Working, Handling, Cleaning
  <2>2. CASE e = None
    BY <2>1, <2>2 DEF CleanupConnectionSession, Return
  <2>3. CASE e # None /\ entries[e].token # NoToken
    BY <1>3, <2>3 DEF CleanupConnectionSession, HandleDisconnect, Call
  <2>4. CASE e # None /\ entries[e].token = NoToken
    <3>1. /\ op' = [op EXCEPT ![h] = Idle]
          /\ connectionSessions' = [connectionSessions EXCEPT ![b] = None]
      BY <1>3, <2>4 DEF CleanupConnectionSession, HandleDisconnect
    <3> QED BY <1>1, <2>1, <3>1
  <2> QED BY <2>2, <2>3, <2>4
<1> QED BY <1>2, <1>4, OtherStep

LEMMA RejectElsewhere ==
  ASSUME HistoryInv, PresenceNext, NEW a \in Address \ troubled', NEW h \in Handler, ~Works(h, a),
         op[h].pc \in Working, Reject(h)
  PROVE  HistoryRight(a)'
<1> DEFINE s == entries[op[h].entry].session
<1>1. s \in SessionIds /\ soe[s].address # a
  BY Parts, Typed DEF Works, AddressOf
<1>2. CASE Connected(s)
  BY <1>1, <1>2, EndElsewhere DEF Reject
<1>3. CASE ~Connected(s)
  <2>1. op' = [op EXCEPT ![h] = Idle] /\ UNCHANGED <<sessions, connectionSessions>>
    BY <1>3 DEF Reject, Return, sessionVars
  <2>2. Idle.pc \notin Working
    BY DEF Idle, Call, Working, Handling, Cleaning
  <2> QED BY <2>1, <2>2, OtherStep
<1> QED BY <1>2, <1>3

LEMMA ForgetElsewhere ==
  ASSUME HistoryInv, PresenceNext, NEW a \in Address \ troubled', NEW h \in Handler, ~Works(h, a),
         op[h].pc \in Working, Forget(h)
  PROVE  HistoryRight(a)'
<1> DEFINE c == IF op[h].idle = {} THEN Idle
                ELSE Call("nextIdle", op[h].entry, NoToken, FALSE, op[h].idle)
<1>1. c.pc \notin Working
  BY DEF Idle, Call, Working, Handling, Cleaning
<1>2. op' = [op EXCEPT ![h] = c] /\ sessions' = sessions
  BY DEF Forget, sessionVars
<1>3. connectionSessions'[a] = connectionSessions[a]
  <2>1. connectionSessions \in [Address -> {None} \cup Entries]
    BY Parts, Typed
  <2> QED BY <2>1 DEF Forget, Works
<1> HIDE DEF c
<1> QED BY <1>1, <1>2, <1>3, OtherStep

LEMMA AnswerElsewhere ==
  ASSUME HistoryInv, PresenceNext, NEW a \in Address \ troubled', NEW h \in Handler, ~Works(h, a),
         Answer(h)
  PROVE  HistoryRight(a)'
<1>1. op \in [Handler -> CallOver(Entries)]
  BY Parts, Typed
<1>2. op[h].pc \in Working
  BY DEF Answer, ValidToken, InvalidToken, ExpiredToken, DeletedExpired, Updated,
         Authenticated, Selected, PublishedRouted, ZoneRequested, PublishedGone,
         DeletedGone, At, Working, Handling, Cleaning
<1>3. op[h].entry \in Entries /\ AddressOf(op[h].entry) # a
  BY <1>2, Parts, Typed DEF Works
<1>4. CASE InvalidToken(h) \/ DeletedExpired(h)
  BY <1>2, <1>4, RejectElsewhere DEF InvalidToken, DeletedExpired
<1>5. CASE DeletedGone(h)
  BY <1>2, <1>5, ForgetElsewhere DEF DeletedGone
<1>6. CASE Authenticated(h) \/ ZoneRequested(h)
  <2>1. op' = [op EXCEPT ![h] = Idle] /\ UNCHANGED <<sessions, connectionSessions>>
    BY <1>6 DEF Authenticated, ZoneRequested, Return, sessionVars
  <2>2. Idle.pc \notin Working
    BY DEF Idle, Call, Working, Handling, Cleaning
  <2> QED BY <2>1, <2>2, OtherStep
<1>7. CASE ValidToken(h) \/ ExpiredToken(h) \/ Updated(h)
  <2>1. PICK pc : op' = [op EXCEPT ![h].pc = pc]
    BY <1>7 DEF ValidToken, ExpiredToken, Updated, Goto
  <2> DEFINE c == [op[h] EXCEPT !.pc = pc]
  <2>2. op' = [op EXCEPT ![h] = c] /\ c.entry = op[h].entry
    BY <1>1, <2>1 DEF CallOver
  <2>3. UNCHANGED <<sessions, connectionSessions>>
    BY <1>7 DEF ValidToken, ExpiredToken, Updated, sessionVars, tables
  <2> HIDE DEF c
  <2> QED BY <1>3, <2>2, <2>3, OtherStep
<1>8. CASE Selected(h) \/ PublishedRouted(h) \/ PublishedGone(h)
  <2>1. PICK pc, t : op' = [op EXCEPT ![h].pc = pc, ![h].token = t]
    BY <1>8 DEF Selected, PublishedRouted, PublishedGone
  <2> DEFINE c == [op[h] EXCEPT !.pc = pc, !.token = t]
  <2>2. op' = [op EXCEPT ![h] = c] /\ c.entry = op[h].entry
    BY <1>1, <2>1 DEF CallOver
  <2>3. UNCHANGED <<sessions, connectionSessions>>
    BY <1>8 DEF Selected, PublishedRouted, PublishedGone, sessionVars, tables
  <2> HIDE DEF c
  <2> QED BY <1>3, <2>2, <2>3, OtherStep
<1> QED BY <1>4, <1>5, <1>6, <1>7, <1>8 DEF Answer

-----------------------------------------------------------------------------
(* Every step.                                                              *)

LEMMA AnswerHistory ==
  ASSUME HistoryInv, PresenceNext, NEW a \in Address \ troubled', NEW h \in Handler, Answer(h)
  PROVE  HistoryRight(a)'
<1>1. CASE ~Works(h, a)
  BY <1>1, AnswerElsewhere
<1>2. CASE Works(h, a) /\ (InvalidToken(h) \/ DeletedExpired(h))
  <2>1. /\ op[h].pc \in Checking /\ Reject(h) /\ bus' = bus /\ entries' = entries
        /\ a \in Address \ troubled
    BY <1>2, Untroubled DEF InvalidToken, DeletedExpired, At, Checking, Reject
  <2>2. PICK e \in Entries : e = connectionSessions[a]
    BY <1>2, <2>1, CheckingAt
  <2>3. op[h].entry = e /\ sessions[a] # None
    BY <1>2, <2>1, <2>2, CheckingAt DEF Checking, Cleaning
  <2>4. PICK s \in SessionIds : sessions[a] = s
    BY <2>1, <2>3, Parts, Typed
  <2>5. entries[e].session = s /\ Connected(s) /\ soe[s].address = a
    BY <2>1, <2>2, <2>3, <2>4, Current, Parts DEF LiveIffMapped
  <2> QED BY <1>2, <2>1, <2>3, <2>5, EndHistory DEF Reject
<1> QED BY <1>1, <1>2, ValidHistory, OnwardHistory, AuthenticatedHistory, RoutedHistory,
           PublishedGoneHistory, DeletedGoneHistory DEF Answer

LEMMA PacketHistory ==
  ASSUME HistoryInv, PresenceNext, NEW a \in Address \ troubled', Packet
  PROVE  HistoryRight(a)'
<1>1. /\ Next /\ a \in Address \ troubled /\ IInv /\ LiveIffMapped /\ Addressed /\ PresenceInv
      /\ connectionSessions \in [Address -> {None} \cup Entries]
      /\ sessions \in [Address -> {None} \cup SessionIds]
      /\ \A s \in SessionIds : soe[s].address \in Address /\ s # None
  BY Untroubled, Parts, Typed, AddressTyped DEF IInv, SessionIds, None
<1>2. \A h \in Handler : op[h] = Idle => ~Works(h, a)
  BY DEF Works, Idle, Call, Working, Handling, Cleaning
<1>3. ASSUME NEW b \in Address, Connect(b) PROVE HistoryRight(a)'
  <2>1. CASE b # a
    <3>1. sessions'[a] = sessions[a] /\ connectionSessions'[a] = connectionSessions[a] /\ op' = op
      BY <1>1, <1>3, <2>1 DEF Connect, ProcessSessionRequest, Track
    <3> QED BY <3>1, AsideStep
  <2> QED BY <1>3, <2>1, ConnectHistory
<1>4. ASSUME NEW s \in SessionIds, ConnectionOpen(s) PROVE HistoryRight(a)'
  BY <1>1, <1>4, TrackRight, AsideStep DEF ConnectionOpen, sessionVars
<1>5. ASSUME NEW h \in Handler, NEW s \in SessionIds, Disconnect(h, s) PROVE HistoryRight(a)'
  <2>1. CASE soe[s].address = a
    BY <1>5, <2>1, EndHistory DEF Disconnect
  <2>2. CASE soe[s].address # a
    BY <1>2, <1>5, <2>2, EndElsewhere DEF Disconnect
  <2> QED BY <2>1, <2>2
<1>6. ASSUME NEW h \in Handler, NEW s \in SessionIds, NEW t \in Token, ClientIdMsg(h, s, t)
      PROVE  HistoryRight(a)'
  <2>1. CASE soe[s].address # a
    <3> DEFINE b == soe[s].address
               c == Call("getSession", EntryOf(s, b), t, FALSE, {})
    <3>1. op' = [op EXCEPT ![h] = c] /\ op[h] = Idle /\ c.entry = EntryOf(s, b) /\ sessions' = sessions
      BY <1>6 DEF ClientIdMsg, Call, sessionVars
    <3>2. connectionSessions'[a] = connectionSessions[a]
      BY <1>1, <1>6, TrackRight DEF ClientIdMsg
    <3>3. CASE connectionSessions[b] # None
      <4>1. EntryOf(s, b) \in Entries /\ AddressOf(EntryOf(s, b)) = b
        BY <1>1, <3>3 DEF EntryOf, Addressed
      <4> HIDE DEF c
      <4> QED BY <1>2, <2>1, <3>1, <3>2, <4>1, OtherStep
    <3>4. CASE connectionSessions[b] = None
      <4>1. PICK e : e = EntryOf(s, b)
        OBVIOUS
      <4>2. entries'[e].session = s /\ soe' = soe
        BY <1>1, <1>6, <3>4, <4>1, ClientIdTracks DEF Tracks, ClientIdMsg, sessionVars
      <4>3. op'[h].entry = e /\ \A g \in Handler \ {h} : op'[g] = op[g]
        BY <1>1, <3>1, <4>1, Typed
      <4>4. ~Works(h, a)'
        BY <2>1, <4>2, <4>3 DEF Works, AddressOf
      <4> QED BY <1>2, <3>1, <3>2, <4>3, <4>4, AsideStep
    <3> QED BY <3>3, <3>4
  <2> QED BY <1>6, <2>1, ClientIdHistory
<1>7. ASSUME NEW h \in Handler, NEW s \in SessionIds, SelectCharacter(h, s) PROVE HistoryRight(a)'
  <2>1. CASE soe[s].address # a
    <3> DEFINE e == connectionSessions[soe[s].address]
               c == Call("select", e, NoToken, FALSE, {})
    <3>1. /\ op' = [op EXCEPT ![h] = c] /\ op[h] = Idle /\ c.entry = e /\ e # None
          /\ UNCHANGED <<sessions, connectionSessions>>
      BY <1>7 DEF SelectCharacter, Call, sessionVars, tables
    <3>2. e \in Entries /\ AddressOf(e) # a
      BY <1>1, <2>1, <3>1 DEF Addressed
    <3> HIDE DEF c, e
    <3> QED BY <1>2, <3>1, <3>2, OtherStep
  <2> QED BY <1>7, <2>1, SelectHistory
<1>8. ASSUME NEW h \in Handler, NEW s \in SessionIds, RefuseSelect(h, s) PROVE HistoryRight(a)'
  <2> DEFINE b == soe[s].address
             e == connectionSessions[b]
             own == IF e = None THEN s ELSE entries[e].session
  <2>1. own \in SessionIds /\ soe[own].address = b
    BY <1>1, Typed DEF Addressed, AddressOf
  <2>2. CASE ~Connected(own)
    <3>1. UNCHANGED <<sessions, connectionSessions, op>>
      BY <1>8, <2>2 DEF RefuseSelect, sessionVars
    <3> QED BY <3>1, AsideStep
  <2>3. CASE Connected(own)
    <3>1. /\ RemoveSession(own) /\ CleanupConnectionSession(h, b) /\ op[h] = Idle
          /\ entries' = entries /\ bus' = bus
      BY <1>8, <2>3 DEF RefuseSelect
    <3> HIDE DEF own
    <3>2. CASE b = a
      BY <2>1, <2>3, <3>1, <3>2, EndHistory
    <3>3. CASE b # a
      BY <1>2, <2>1, <2>3, <3>1, <3>3, EndElsewhere
    <3> QED BY <3>2, <3>3
  <2> QED BY <2>2, <2>3
<1> QED BY <1>3, <1>4, <1>5, <1>6, <1>7, <1>8 DEF Packet

LEMMA FailedHistory ==
  ASSUME HistoryInv, PresenceNext, NEW a \in Address \ troubled', NEW h \in Handler, Failed(h)
  PROVE  HistoryRight(a)'
<1>1. op[h].pc \in Working
  <2>1. op[h].pc \in PCs
    BY Parts, Typed DEF CallOver
  <2> QED BY <2>1 DEF Failed, PCs, Working, Handling, Cleaning
<1>2. ~Works(h, a)
  <2> SUFFICES ASSUME Works(h, a) PROVE FALSE
    OBVIOUS
  <2>1. op[h].entry # None
    BY Untroubled, Current
  <2>2. h \in CallsOf(a, Handling \cup Cleaning)
    BY <1>1, <2>1 DEF CallsOf, Works, Working
  <2> QED BY <2>2, Untroubled DEF TroubleInStep
<1>3. CASE Reject(h)
  BY <1>1, <1>2, <1>3, RejectElsewhere
<1>4. CASE Forget(h)
  BY <1>1, <1>2, <1>4, ForgetElsewhere
<1>5. CASE Return(h) /\ UNCHANGED <<sessionVars, tables>>
  <2>1. op' = [op EXCEPT ![h] = Idle] /\ UNCHANGED <<sessions, connectionSessions>>
    BY <1>5 DEF Return, sessionVars, tables
  <2>2. Idle.pc \notin Working
    BY DEF Idle, Call, Working, Handling, Cleaning
  <2> QED BY <1>2, <2>1, <2>2, OtherStep
<1> QED BY <1>3, <1>4, <1>5 DEF Failed

LEMMA IdleHistory ==
  ASSUME HistoryInv, PresenceNext, NEW a \in Address \ troubled', NEW h \in Handler,
         NextIdle(h) \/ IdleScan(h)
  PROVE  HistoryRight(a)'
<1>1. ~Works(h, a)
  <2>1. op[h].pc \in {"idle", "nextIdle"}
    <3>1. Idle.pc = "idle"
      BY DEF Idle, Call
    <3>2. IdleScan(h) => op[h] = Idle
      BY DEF IdleScan, DisconnectIdleSessions
    <3> QED BY <3>1, <3>2 DEF NextIdle, At
  <2> QED BY <2>1 DEF Works, Working, Handling, Cleaning
<1>2. ASSUME IdleScan(h) PROVE HistoryRight(a)'
  <2>1. PICK idle : DisconnectIdleSessions(h, idle)
    BY <1>2 DEF IdleScan
  <2> DEFINE c == Call("nextIdle", None, NoToken, FALSE, idle)
  <2>2. /\ op' = [op EXCEPT ![h] = c] /\ c.pc \notin Working
        /\ UNCHANGED <<sessions, connectionSessions>>
    BY <2>1 DEF DisconnectIdleSessions, sessionVars, tables, Call, Working, Handling, Cleaning
  <2> HIDE DEF c
  <2> QED BY <1>1, <2>2, OtherStep
<1>3. ASSUME NextIdle(h) PROVE HistoryRight(a)'
  <2>1. PICK e \in op[h].idle : HandleDisconnect(h, e, FALSE, op[h].idle \ {e})
    BY <1>3 DEF NextIdle
  <2>2. e \in Entries /\ AddressOf(e) # a
    BY <2>1, Untroubled, Parts, Typed DEF IdleTroubled, CallOver
  <2>3. UNCHANGED <<sessions, connectionSessions>>
    BY <1>3, <2>1 DEF NextIdle, HandleDisconnect, sessionVars
  <2>4. PICK c : op' = [op EXCEPT ![h] = c] /\ (c.pc \in Working => c.entry = e)
    <3> DEFINE gone == Call("publishGone", e, entries[e].token, FALSE, op[h].idle \ {e})
               rest == IF op[h].idle \ {e} = {} THEN Idle
                       ELSE Call("nextIdle", e, NoToken, FALSE, op[h].idle \ {e})
    <3>1. gone.entry = e /\ rest.pc \notin Working
      BY DEF Call, Idle, Working, Handling, Cleaning
    <3>2. op' = [op EXCEPT ![h] = gone] \/ op' = [op EXCEPT ![h] = rest]
      BY <2>1 DEF HandleDisconnect
    <3> HIDE DEF gone, rest
    <3> QED BY <3>1, <3>2
  <2> QED BY <1>1, <2>2, <2>3, <2>4, OtherStep
<1> QED BY <1>2, <1>3

LEMMA HistoryStep ==
  ASSUME HistoryInv, PresenceNext, NEW a \in Address \ troubled'
  PROVE  HistoryRight(a)'
<1>1. ASSUME NEW t \in Token, Revoke(t) PROVE HistoryRight(a)'
  BY <1>1, AsideStep DEF Revoke, sessionVars, tables
<1> QED BY <1>1, Untroubled, PacketHistory, AnswerHistory, FailedHistory, IdleHistory DEF Next

-----------------------------------------------------------------------------
LEMMA HistoryInvInit == PresenceInit => HistoryInv
<1> SUFFICES ASSUME PresenceInit PROVE HistoryInv
  OBVIOUS
<1>1. /\ entries = <<>> /\ Entries = {} /\ holders = [t \in Token |-> {}]
      /\ bus = [t \in Token |-> <<>>] /\ connectionSessions = [a \in Address |-> None]
      /\ \A h \in Handler : op[h].pc \notin Working
  BY DEF PresenceInit, Init, Entries, Idle, Call, Working, Handling, Cleaning
<1>2. HoldersInv
  BY <1>1 DEF HoldersInv
<1>3. ASSUME NEW a \in Address PROVE HistoryRight(a)
  BY <1>1 DEF HistoryRight, CallRight, Works, CurrentRight, PastRight, HeldRight
<1> QED BY <1>2, <1>3, PresenceInvInit DEF HistoryInv

LEMMA HistoryInvStep == HistoryInv /\ [PresenceNext]_presenceVars => HistoryInv'
<1> SUFFICES ASSUME HistoryInv, [PresenceNext]_presenceVars PROVE HistoryInv'
  OBVIOUS
<1>1. PresenceInv'
  BY PresenceInvStep DEF HistoryInv
<1>2. CASE PresenceNext
  BY <1>1, <1>2, HoldersStep, HistoryStep DEF HistoryInv
<1>3. CASE UNCHANGED presenceVars
  BY <1>1, <1>3 DEF presenceVars, vars, sessionVars, tables, HistoryInv, HoldersInv, HistoryRight,
             CallRight, CurrentRight, PastRight, HeldRight, Past, Works, Alone, AddressOf, Entries,
             Connected
<1> QED BY <1>2, <1>3

LEMMA HistoryInvariant == PresenceSpec => []HistoryInv
BY HistoryInvInit, HistoryInvStep, PTL DEF PresenceSpec

\* Where a client stands that no call is under way for.
LEMMA QuietEntry ==
  ASSUME HistoryInv, NEW e \in Entries, AddressOf(e) \notin troubled, Quiet(AddressOf(e)),
         entries[e].token # NoToken
  PROVE  /\ Whole(bus[entries[e].token])
         /\ Connected(entries[e].session) => ~Ended(bus[entries[e].token])
         /\ ~Connected(entries[e].session) => Past(e)
<1>1. PICK a \in Address \ troubled : a = AddressOf(e)
  BY Parts, Typed, AddressTyped DEF AddressOf, IInv
<1>2. CurrentRight(a) /\ PastRight(a) /\ RightAt(a) /\ LiveIffMapped
  BY <1>1, Parts
<1>3. \A h \in Handler : ~Works(h, a)
  <2>1. \A h \in Handler : Works(h, a) => op[h].entry # None
    BY <1>1, Current
  <2> QED BY <1>1, <2>1 DEF Quiet, CallsOf, Works, Working
<1>4. CASE e = connectionSessions[a]
  <2>1. sessions[a] # None
    <3>1. connectionSessions[a] # None
      BY <1>4, Parts, Typed DEF None
    <3> QED BY <1>2, <1>3, <3>1 DEF RightAt, CleansOf, Works, Working
  <2>2. Connected(entries[e].session)
    BY <1>1, <1>4, <2>1, Current
  <2>3. Whole(bus[entries[e].token]) /\ ~Ended(bus[entries[e].token])
    BY <1>1, <1>2, <1>3, <1>4, <2>1, Current DEF CurrentRight
  <2> QED BY <2>2, <2>3
<1>5. CASE e # connectionSessions[a]
  BY <1>1, <1>2, <1>5 DEF PastRight, Past
<1> QED BY <1>4, <1>5

\* A client that has gone, at an address no race has troubled, leaves no token in
\* Redis once its cleanup is over (connection-handler.ts:161).
THEOREM TokensRevoked == PresenceSpec => []GoneIsRevoked
<1>1. HistoryInv => GoneIsRevoked
  <2> SUFFICES ASSUME HistoryInv, NEW e \in Entries, AddressOf(e) \notin troubled,
                      Quiet(AddressOf(e)), ~Connected(entries[e].session)
               PROVE  entries[e].token \notin redis
    BY DEF GoneIsRevoked
  <2>1. CASE entries[e].token # NoToken
    BY <2>1, QuietEntry DEF Past
  <2>2. CASE entries[e].token = NoToken
    BY <2>2, Parts, Typed, ConnectionAssumption
  <2> QED BY <2>1, <2>2
<1> QED BY <1>1, HistoryInvariant, PTL

\* Whoever follows the bus knows which of the clients of untroubled addresses are
\* there, whenever no call for them is under way (server.ts:557, connection-handler.ts:155).
THEOREM BusTellsPresence == PresenceSpec => []PresenceKnown
<1>1. HistoryInv => PresenceKnown
  <2> SUFFICES ASSUME HistoryInv, NEW e \in Entries, AddressOf(e) \notin troubled,
                      Quiet(AddressOf(e)), entries[e].token # NoToken
               PROVE  /\ bus[entries[e].token] # <<>>
                      /\ Ended(bus[entries[e].token]) <=>
                           \A f \in OwnersOf(entries[e].token) : ~Connected(entries[f].session)
    BY DEF PresenceKnown, Ended
  <2>1. /\ Whole(bus[entries[e].token])
        /\ Connected(entries[e].session) => ~Ended(bus[entries[e].token])
        /\ ~Connected(entries[e].session) => Past(e)
    BY QuietEntry
  <2>2. OwnersOf(entries[e].token) = {e}
    <3>1. PICK a \in Address \ troubled : a = AddressOf(e)
      BY Parts, Typed, AddressTyped DEF AddressOf, IInv
    <3>2. PICK t \in Token : t = entries[e].token
      BY Parts, Typed
    <3>3. HoldersInv /\ HeldRight(a) /\ PastRight(a)
      BY <3>1, Parts
    <3>4. holders[t] = {a}
      BY <3>1, <3>2, <3>3 DEF HoldersInv, HeldRight
    <3>5. ASSUME NEW f \in Entries, entries[f].token = t PROVE f = e
      <4>1. AddressOf(f) = a
        BY <3>2, <3>3, <3>4, <3>5 DEF HoldersInv
      <4> QED BY <3>1, <3>2, <3>3, <3>5, <4>1 DEF PastRight
    <3> QED BY <3>2, <3>5 DEF OwnersOf
  <2> QED BY <2>1, <2>2 DEF Whole, Past
<1> QED BY <1>1, HistoryInvariant, PTL

\* What is published of a client of an untroubled address comes in order: first that
\* it is connected, and nothing after that it is gone (server.ts:491, :557, :571).
THEOREM HistoriesInOrder == PresenceSpec => []BusInOrder
<1>1. HistoryInv => BusInOrder
  <2> SUFFICES ASSUME HistoryInv, NEW e \in Entries, AddressOf(e) \notin troubled,
                      entries[e].token # NoToken
               PROVE  Whole(bus[entries[e].token]) \/ bus[entries[e].token] = <<>>
    BY DEF BusInOrder, Whole
  <2>1. PICK a \in Address \ troubled : a = AddressOf(e)
    BY Parts, Typed, AddressTyped DEF AddressOf, IInv
  <2>2. CASE e # connectionSessions[a]
    BY <2>1, <2>2, Parts DEF PastRight, Past
  <2>3. CASE e = connectionSessions[a]
    <3>1. CurrentRight(a) /\ connectionSessions[a] # None
      BY <2>1, <2>3, Parts, Typed DEF None
    <3>2. ASSUME NEW h \in Handler, Works(h, a), op[h].pc \in Authenticating
          PROVE  bus[entries[e].token] = <<>>
      BY <2>1, <2>3, <3>2, CheckingAt
    <3> QED BY <2>3, <3>1, <3>2 DEF CurrentRight
  <2> QED BY <2>2, <2>3
<1> QED BY <1>1, HistoryInvariant, PTL
=============================================================================
