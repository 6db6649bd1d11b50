-------------------------- MODULE ChatRoomsProofs --------------------------
(***************************************************************************)
(* Proofs about ChatAgreement, for any number of servers, players,         *)
(* operations and crashes.  On every server, whoever is listed for the     *)
(* room or is sent its messages is a member of it, or has left it through  *)
(* another server.  When all is delivered and saved the servers have the   *)
(* same room, and the database its bans: both follow from Agreement, which *)
(* compares what the copies will be when their inboxes have been handled.  *)
(***************************************************************************)
EXTENDS ChatAgreement, IntervalInduction, TLAPS

-----------------------------------------------------------------------------
(* What is published and what is asked of the database. *)

LEMMA Appended ==
  ASSUME NEW S, NEW q \in Seq(S), NEW x \in S
  PROVE  Append(q, x) \in Seq(S)
OBVIOUS

LEMMA Shortened ==
  ASSUME NEW S, NEW q \in Seq(S), q # <<>>
  PROVE  Head(q) \in S /\ Tail(q) \in Seq(S)
OBVIOUS

LEMMA Taken ==
  ASSUME NEW S, NEW q \in Seq(S), NEW k \in DOMAIN q
  PROVE  RemoveAt(q, k) \in Seq(S)
<1>1. k \in 1 .. Len(q)
  OBVIOUS
<1>2. SubSeq(q, 1, k - 1) \in Seq(S) /\ SubSeq(q, k + 1, Len(q)) \in Seq(S)
  BY <1>1
<1>3. QED
  BY <1>2 DEF RemoveAt

Inboxes == [Server -> Seq(Message)]
CallLists == [Server -> Seq(Call)]
Copies == [Server -> Room \cup {NoRoom}]

LEMMA Published ==
  ASSUME inbox \in Inboxes, NEW s \in Server, NEW p \in Player,
         NEW kind \in {"created", "destroyed", "join", "leave", "kick", "ban", "unban"},
         Publish(s, kind, p)
  PROVE  inbox' \in Inboxes
<1>1. [kind |-> kind, player |-> p] \in Message
  BY DEF Message
<1>2. \A t \in Server : Append(inbox[t], [kind |-> kind, player |-> p]) \in Seq(Message)
  BY <1>1, Appended DEF Inboxes
<1>3. QED
  BY <1>2 DEF Publish, Inboxes

LEMMA Asked ==
  ASSUME calls \in CallLists, NEW s \in Server, NEW p \in Player,
         NEW op \in {"created", "destroyed", "ban", "unban", "mod", "unmod"}
  PROVE  [calls EXCEPT ![s] = Append(@, [op |-> op, player |-> p, done |-> FALSE])]
           \in CallLists
<1>1. [op |-> op, player |-> p, done |-> FALSE] \in Call
  BY DEF Call
<1>2. Append(calls[s], [op |-> op, player |-> p, done |-> FALSE]) \in Seq(Call)
  BY <1>1, Appended DEF CallLists
<1>3. QED
  BY <1>2 DEF CallLists

LEMMA Announced ==
  ASSUME inbox \in Inboxes, calls \in CallLists, NEW s \in Server, NEW p \in Player,
         NEW kind \in {"destroyed", "ban", "unban"}, Announce(s, kind, p)
  PROVE  inbox' \in Inboxes /\ calls' \in CallLists
<1>1. CASE rooms[s].persistent
  <2>1. /\ calls' = [calls EXCEPT ![s] = Append(@, [op |-> kind, player |-> p, done |-> FALSE])]
        /\ inbox' = inbox
    BY <1>1 DEF Announce
  <2>2. [calls EXCEPT ![s] = Append(@, [op |-> kind, player |-> p, done |-> FALSE])]
          \in CallLists
    BY Asked
  <2>3. QED
    BY <2>1, <2>2
<1>2. CASE ~rooms[s].persistent
  BY <1>2, Published DEF Announce
<1>3. QED
  BY <1>1, <1>2

LEMMA Arrived ==
  ASSUME inbox \in Inboxes, NEW s \in Server, inbox[s] # <<>>
  PROVE  /\ From(s) \in Player
         /\ [inbox EXCEPT ![s] = Tail(@)] \in Inboxes
<1>1. Head(inbox[s]) \in Message /\ Tail(inbox[s]) \in Seq(Message)
  BY Shortened DEF Inboxes
<1>2. QED
  BY <1>1 DEF Inboxes, From, Message

-----------------------------------------------------------------------------
(* Types. *)

Tables ==
  /\ inRoom \in [Server -> SUBSET Player]
  /\ mapped \subseteq Server
  /\ local \in [Server -> SUBSET Player]

LEMMA RoomFields ==
  ASSUME rooms \in Copies, NEW s \in Server, Here(s)
  PROVE  /\ rooms[s] \in Room
         /\ rooms[s].owner \in Player /\ rooms[s].moderators \subseteq Player
         /\ rooms[s].members \subseteq Player /\ rooms[s].banned \subseteq Player
         /\ rooms[s].persistent \in BOOLEAN
BY DEF Copies, Here, Room

LEMMA RoomChanged ==
  ASSUME rooms \in Copies, NEW s \in Server, NEW r \in Room \cup {NoRoom}
  PROVE  [rooms EXCEPT ![s] = r] \in Copies
BY DEF Copies

LEMMA MembersChanged ==
  ASSUME rooms \in Copies, NEW s \in Server, Here(s), NEW ps \in SUBSET Player
  PROVE  /\ [rooms EXCEPT ![s].members = @ \cup ps] \in Copies
         /\ [rooms EXCEPT ![s].members = @ \ ps] \in Copies
         /\ [rooms EXCEPT ![s].banned = @ \cup ps] \in Copies
         /\ [rooms EXCEPT ![s].banned = @ \ ps] \in Copies
         /\ [rooms EXCEPT ![s].moderators = @ \cup ps] \in Copies
         /\ [rooms EXCEPT ![s].moderators = @ \ ps] \in Copies
         /\ [rooms EXCEPT ![s].banned = @ \cup ps, ![s].members = @ \ ps] \in Copies
<1>1. rooms[s] \in Room
  BY RoomFields
<1>2. /\ [rooms[s] EXCEPT !.members = @ \cup ps] \in Room
      /\ [rooms[s] EXCEPT !.members = @ \ ps] \in Room
      /\ [rooms[s] EXCEPT !.banned = @ \cup ps] \in Room
      /\ [rooms[s] EXCEPT !.banned = @ \ ps] \in Room
      /\ [rooms[s] EXCEPT !.moderators = @ \cup ps] \in Room
      /\ [rooms[s] EXCEPT !.moderators = @ \ ps] \in Room
      /\ [rooms[s] EXCEPT !.banned = @ \cup ps, !.members = @ \ ps] \in Room
  BY <1>1 DEF Room
<1>3. QED
  BY <1>2 DEF Copies

LEMMA UserAdded ==
  ASSUME Tables, NEW s \in Server, NEW p \in Player, AddUser(s, p)
  PROVE  Tables'
BY DEF Tables, AddUser

LEMMA UsersRemoved ==
  ASSUME Tables, NEW s \in Server, NEW ps, RemoveUsers(s, ps)
  PROVE  Tables'
BY DEF Tables, RemoveUsers

LEMMA Forgotten ==
  ASSUME Tables, rooms \in Copies, NEW s \in Server, Forget(s)
  PROVE  Tables' /\ rooms' \in Copies /\ names' = names
BY DEF Tables, Forget, Copies

\* TypeOK in the terms of the lemmas.
LEMMA Typed ==
  TypeOK <=> /\ rooms \in Copies /\ Tables /\ names \in [Server -> SUBSET Player]
             /\ inbox \in Inboxes /\ calls \in CallLists
             /\ db \in Stored \cup {NoRoom}
             /\ phase \in [Server -> {"up", "down", "loading"}]
             /\ loaded \in [Server -> Stored \cup {NoRoom}]
             /\ made \in Nat /\ crashes \in Nat
BY DEF TypeOK, Copies, Tables, Inboxes, CallLists

LEMMA TypedNext ==
  TypeOK' <=> /\ rooms' \in Copies /\ Tables' /\ names' \in [Server -> SUBSET Player]
              /\ inbox' \in Inboxes /\ calls' \in CallLists
              /\ db' \in Stored \cup {NoRoom}
              /\ phase' \in [Server -> {"up", "down", "loading"}]
              /\ loaded' \in [Server -> Stored \cup {NoRoom}]
              /\ made' \in Nat /\ crashes' \in Nat
BY DEF TypeOK, Copies, Tables, Inboxes, CallLists

LEMMA NewRoomTyped ==
  ASSUME NEW o \in Player, NEW ps \in SUBSET Player, NEW b \in BOOLEAN
  PROVE  NewRoom(o, ps, b) \in Room
BY DEF NewRoom, Room

LEMMA DatabaseRoom ==
  ASSUME NEW stored \in Stored \cup {NoRoom}
  PROVE  FromDatabase(stored) \in Room \cup {NoRoom}
BY DEF FromDatabase, Stored, Room

LEMMA InitTyped == ASSUME Init PROVE TypeOK
<1>1. db \in Stored \cup {NoRoom}
  BY DEF Init, Stored
<1>2. rooms \in Copies
  BY <1>1, DatabaseRoom DEF Init, Copies
<1>3. inbox \in Inboxes /\ calls \in CallLists
  BY DEF Init, Inboxes, CallLists
<1>4. QED
  BY <1>1, <1>2, <1>3, Typed DEF Init, Tables

LEMMA MemberStepTyped ==
  ASSUME TypeOK, NEW s \in Server, NEW p \in Player, MemberStep(s, p)
  PROVE  TypeOK'
<1>1. /\ rooms \in Copies /\ Tables /\ names \in [Server -> SUBSET Player]
      /\ inbox \in Inboxes /\ calls \in CallLists
      /\ made' \in Nat
  BY Typed DEF MemberStep, Operation
<1>2. ASSUME JoinRoom(s, p) PROVE TypeOK'
  <2>1. rooms' \in Copies
    BY <1>1, <1>2, MembersChanged DEF JoinRoom
  <2>2. Tables' /\ inbox' \in Inboxes
    BY <1>1, <1>2, UserAdded, Published DEF JoinRoom
  <2>3. names' \in [Server -> SUBSET Player]
    BY <1>1, <1>2 DEF JoinRoom
  <2>4. QED
    BY <1>1, <1>2, <2>1, <2>2, <2>3, Typed, TypedNext DEF JoinRoom, Rest
<1>3. ASSUME LeaveRoom(s, p) PROVE TypeOK'
  <2>1. rooms' \in Copies
    BY <1>1, <1>3, MembersChanged DEF LeaveRoom
  <2>2. Tables' /\ inbox' \in Inboxes
    BY <1>1, <1>3, UsersRemoved, Published DEF LeaveRoom
  <2>3. QED
    BY <1>1, <1>3, <2>1, <2>2, Typed, TypedNext DEF LeaveRoom, Rest
<1>4. ASSUME NEW actor \in Player, KickUser(s, actor, p) PROVE TypeOK'
  <2>1. Here(s)
    BY <1>4 DEF KickUser, MayRemove, canModerate
  <2>2. rooms' \in Copies
    BY <1>1, <1>4, <2>1, MembersChanged DEF KickUser
  <2>3. Tables' /\ inbox' \in Inboxes
    BY <1>1, <1>4, UsersRemoved, Published DEF KickUser
  <2>4. QED
    BY <1>1, <1>4, <2>2, <2>3, Typed, TypedNext DEF KickUser, Rest
<1>5. ASSUME NEW actor \in Player, BanUser(s, actor, p) PROVE TypeOK'
  <2>1. Here(s)
    BY <1>5 DEF BanUser, MayRemove, canModerate
  <2>2. rooms' \in Copies
    BY <1>1, <1>5, <2>1, MembersChanged DEF BanUser
  <2>3. Tables'
    BY <1>1, <1>5, UsersRemoved DEF BanUser
  <2>4. inbox' \in Inboxes /\ calls' \in CallLists
    BY <1>1, <1>5, Announced DEF BanUser
  <2>5. QED
    BY <1>1, <1>5, <2>2, <2>3, <2>4, Typed, TypedNext DEF BanUser, Rest
<1>6. ASSUME NEW actor \in Player, UnbanUser(s, actor, p) PROVE TypeOK'
  <2>1. Here(s)
    BY <1>6 DEF UnbanUser, canModerate
  <2>2. rooms' \in Copies
    BY <1>1, <1>6, <2>1, MembersChanged DEF UnbanUser
  <2>3. Tables'
    BY <1>1, <1>6 DEF UnbanUser, Tables
  <2>4. inbox' \in Inboxes /\ calls' \in CallLists
    BY <1>1, <1>6, Announced DEF UnbanUser
  <2>5. QED
    BY <1>1, <1>6, <2>2, <2>3, <2>4, Typed, TypedNext DEF UnbanUser, Rest
<1>7. QED
  BY <1>2, <1>3, <1>4, <1>5, <1>6 DEF MemberStep, Operation

LEMMA RoomStepTyped ==
  ASSUME TypeOK, NEW s \in Server, RoomStep(s)
  PROVE  TypeOK'
<1>1. /\ rooms \in Copies /\ Tables /\ names \in [Server -> SUBSET Player]
      /\ inbox \in Inboxes /\ calls \in CallLists
      /\ made' \in Nat
  BY Typed DEF RoomStep, Operation
<1>2. ASSUME NEW o \in Player, NEW b \in BOOLEAN, CreateRoom(s, o, b) PROVE TypeOK'
  <2>1. rooms' \in Copies
    BY <1>1, <1>2, NewRoomTyped, RoomChanged DEF CreateRoom
  <2>2. Tables' /\ names' \in [Server -> SUBSET Player]
    BY <1>1, <1>2, UserAdded DEF CreateRoom
  <2>3. inbox' \in Inboxes /\ calls' \in CallLists
    <3>1. CASE b
      BY <1>1, <1>2, <3>1, Asked DEF CreateRoom
    <3>2. CASE ~b
      BY <1>1, <1>2, <3>2, Published DEF CreateRoom
    <3>3. QED
      BY <3>1, <3>2
  <2>4. QED
    BY <1>1, <1>2, <2>1, <2>2, <2>3, Typed, TypedNext DEF CreateRoom, Rest
<1>3. ASSUME DestroyRoom(s) PROVE TypeOK'
  <2>1. Tables' /\ rooms' \in Copies /\ names' = names
    BY <1>1, <1>3, Forgotten DEF DestroyRoom
  <2>2. inbox' \in Inboxes /\ calls' \in CallLists
    BY <1>1, <1>3, Announced, RoomFields DEF DestroyRoom
  <2>3. QED
    BY <1>1, <1>3, <2>1, <2>2, Typed, TypedNext DEF DestroyRoom, Rest
<1>4. QED
  BY <1>2, <1>3 DEF RoomStep, Operation

LEMMA LocalStepTyped ==
  ASSUME TypeOK, NEW s \in Server, LocalStep(s)
  PROVE  TypeOK'
<1>1. /\ rooms \in Copies /\ Tables /\ names \in [Server -> SUBSET Player]
      /\ inbox \in Inboxes /\ calls \in CallLists
      /\ made' \in Nat
  BY Typed DEF LocalStep, Operation
<1>2. ASSUME NEW p \in Player, Register(s, p) \/ Unregister(s, p) PROVE TypeOK'
  <2>1. Tables' /\ names' \in [Server -> SUBSET Player]
    BY <1>1, <1>2 DEF Register, Unregister, Tables
  <2>2. QED
    BY <1>1, <1>2, <2>1, Typed, TypedNext DEF Register, Unregister, Rest
<1>3. ASSUME NEW p \in Player, AddModerator(s, p) \/ RemoveModerator(s, p) PROVE TypeOK'
  <2>1. rooms' \in Copies
    <3>1. {p} \subseteq Player
      OBVIOUS
    <3>2. CASE AddModerator(s, p)
      BY <1>1, <3>1, <3>2, MembersChanged DEF AddModerator
    <3>3. CASE RemoveModerator(s, p)
      BY <1>1, <3>1, <3>3, MembersChanged DEF RemoveModerator
    <3>4. QED
      BY <1>3, <3>2, <3>3
  <2>2. PICK what \in {"mod", "unmod"} : SetModerators(s, what, p)
    BY <1>3 DEF AddModerator, RemoveModerator
  <2>3. calls' \in CallLists
    BY <1>1, <2>2, Asked DEF SetModerators, CallLists
  <2>4. Tables'
    BY <1>1, <2>2 DEF SetModerators, Tables
  <2>5. QED
    BY <1>1, <2>1, <2>2, <2>3, <2>4, Typed, TypedNext DEF SetModerators, Rest
<1>4. QED
  BY <1>2, <1>3 DEF LocalStep, Operation

LEMMA RemoteStepTyped ==
  ASSUME TypeOK, NEW s \in Server, RemoteStep(s)
  PROVE  TypeOK'
<1>1. inbox[s] # <<>> /\ Handled(s)
  BY DEF RemoteStep, RemoteUnknown, RemoteCreated, RemoteDestroyed, RemoteJoin,
         RemoteLeave, RemoteKick, RemoteBan, RemoteUnban, Arrival
<1>2. /\ rooms \in Copies /\ Tables /\ names \in [Server -> SUBSET Player]
      /\ From(s) \in Player
      /\ inbox' \in Inboxes
  BY <1>1, Typed, Arrived DEF Handled
<1>3. /\ rooms' \in Copies /\ Tables' /\ names' \in [Server -> SUBSET Player]
  <2>1. CASE RemoteUnknown(s)
    BY <1>2, <2>1 DEF RemoteUnknown, copies, Tables
  <2>2. CASE RemoteCreated(s)
    <3>1. NewRoom(From(s), {}, FALSE) \in Room
      BY <1>2, NewRoomTyped
    <3>2. rooms' \in Copies
      BY <1>2, <2>2, <3>1 DEF RemoteCreated, Copies
    <3>3. QED
      BY <1>2, <2>2, <3>2 DEF RemoteCreated, Tables
  <2>3. CASE RemoteDestroyed(s)
    BY <1>2, <2>3, Forgotten DEF RemoteDestroyed
  <2>4. CASE RemoteJoin(s)
    <3>1. rooms' \in Copies
      BY <1>2, <2>4, MembersChanged DEF RemoteJoin
    <3>2. QED
      BY <1>2, <2>4, <3>1 DEF RemoteJoin, Tables
  <2>5. CASE RemoteLeave(s)
    <3>1. rooms' \in Copies
      BY <1>2, <2>5, MembersChanged DEF RemoteLeave
    <3>2. QED
      BY <1>2, <2>5, <3>1 DEF RemoteLeave, Tables
  <2>6. CASE RemoteKick(s)
    BY <1>2, <2>6, MembersChanged, UsersRemoved DEF RemoteKick
  <2>7. CASE RemoteBan(s)
    <3>1. rooms' \in Copies
      BY <1>2, <2>7, MembersChanged DEF RemoteBan
    <3>2. Tables' /\ names' = names
      BY <1>2, <2>7, UsersRemoved DEF RemoteBan
    <3>3. QED
      BY <1>2, <3>1, <3>2
  <2>8. CASE RemoteUnban(s)
    <3>1. rooms' \in Copies
      BY <1>2, <2>8, MembersChanged DEF RemoteUnban
    <3>2. QED
      BY <1>2, <2>8, <3>1 DEF RemoteUnban, Tables
  <2>9. QED
    BY <2>1, <2>2, <2>3, <2>4, <2>5, <2>6, <2>7, <2>8 DEF RemoteStep
<1>4. QED
  BY <1>1, <1>2, <1>3, Typed, TypedNext DEF Handled, Rest

LEMMA EffectTyped ==
  ASSUME db \in Stored \cup {NoRoom}, NEW c \in Call
  PROVE  Effect(c) \in Stored \cup {NoRoom}
<1>1. c.player \in Player
  BY DEF Call
<1>2. /\ NoRoom \in Stored \cup {NoRoom}
      /\ [owner |-> c.player, moderators |-> {c.player}, banned |-> {}] \in Stored
  BY <1>1 DEF Stored
<1>3. CASE db = NoRoom
  BY <1>2, <1>3 DEF Effect
<1>4. CASE db # NoRoom
  <2>1. db \in Stored
    BY <1>4
  <2>2. /\ [db EXCEPT !.banned = @ \cup {c.player}] \in Stored
        /\ [db EXCEPT !.banned = @ \ {c.player}] \in Stored
        /\ [db EXCEPT !.moderators = @ \cup {c.player}] \in Stored
        /\ [db EXCEPT !.moderators = @ \ {c.player}] \in Stored
    BY <1>1, <2>1 DEF Stored
  <2>3. QED
    BY <1>2, <1>4, <2>2 DEF Effect
<1>5. QED
  BY <1>3, <1>4

LEMMA DatabaseStepTyped ==
  ASSUME TypeOK, NEW s \in Server, DatabaseStep(s)
  PROVE  TypeOK'
<1>1. PICK k \in DOMAIN calls[s] : Resume(s, k) \/ \E ok \in BOOLEAN : Execute(s, k, ok)
  BY DEF DatabaseStep
<1>2. /\ inbox \in Inboxes /\ calls \in CallLists /\ db \in Stored \cup {NoRoom}
      /\ calls[s] \in Seq(Call) /\ calls[s][k] \in Call
  BY <1>1, Typed DEF CallLists
<1>3. CASE Resume(s, k)
  <2>1. RemoveAt(calls[s], k) \in Seq(Call)
    BY <1>2, Taken
  <2>2. calls' \in CallLists
    BY <1>2, <1>3, <2>1 DEF Resume, CallLists
  <2>3. inbox' \in Inboxes
    <3>1. CASE calls[s][k].op \in {"mod", "unmod"}
      BY <1>2, <1>3, <3>1 DEF Resume
    <3>2. CASE calls[s][k].op \notin {"mod", "unmod"}
      <4>1. /\ calls[s][k].op \in {"created", "destroyed", "ban", "unban"}
            /\ calls[s][k].player \in Player
        BY <1>2, <3>2 DEF Call
      <4>2. Publish(s, calls[s][k].op, calls[s][k].player)
        BY <1>3, <3>2 DEF Resume
      <4>3. QED
        BY <1>2, <4>1, <4>2, Published
    <3>3. QED
      BY <3>1, <3>2
  <2>4. QED
    BY <1>3, <2>2, <2>3, Typed, TypedNext DEF Resume, copies, Rest, Tables
<1>4. CASE \E ok \in BOOLEAN : Execute(s, k, ok)
  <2>1. db' \in Stored \cup {NoRoom}
    BY <1>2, <1>4, EffectTyped DEF Execute
  <2>2. [calls[s] EXCEPT ![k].done = TRUE] \in Seq(Call)
    <3>1. [calls[s][k] EXCEPT !.done = TRUE] \in Call
      BY <1>2 DEF Call
    <3>2. QED
      BY <1>2, <3>1
  <2>3. calls' \in CallLists
    BY <1>2, <1>4, <2>2 DEF Execute, CallLists
  <2>4. QED
    BY <1>4, <2>1, <2>3, Typed, TypedNext DEF Execute, copies, Tables
<1>5. QED
  BY <1>1, <1>3, <1>4

LEMMA ServerStepTyped ==
  ASSUME TypeOK, NEW s \in Server, ServerStep(s)
  PROVE  TypeOK'
<1>1. CASE Crash(s)
  <2>1. rooms' \in Copies /\ Tables' /\ names' \in [Server -> SUBSET Player]
    BY <1>1, Typed DEF Crash, Copies, Tables
  <2>2. inbox' \in Inboxes /\ calls' \in CallLists
    BY <1>1, Typed DEF Crash, Inboxes, CallLists
  <2>3. QED
    BY <1>1, <2>1, <2>2, Typed, TypedNext DEF Crash
<1>2. CASE Start(s)
  <2>1. loaded' \in [Server -> Stored \cup {NoRoom}]
    BY <1>2, Typed DEF Start
  <2>2. QED
    BY <1>2, <2>1, Typed, TypedNext DEF Start, copies, Tables
<1>3. CASE Load(s)
  <2>1. FromDatabase(loaded[s]) \in Room \cup {NoRoom}
    BY Typed, DatabaseRoom
  <2>2. rooms' \in Copies
    BY <1>3, <2>1, Typed DEF Load, Copies
  <2>3. QED
    BY <1>3, <2>2, Typed, TypedNext DEF Load, Tables
<1>4. QED
  BY <1>1, <1>2, <1>3 DEF ServerStep

\* Every step of a server, with its record, is a step of ChatRooms.
LEMMA RecordedNext == ASSUME NEW s \in Server, Recorded(s) PROVE Next
BY DEF Recorded, Next, ServerStep

\* The servers' tables, the messages and calls under way and the database are
\* well typed, whatever crashes and failures come between the operations
\* (chat-room-handler.ts:151 to :165).
THEOREM TypeCorrect == AgreementSpec => []TypeOK
<1>1. AgreementInit => TypeOK
  BY InitTyped DEF AgreementInit
<1>2. TypeOK /\ [AgreementNext]_<<vars, history>> => TypeOK'
  <2>1. ASSUME TypeOK, NEW s \in Server, Recorded(s) PROVE TypeOK'
    <3>1. \/ \E p \in Player : MemberStep(s, p)
          \/ RoomStep(s) \/ LocalStep(s) \/ RemoteStep(s) \/ DatabaseStep(s)
          \/ ServerStep(s)
      BY <2>1 DEF Recorded, ServerStep
    <3>2. QED
      BY <2>1, <3>1, MemberStepTyped, RoomStepTyped, LocalStepTyped, RemoteStepTyped,
         DatabaseStepTyped, ServerStepTyped
  <2>2. ASSUME TypeOK, UNCHANGED <<vars, history>> PROVE TypeOK'
    BY <2>2 DEF TypeOK, vars, copies
  <2>3. QED
    BY <2>1, <2>2 DEF AgreementNext
<1>3. QED
  BY <1>1, <1>2, PTL DEF AgreementSpec

-----------------------------------------------------------------------------
(* Who is listed and who is sent messages. *)

Belongs(s, p) == Here(s) /\ p \in rooms[s].members

\* A server that is down, or loads its rooms, lists nobody.
NobodyYet == \A s \in Server : phase[s] # "up" => inRoom[s] = {}

IInv == TypeOK /\ HearersBelong /\ NobodyYet

\* A step of server s leaves the tables of the others alone ...
Elsewhere(s) ==
  \A t \in Server \ {s} :
    /\ rooms'[t] = rooms[t] /\ inRoom'[t] = inRoom[t] /\ local'[t] = local[t]
    /\ t \in mapped' <=> t \in mapped

\* ... and leaves its own in order, but for strays of which new have just come up.
InOrder(s, new) ==
  /\ local'[s] \subseteq inRoom'[s]
  /\ s \notin mapped' => local'[s] = {}
  /\ \A p \in inRoom'[s] : <<s, p>> \in strays \cup new \/ Belongs(s, p)'

LEMMA StraysKept ==
  ASSUME NEW new, strays' = StraysNow(new), NEW t \in Server, NEW p \in inRoom'[t],
         <<t, p>> \in strays \cup new \/ Belongs(t, p)'
  PROVE  <<t, p>> \in strays' \/ Belongs(t, p)'
<1>1. ASSUME <<t, p>> \in strays \cup new, ~Belongs(t, p)' PROVE <<t, p>> \in strays'
  BY <1>1 DEF StraysNow, Belongs, Here
<1>2. QED
  BY <1>1

LEMMA Hearers ==
  ASSUME HearersBelong, NEW s \in Server, Elsewhere(s), NEW new,
         strays' = StraysNow(new) \/ (new = {} /\ strays' = strays),
         InOrder(s, new)
  PROVE  HearersBelong'
<1>1. ASSUME NEW t \in Server
      PROVE  /\ local'[t] \subseteq inRoom'[t]
             /\ t \notin mapped' => local'[t] = {}
             /\ \A p \in inRoom'[t] : <<t, p>> \in strays \cup new \/ Belongs(t, p)'
  <2>1. CASE t = s
    BY <2>1 DEF InOrder
  <2>2. CASE t # s
    BY <2>2 DEF Elsewhere, HearersBelong, Belongs, Here
  <2>3. QED
    BY <2>1, <2>2
<1>2. ASSUME NEW t \in Server, NEW p \in inRoom'[t]
      PROVE  <<t, p>> \in strays' \/ Belongs(t, p)'
  BY <1>1, StraysKept
<1>3. QED
  BY <1>1, <1>2 DEF HearersBelong, Belongs, Here

\* What holds of the server that takes a step, beforehand.
LEMMA Before ==
  ASSUME IInv, NEW s \in Server
  PROVE  /\ rooms \in Copies /\ Tables
         /\ local[s] \subseteq inRoom[s]
         /\ s \notin mapped => local[s] = {}
         /\ \A p \in inRoom[s] : <<s, p>> \in strays \/ Belongs(s, p)
BY Typed DEF IInv, HearersBelong, Belongs

\* Users leave the tables, and no others leave the room.
LEMMA Removal ==
  ASSUME IInv, NEW s \in Server, Here(s), NEW ps, RemoveUsers(s, ps), NEW r \in Room,
         rooms' = [rooms EXCEPT ![s] = r], rooms[s].members \ ps \subseteq r.members
  PROVE  Elsewhere(s) /\ InOrder(s, {})
<1>1. /\ rooms \in Copies /\ Tables
      /\ local[s] \subseteq inRoom[s] /\ (s \notin mapped => local[s] = {})
      /\ \A q \in inRoom[s] : <<s, q>> \in strays \/ q \in rooms[s].members
  BY Before DEF Belongs
<1>2. rooms'[s] = r /\ r # NoRoom
  BY <1>1, RoomsAssumption DEF Copies
<1>3. Elsewhere(s)
  BY <1>1 DEF Elsewhere, RemoveUsers, Copies, Tables
<1>4. InOrder(s, {})
  BY <1>1, <1>2 DEF InOrder, RemoveUsers, Belongs, Here, Tables
<1>5. QED
  BY <1>3, <1>4

LEMMA MemberStepInOrder ==
  ASSUME IInv, NEW s \in Server, NEW p \in Player, MemberStep(s, p)
  PROVE  Elsewhere(s) /\ InOrder(s, {})
<1>1. /\ rooms \in Copies /\ Tables
      /\ local[s] \subseteq inRoom[s] /\ (s \notin mapped => local[s] = {})
      /\ \A q \in inRoom[s] : <<s, q>> \in strays \/ (Here(s) /\ q \in rooms[s].members)
  BY Before DEF Belongs
<1>2. Here(s)
  BY DEF MemberStep, Operation, JoinRoom, LeaveRoom, KickUser, BanUser, UnbanUser,
         MayRemove, canModerate
<1>3. rooms[s] \in Room
  BY <1>1, <1>2, RoomFields
<1>4. ASSUME JoinRoom(s, p) PROVE Elsewhere(s) /\ InOrder(s, {})
  <2>1. /\ rooms' = [rooms EXCEPT ![s].members = @ \cup {p}]
        /\ AddUser(s, p)
    BY <1>4 DEF JoinRoom
  <2>2. rooms'[s] \in Room /\ rooms'[s].members = rooms[s].members \cup {p}
    BY <1>1, <1>2, <1>3, <2>1 DEF Copies, Room
  <2>3. rooms'[s] # NoRoom
    BY <2>2, RoomsAssumption
  <2>4. Elsewhere(s)
    BY <1>1, <2>1 DEF Elsewhere, AddUser, Copies, Tables
  <2>5. InOrder(s, {})
    BY <1>1, <2>1, <2>2, <2>3 DEF InOrder, AddUser, Belongs, Here, Tables
  <2>6. QED
    BY <2>4, <2>5
<1>5. ASSUME LeaveRoom(s, p) PROVE Elsewhere(s) /\ InOrder(s, {})
  <2>1. /\ [rooms[s] EXCEPT !.members = @ \ {p}] \in Room
        /\ rooms[s].members \ {p} \subseteq [rooms[s] EXCEPT !.members = @ \ {p}].members
    BY <1>3 DEF Room
  <2>2. rooms' = [rooms EXCEPT ![s] = [rooms[s] EXCEPT !.members = @ \ {p}]]
    BY <1>5 DEF LeaveRoom
  <2>3. RemoveUsers(s, {p})
    BY <1>5 DEF LeaveRoom
  <2>4. QED
    BY <1>2, <2>1, <2>2, <2>3, Removal
<1>6. ASSUME NEW actor \in Player, KickUser(s, actor, p) PROVE Elsewhere(s) /\ InOrder(s, {})
  <2>1. /\ [rooms[s] EXCEPT !.members = @ \ {p}] \in Room
        /\ rooms[s].members \ {p} \subseteq [rooms[s] EXCEPT !.members = @ \ {p}].members
    BY <1>3 DEF Room
  <2>2. rooms' = [rooms EXCEPT ![s] = [rooms[s] EXCEPT !.members = @ \ {p}]]
    BY <1>6 DEF KickUser
  <2>3. RemoveUsers(s, {p})
    BY <1>6 DEF KickUser
  <2>4. QED
    BY <1>2, <2>1, <2>2, <2>3, Removal
<1>7. ASSUME NEW actor \in Player, BanUser(s, actor, p) PROVE Elsewhere(s) /\ InOrder(s, {})
  <2>1. /\ [rooms[s] EXCEPT !.banned = @ \cup {p}, !.members = @ \ {p}] \in Room
        /\ rooms[s].members \ ({p} \cap rooms[s].members)
             \subseteq [rooms[s] EXCEPT !.banned = @ \cup {p}, !.members = @ \ {p}].members
    BY <1>3 DEF Room
  <2>2. rooms' = [rooms EXCEPT ![s] =
                    [rooms[s] EXCEPT !.banned = @ \cup {p}, !.members = @ \ {p}]]
    BY <1>7 DEF BanUser
  <2>3. RemoveUsers(s, ({p} \cap rooms[s].members))
    BY <1>7 DEF BanUser
  <2>4. QED
    BY <1>2, <2>1, <2>2, <2>3, Removal
<1>8. ASSUME NEW actor \in Player, UnbanUser(s, actor, p) PROVE Elsewhere(s) /\ InOrder(s, {})
  <2>1. /\ rooms' = [rooms EXCEPT ![s].banned = @ \ {p}]
        /\ UNCHANGED <<inRoom, mapped, local>>
    BY <1>8 DEF UnbanUser
  <2>2. rooms'[s] \in Room /\ rooms'[s].members = rooms[s].members
    BY <1>1, <1>2, <1>3, <2>1 DEF Copies, Room
  <2>3. rooms'[s] # NoRoom
    BY <2>2, RoomsAssumption
  <2>4. Elsewhere(s)
    BY <1>1, <2>1 DEF Elsewhere, Copies
  <2>5. InOrder(s, {})
    BY <1>1, <2>1, <2>2, <2>3 DEF InOrder, Belongs, Here
  <2>6. QED
    BY <2>4, <2>5
<1>9. QED
  BY <1>4, <1>5, <1>6, <1>7, <1>8 DEF MemberStep, Operation

LEMMA ForgetInOrder ==
  ASSUME IInv, NEW s \in Server, Here(s), Forget(s)
  PROVE  Elsewhere(s) /\ InOrder(s, {})
<1>1. /\ rooms \in Copies /\ Tables
      /\ \A p \in inRoom[s] : <<s, p>> \in strays \/ p \in rooms[s].members
  BY Before DEF Belongs
<1>2. Elsewhere(s)
  BY <1>1 DEF Elsewhere, Forget, Copies, Tables
<1>3. InOrder(s, {})
  BY <1>1 DEF InOrder, Forget, Tables
<1>4. QED
  BY <1>2, <1>3

LEMMA RoomStepInOrder ==
  ASSUME IInv, NEW s \in Server, RoomStep(s)
  PROVE  Elsewhere(s) /\ InOrder(s, {})
<1>1. ASSUME NEW o \in Player, NEW b \in BOOLEAN, CreateRoom(s, o, b)
      PROVE  Elsewhere(s) /\ InOrder(s, {})
  <2>1. /\ rooms \in Copies /\ Tables
        /\ local[s] \subseteq inRoom[s] /\ (s \notin mapped => local[s] = {})
        /\ \A p \in inRoom[s] : <<s, p>> \in strays
    BY <1>1, Before DEF Belongs, CreateRoom
  <2>2. /\ rooms' = [rooms EXCEPT ![s] = NewRoom(o, {o}, b)]
        /\ AddUser(s, o)
    BY <1>1 DEF CreateRoom
  <2>3. NewRoom(o, {o}, b) \in Room /\ NewRoom(o, {o}, b).members = {o}
    BY NewRoomTyped DEF NewRoom
  <2>4. rooms'[s] # NoRoom /\ rooms'[s].members = {o}
    BY <2>1, <2>2, <2>3, RoomsAssumption DEF Copies
  <2>5. Elsewhere(s)
    BY <2>1, <2>2 DEF Elsewhere, AddUser, Copies, Tables
  <2>6. InOrder(s, {})
    BY <2>1, <2>2, <2>4 DEF InOrder, AddUser, Belongs, Here, Tables
  <2>7. QED
    BY <2>5, <2>6
<1>2. ASSUME DestroyRoom(s) PROVE Elsewhere(s) /\ InOrder(s, {})
  BY <1>2, ForgetInOrder DEF DestroyRoom
<1>3. QED
  BY <1>1, <1>2 DEF RoomStep, Operation

\* A step that leaves the tables alone, and the members of the room.
LEMMA Untouched ==
  ASSUME IInv, NEW s \in Server, UNCHANGED <<inRoom, mapped, local>>,
         NEW r \in Room \cup {NoRoom}, rooms' = [rooms EXCEPT ![s] = r],
         Here(s) => r # NoRoom /\ rooms[s].members \subseteq r.members
  PROVE  Elsewhere(s) /\ InOrder(s, {})
<1>1. /\ rooms \in Copies
      /\ local[s] \subseteq inRoom[s] /\ (s \notin mapped => local[s] = {})
      /\ \A p \in inRoom[s] : <<s, p>> \in strays \/ Belongs(s, p)
  BY Before
<1>2. rooms'[s] = r
  BY <1>1 DEF Copies
<1>3. Elsewhere(s)
  BY <1>1 DEF Elsewhere, Copies
<1>4. InOrder(s, {})
  BY <1>1, <1>2 DEF InOrder, Belongs, Here
<1>5. QED
  BY <1>3, <1>4

LEMMA LocalStepInOrder ==
  ASSUME IInv, NEW s \in Server, LocalStep(s)
  PROVE  Elsewhere(s) /\ InOrder(s, {})
<1>1. /\ rooms \in Copies /\ Tables
      /\ local[s] \subseteq inRoom[s] /\ (s \notin mapped => local[s] = {})
      /\ \A q \in inRoom[s] : <<s, q>> \in strays \/ Belongs(s, q)
  BY Before
<1>2. ASSUME NEW p \in Player, Register(s, p) \/ Unregister(s, p)
      PROVE  Elsewhere(s) /\ InOrder(s, {})
  BY <1>1, <1>2 DEF Elsewhere, InOrder, Register, Unregister, Belongs, Here, Tables
<1>3. ASSUME NEW p \in Player, AddModerator(s, p) \/ RemoveModerator(s, p)
      PROVE  Elsewhere(s) /\ InOrder(s, {})
  <2>1. Here(s) /\ UNCHANGED <<inRoom, mapped, local>>
    BY <1>3 DEF AddModerator, RemoveModerator, SetModerators
  <2>2. PICK ms \in SUBSET Player : rooms' = [rooms EXCEPT ![s] = [@ EXCEPT !.moderators = ms]]
    <3>1. rooms[s] \in Room
      BY <1>1, <2>1, RoomFields
    <3>2. CASE AddModerator(s, p)
      <4>1. rooms' = [rooms EXCEPT ![s] = [@ EXCEPT !.moderators = rooms[s].moderators \cup {p}]]
        BY <3>2 DEF AddModerator
      <4>2. QED
        BY <3>1, <4>1 DEF Room
    <3>3. CASE RemoveModerator(s, p)
      <4>1. rooms' = [rooms EXCEPT ![s] = [@ EXCEPT !.moderators = rooms[s].moderators \ {p}]]
        BY <3>3 DEF RemoveModerator
      <4>2. QED
        BY <3>1, <4>1 DEF Room
    <3>4. QED
      BY <1>3, <3>2, <3>3
  <2>3. /\ [rooms[s] EXCEPT !.moderators = ms] \in Room
        /\ [rooms[s] EXCEPT !.moderators = ms].members = rooms[s].members
    BY <1>1, <2>1, RoomFields DEF Room
  <2>4. QED
    BY <2>1, <2>2, <2>3, Untouched, RoomsAssumption
<1>4. QED
  BY <1>2, <1>3 DEF LocalStep, Operation

LEMMA StillInOrder ==
  ASSUME IInv, NEW s \in Server, UNCHANGED copies
  PROVE  Elsewhere(s) /\ InOrder(s, {})
BY Before DEF copies, Elsewhere, InOrder, Belongs, Here

\* A member that is said to have left elsewhere stays in the tables as a stray.
LEMMA LeaveInOrder ==
  ASSUME IInv, NEW s \in Server, RemoteLeave(s)
  PROVE  Elsewhere(s) /\ InOrder(s, LeftElsewhere(s))
<1>1. /\ rooms \in Copies
      /\ local[s] \subseteq inRoom[s] /\ (s \notin mapped => local[s] = {})
      /\ \A p \in inRoom[s] : <<s, p>> \in strays \/ p \in rooms[s].members
  BY Before DEF Belongs
<1>2. /\ Here(s) /\ LeftElsewhere(s) = {<<s, From(s)>>}
      /\ rooms' = [rooms EXCEPT ![s].members = @ \ {From(s)}]
      /\ UNCHANGED <<inRoom, mapped, local>>
  BY DEF RemoteLeave, LeftElsewhere
<1>3. rooms[s] \in Room
  BY <1>1, <1>2, RoomFields
<1>4. rooms'[s] \in Room /\ rooms'[s].members = rooms[s].members \ {From(s)}
  BY <1>1, <1>2, <1>3 DEF Copies, Room
<1>5. rooms'[s] # NoRoom
  BY <1>4, RoomsAssumption
<1>6. Elsewhere(s)
  BY <1>1, <1>2 DEF Elsewhere, Copies
<1>7. InOrder(s, LeftElsewhere(s))
  BY <1>1, <1>2, <1>4, <1>5 DEF InOrder, Belongs, Here
<1>8. QED
  BY <1>6, <1>7

LEMMA RemoteStepInOrder ==
  ASSUME IInv, NEW s \in Server, RemoteStep(s)
  PROVE  Elsewhere(s) /\ InOrder(s, LeftElsewhere(s))
<1>1. SUFFICES ASSUME ~RemoteLeave(s) PROVE Elsewhere(s) /\ InOrder(s, {})
  BY LeaveInOrder DEF InOrder
<1>2. rooms \in Copies /\ inbox \in Inboxes
  BY Typed DEF IInv
<1>3. inbox[s] # <<>>
  BY DEF RemoteStep, RemoteUnknown, RemoteCreated, RemoteDestroyed, RemoteJoin,
         RemoteLeave, RemoteKick, RemoteBan, RemoteUnban, Arrival
<1>4. From(s) \in Player
  BY <1>2, <1>3, Arrived
<1>5. CASE RemoteUnknown(s)
  BY <1>5, StillInOrder DEF RemoteUnknown
<1>6. CASE RemoteCreated(s)
  <2>1. /\ UNCHANGED <<inRoom, mapped, local>>
        /\ rooms' = [rooms EXCEPT ![s] = IF Here(s) THEN rooms[s]
                                         ELSE NewRoom(From(s), {}, FALSE)]
    BY <1>6 DEF RemoteCreated
  <2>2. NewRoom(From(s), {}, FALSE) \in Room
    BY <1>4, NewRoomTyped
  <2>3. CASE Here(s)
    <3>1. rooms[s] \in Room
      BY <1>2, <2>3, RoomFields
    <3>2. rooms' = [rooms EXCEPT ![s] = rooms[s]]
      BY <2>1, <2>3
    <3>3. QED
      BY <2>1, <3>1, <3>2, Untouched, RoomsAssumption
  <2>4. CASE ~Here(s)
    BY <2>1, <2>2, <2>4, Untouched
  <2>5. QED
    BY <2>3, <2>4
<1>7. CASE RemoteDestroyed(s)
  BY <1>7, ForgetInOrder DEF RemoteDestroyed
<1>8. ASSUME Here(s) PROVE rooms[s] \in Room
  BY <1>2, <1>8, RoomFields
<1>9. CASE RemoteJoin(s)
  <2>1. /\ Here(s) /\ UNCHANGED <<inRoom, mapped, local>>
        /\ rooms' = [rooms EXCEPT ![s] = [rooms[s] EXCEPT !.members = @ \cup {From(s)}]]
    BY <1>9 DEF RemoteJoin
  <2>2. /\ [rooms[s] EXCEPT !.members = @ \cup {From(s)}] \in Room
        /\ rooms[s].members \subseteq [rooms[s] EXCEPT !.members = @ \cup {From(s)}].members
    BY <1>4, <1>8, <2>1 DEF Room
  <2>3. QED
    BY <2>1, <2>2, Untouched, RoomsAssumption
<1>10. CASE RemoteKick(s)
  <2>1. /\ Here(s) /\ RemoveUsers(s, {From(s)})
        /\ rooms' = [rooms EXCEPT ![s] = [rooms[s] EXCEPT !.members = @ \ {From(s)}]]
    BY <1>10 DEF RemoteKick
  <2>2. /\ [rooms[s] EXCEPT !.members = @ \ {From(s)}] \in Room
        /\ rooms[s].members \ {From(s)}
             \subseteq [rooms[s] EXCEPT !.members = @ \ {From(s)}].members
    BY <1>4, <1>8, <2>1 DEF Room
  <2>3. QED
    BY <2>1, <2>2, Removal
<1>11. CASE RemoteBan(s)
  <2>1. /\ Here(s) /\ RemoveUsers(s, {From(s)})
        /\ rooms' = [rooms EXCEPT ![s] =
             [rooms[s] EXCEPT !.banned = @ \cup {From(s)}, !.members = @ \ {From(s)}]]
    BY <1>11 DEF RemoteBan
  <2>2. /\ [rooms[s] EXCEPT !.banned = @ \cup {From(s)}, !.members = @ \ {From(s)}] \in Room
        /\ rooms[s].members \ {From(s)} \subseteq
             [rooms[s] EXCEPT !.banned = @ \cup {From(s)}, !.members = @ \ {From(s)}].members
    BY <1>4, <1>8, <2>1 DEF Room
  <2>3. QED
    BY <2>1, <2>2, Removal
<1>12. CASE RemoteUnban(s)
  <2>1. /\ Here(s) /\ UNCHANGED <<inRoom, mapped, local>>
        /\ rooms' = [rooms EXCEPT ![s] = [rooms[s] EXCEPT !.banned = @ \ {From(s)}]]
    BY <1>12 DEF RemoteUnban
  <2>2. /\ [rooms[s] EXCEPT !.banned = @ \ {From(s)}] \in Room
        /\ [rooms[s] EXCEPT !.banned = @ \ {From(s)}].members = rooms[s].members
    BY <1>4, <1>8, <2>1 DEF Room
  <2>3. QED
    BY <2>1, <2>2, Untouched, RoomsAssumption
<1>13. QED
  BY <1>1, <1>5, <1>6, <1>7, <1>9, <1>10, <1>11, <1>12 DEF RemoteStep

LEMMA CrashInOrder ==
  ASSUME IInv, NEW s \in Server, Crash(s)
  PROVE  Elsewhere(s) /\ InOrder(s, {})
<1>1. rooms \in Copies /\ Tables
  BY Before
<1>2. QED
  BY <1>1 DEF Crash, Elsewhere, InOrder, Copies, Tables

\* A server that loads its rooms lists nobody who could not be in them.
LEMMA LoadInOrder ==
  ASSUME IInv, NEW s \in Server, Load(s)
  PROVE  Elsewhere(s) /\ InOrder(s, {})
<1>1. /\ rooms \in Copies
      /\ local[s] \subseteq inRoom[s] /\ (s \notin mapped => local[s] = {})
  BY Before
<1>2. inRoom[s] = {}
  BY DEF Load, IInv, NobodyYet
<1>3. QED
  BY <1>1, <1>2 DEF Load, Elsewhere, InOrder, Copies

LEMMA NobodyYetKept ==
  ASSUME IInv, NEW s \in Server, Recorded(s)
  PROVE  NobodyYet'
<1>1. /\ inRoom \in [Server -> SUBSET Player]
      /\ phase \in [Server -> {"up", "down", "loading"}]
      /\ \A t \in Server : phase[t] # "up" => inRoom[t] = {}
  BY DEF IInv, TypeOK, NobodyYet
<1>2. ASSUME phase[s] = "up", UNCHANGED phase, Elsewhere(s) PROVE NobodyYet'
  BY <1>1, <1>2 DEF NobodyYet, Elsewhere
<1>3. CASE \E p \in Player : MemberStep(s, p)
  <2>1. phase[s] = "up" /\ UNCHANGED phase
    BY <1>3 DEF MemberStep, Operation, JoinRoom, LeaveRoom, KickUser, BanUser, UnbanUser, Rest
  <2>2. QED
    BY <1>2, <1>3, <2>1, MemberStepInOrder
<1>4. CASE RoomStep(s)
  <2>1. phase[s] = "up" /\ UNCHANGED phase
    BY <1>4 DEF RoomStep, Operation, CreateRoom, DestroyRoom, Rest
  <2>2. QED
    BY <1>2, <1>4, <2>1, RoomStepInOrder
<1>5. CASE LocalStep(s)
  <2>1. phase[s] = "up" /\ UNCHANGED phase
    BY <1>5 DEF LocalStep, Operation, Register, Unregister, AddModerator, RemoveModerator,
                SetModerators, Rest
  <2>2. QED
    BY <1>2, <1>5, <2>1, LocalStepInOrder
<1>6. CASE RemoteStep(s)
  <2>1. UNCHANGED phase
    BY <1>6 DEF RemoteStep, RemoteUnknown, RemoteCreated, RemoteDestroyed, RemoteJoin,
                RemoteLeave, RemoteKick, RemoteBan, RemoteUnban, Handled, Rest
  <2>2. inRoom'[s] \subseteq inRoom[s]
    BY <1>1, <1>6 DEF RemoteStep, RemoteUnknown, RemoteCreated, RemoteDestroyed, RemoteJoin,
                      RemoteLeave, RemoteKick, RemoteBan, RemoteUnban, copies, Forget,
                      RemoveUsers
  <2>3. \A t \in Server \ {s} : inRoom'[t] = inRoom[t]
    BY <1>6, RemoteStepInOrder DEF Elsewhere
  <2>4. QED
    BY <1>1, <2>1, <2>2, <2>3 DEF NobodyYet
<1>7. CASE DatabaseStep(s) \/ Start(s)
  <2>1. UNCHANGED inRoom /\ \A t \in Server : phase'[t] = "up" <=> phase[t] = "up"
    BY <1>1, <1>7 DEF DatabaseStep, Resume, Execute, Start, copies, Rest
  <2>2. QED
    BY <1>1, <2>1 DEF NobodyYet
<1>8. CASE Crash(s) \/ Load(s)
  BY <1>1, <1>8 DEF Crash, Load, NobodyYet
<1>9. QED
  BY <1>3, <1>4, <1>5, <1>6, <1>7, <1>8 DEF Recorded

LEMMA HearersKept ==
  ASSUME IInv, NEW s \in Server, Recorded(s)
  PROVE  HearersBelong'
<1>1. HearersBelong
  BY DEF IInv
<1>2. CASE (\E p \in Player : MemberStep(s, p)) /\ strays' = StraysNow({})
  BY <1>1, <1>2, MemberStepInOrder, Hearers
<1>3. CASE RoomStep(s) /\ strays' = StraysNow({})
  BY <1>1, <1>3, RoomStepInOrder, Hearers
<1>4. CASE RemoteStep(s) /\ strays' = StraysNow(LeftElsewhere(s))
  BY <1>1, <1>4, RemoteStepInOrder, Hearers
<1>5. CASE (DatabaseStep(s) \/ Start(s)) /\ strays' = strays
  <2>1. UNCHANGED copies
    BY <1>5 DEF DatabaseStep, Resume, Execute, Start
  <2>2. QED
    BY <1>1, <1>5, <2>1, StillInOrder, Hearers
<1>6. CASE Crash(s) /\ strays' = StraysNow({})
  BY <1>1, <1>6, CrashInOrder, Hearers
<1>7. CASE Load(s) /\ strays' = StraysNow({})
  BY <1>1, <1>7, LoadInOrder, Hearers
<1>8. CASE LocalStep(s) /\ strays' = strays
  BY <1>1, <1>8, LocalStepInOrder, Hearers
<1>9. QED
  BY <1>2, <1>3, <1>4, <1>5, <1>6, <1>7, <1>8 DEF Recorded, history

\* Who is sent a room's messages is a member of it, or has left it through
\* another server: no join, kick, ban, destruction, message or restart leaves a
\* listener behind (chat-room-handler.ts:1461, :1489).
THEOREM ListenersBelong == AgreementSpec => []HearersBelong
<1>1. AgreementInit => IInv
  BY InitTyped DEF AgreementInit, IInv, HearersBelong, NobodyYet, Init
<1>2. IInv /\ [AgreementNext]_<<vars, history>> => IInv'
  <2>1. ASSUME IInv, NEW s \in Server, Recorded(s) PROVE IInv'
    <3>1. \/ \E p \in Player : MemberStep(s, p)
          \/ RoomStep(s) \/ LocalStep(s) \/ RemoteStep(s) \/ DatabaseStep(s)
          \/ ServerStep(s)
      BY <2>1 DEF Recorded, ServerStep
    <3>2. TypeOK'
      BY <2>1, <3>1, MemberStepTyped, RoomStepTyped, LocalStepTyped, RemoteStepTyped,
         DatabaseStepTyped, ServerStepTyped DEF IInv
    <3>3. QED
      BY <2>1, <3>2, NobodyYetKept, HearersKept DEF IInv
  <2>2. ASSUME IInv, UNCHANGED <<vars, history>> PROVE IInv'
    BY <2>2 DEF IInv, TypeOK, HearersBelong, NobodyYet, Here, vars, copies, history
  <2>3. QED
    BY <2>1, <2>2 DEF AgreementNext
<1>3. IInv => HearersBelong
  BY DEF IInv
<1>4. QED
  BY <1>1, <1>2, <1>3, PTL DEF AgreementSpec
-----------------------------------------------------------------------------
(* What a server will hold of the room when it has handled its messages.   *)

\* What a copy of the room says about player p.
Seen(room, p) ==
  IF room = NoRoom THEN NoRoom
  ELSE [owner |-> room.owner, moderators |-> {}, members |-> room.members \cap {p},
        banned |-> room.banned \cap {p}, persistent |-> room.persistent]

\* What it says when message m has been handled.
Heard(room, p, m) ==
  LET who == {p} \cap {m.player} IN
  IF m.kind = "created"
  THEN IF room = NoRoom THEN Seen(NewRoom(m.player, {}, FALSE), p) ELSE room
  ELSE IF room = NoRoom \/ m.kind = "destroyed" THEN NoRoom
  ELSE [room EXCEPT
          !.members = IF m.kind = "join" THEN @ \cup who
                      ELSE IF m.kind = "unban" THEN @ ELSE @ \ who,
          !.banned  = IF m.kind = "ban" THEN @ \cup who
                      ELSE IF m.kind = "unban" THEN @ \ who ELSE @]

\* What it says after each message of an inbox, and after the last.
After(room, p, q) ==
  LET after[n \in 0 .. Len(q)] == IF n = 0 THEN room ELSE Heard(after[n - 1], p, q[n])
  IN  after

Settled(room, p, q) == After(room, p, q)[Len(q)]

Outlook(s, p) == Settled(Seen(rooms[s], p), p, inbox[s])

\* The calls of a server after which the others will hear of the room or, in
\* full, of player p.
Matters(c, p, full) ==
  c.op \in RoomWide \/ (full /\ c.op \in {"ban", "unban"} /\ c.player = p)

Due(s, p, full) == {c \in Range(calls[s]) : Matters(c, p, full)}

News(c) == [kind |-> c.op, player |-> c.player]

-----------------------------------------------------------------------------
(* The inductive invariant. *)

\* Two copies of the room agree, in full on player p.
Match(s, t, p, full, v, w) ==
  /\ {s, t} \cap renewed = {} => (v = NoRoom <=> w = NoRoom)
  /\ v # NoRoom /\ w # NoRoom =>
       /\ v.owner = w.owner
       /\ full => /\ p \in v.banned <=> p \in w.banned
                  /\ {s, t} \cap renewed = {} /\ p # v.owner
                       => (p \in v.members <=> p \in w.members)

\* A server that is not up has crashed, and waits for nothing.
Phases ==
  \A s \in Server :
    /\ phase[s] # "up" => (s \in renewed /\ calls[s] = <<>>)
    /\ phase[s] = "down" => (rooms[s] = NoRoom /\ inbox[s] = <<>>)

\* One call at a time.
OneCall(p, full) ==
  \A s, t \in Server : \A k \in DOMAIN calls[s], l \in DOMAIN calls[t] :
    Matters(calls[s][k], p, full) /\ Matters(calls[t][l], p, full)
      => (s = t /\ k = l)

\* Nobody else has the room that a server waits to announce.
MadeAlone(p) ==
  \A s \in Server : \A c \in Due(s, p, FALSE) : c.op = "created" =>
    \A t \in Server \ {s} : Outlook(t, p) = NoRoom

\* The copies will agree when the servers have heard of all that happened.
InStep(p, full) ==
  /\ \A s, t \in Server :
       s # t /\ Due(s, p, full) = {} /\ Due(t, p, full) = {} =>
         Match(s, t, p, full, Outlook(s, p), Outlook(t, p))
  /\ \A s \in Server : \A c \in Due(s, p, full) : \A t \in Server \ {s} :
       Match(s, t, p, full, Outlook(s, p), Heard(Outlook(t, p), p, News(c)))

\* Nobody will be in the room who is banned from it.
Apart(p) ==
  \A s \in Server : Outlook(s, p) # NoRoom =>
    ~(p \in Outlook(s, p).members /\ p \in Outlook(s, p).banned)

\* The database agrees with the persistent copies, or will when a call is done.
Kept(p) ==
  /\ db # NoRoom /\ (\A t \in Server : Due(t, p, TRUE) = {}) =>
     \A s \in Server :
       Outlook(s, p) # NoRoom /\ Outlook(s, p).persistent =>
         (p \in Outlook(s, p).banned <=> p \in db.banned)
  /\ \A s \in Server : \A c \in Due(s, p, TRUE) :
       /\ Outlook(s, p) # NoRoom /\ c.op # "destroyed" =>
            (p \in Outlook(s, p).banned <=> c.op = "ban")
       /\ c.done /\ db # NoRoom =>
            /\ c.op # "destroyed"
            /\ p \in db.banned <=> c.op = "ban"

Agreed(p) ==
  /\ MadeAlone(p)
  /\ OneCall(p, FALSE) /\ InStep(p, FALSE)
  /\ p \notin contested => (OneCall(p, TRUE) /\ InStep(p, TRUE) /\ Apart(p))
  /\ p \notin contested \cup unsaved => Kept(p)

Agreement == TypeOK /\ Phases /\ (~split => \A p \in Player : Agreed(p))

View == Room \cup {NoRoom}

LEMMA SeenTyped ==
  ASSUME NEW room \in View, NEW p \in Player
  PROVE  /\ Seen(room, p) \in View
         /\ Seen(room, p) = NoRoom <=> room = NoRoom
BY RoomsAssumption DEF Seen, View, Room

LEMMA HeardTyped ==
  ASSUME NEW room \in View, NEW p \in Player, NEW m \in Message
  PROVE  Heard(room, p, m) \in View
<1>1. m.player \in Player
  BY DEF Message
<1>2. Seen(NewRoom(m.player, {}, FALSE), p) \in View
  BY <1>1, NewRoomTyped, SeenTyped DEF View
<1>3. CASE m.kind = "created"
  BY <1>2, <1>3 DEF Heard
<1>4. CASE m.kind # "created" /\ (room = NoRoom \/ m.kind = "destroyed")
  BY <1>4 DEF Heard, View
<1>5. CASE m.kind # "created" /\ room # NoRoom /\ m.kind # "destroyed"
  <2>1. room \in Room
    BY <1>5 DEF View
  <2> QED
    BY <1>5, <2>1 DEF Heard, View, Room
<1> QED
  BY <1>3, <1>4, <1>5

\* After is well defined.
LEMMA AfterExists ==
  ASSUME NEW room \in View, NEW p \in Player, NEW q, NEW m \in Nat
  PROVE  \E f : f = [n \in 0 .. m |-> IF n = 0 THEN room ELSE Heard(f[n - 1], p, q[n])]
<1> DEFINE G == {j \in Nat : \E f :
                   f = [n \in 0 .. j |-> IF n = 0 THEN room ELSE Heard(f[n - 1], p, q[n])]}
<1>1. 0 \in G
  <2> DEFINE f == [n \in 0 .. 0 |-> room]
  <2>1. f = [n \in 0 .. 0 |-> IF n = 0 THEN room ELSE Heard(f[n - 1], p, q[n])]
    OBVIOUS
  <2> QED
    BY <2>1
<1>2. ASSUME NEW j \in 0 .. m - 1, j \in G
      PROVE  j + 1 \in G
  <2>1. PICK f : f = [n \in 0 .. j |-> IF n = 0 THEN room ELSE Heard(f[n - 1], p, q[n])]
    BY <1>2
  <2> DEFINE g == [n \in 0 .. j + 1 |-> IF n <= j THEN f[n] ELSE Heard(f[j], p, q[j + 1])]
  <2>2. \A n \in 0 .. j + 1 : g[n] = IF n = 0 THEN room ELSE Heard(g[n - 1], p, q[n])
    <3> TAKE n \in 0 .. j + 1
    <3>1. CASE n = 0
      BY <2>1, <3>1
    <3>2. CASE n \in 1 .. j
      <4>1. g[n] = f[n] /\ n - 1 \in 0 .. j /\ g[n - 1] = f[n - 1]
        BY <3>2
      <4> QED
        BY <2>1, <3>2, <4>1
    <3>3. CASE n = j + 1
      <4>1. g[n] = Heard(f[j], p, q[j + 1]) /\ n - 1 = j /\ g[j] = f[j]
        BY <3>3
      <4> QED
        BY <3>3, <4>1
    <3> QED
      BY <3>1, <3>2, <3>3
  <2>3. g = [n \in 0 .. j + 1 |-> IF n = 0 THEN room ELSE Heard(g[n - 1], p, q[n])]
    BY <2>2
  <2> HIDE DEF g
  <2>4. j + 1 \in Nat
    OBVIOUS
  <2> QED
    BY <2>3, <2>4
<1> HIDE DEF G
<1>3. m \in G
  BY <1>1, <1>2, Upwards
<1> QED
  BY <1>3 DEF G

LEMMA AfterIs ==
  ASSUME NEW room \in View, NEW p \in Player, NEW q \in Seq(Message)
  PROVE  /\ After(room, p, q)[0] = room
         /\ \A n \in 1 .. Len(q) :
              After(room, p, q)[n] = Heard(After(room, p, q)[n - 1], p, q[n])
<1> DEFINE after[n \in 0 .. Len(q)] == IF n = 0 THEN room ELSE Heard(after[n - 1], p, q[n])
<1>1. After(room, p, q) = after
  BY DEF After
<1>2. \E f : f = [n \in 0 .. Len(q) |-> IF n = 0 THEN room ELSE Heard(f[n - 1], p, q[n])]
  <2>1. Len(q) \in Nat
    OBVIOUS
  <2> QED
    BY <2>1, AfterExists
<1>3. after = [n \in 0 .. Len(q) |-> IF n = 0 THEN room ELSE Heard(after[n - 1], p, q[n])]
  BY <1>2
<1> HIDE DEF after
<1> QED
  BY <1>1, <1>3

LEMMA AfterTyped ==
  ASSUME NEW room \in View, NEW p \in Player, NEW q \in Seq(Message)
  PROVE  \A n \in 0 .. Len(q) : After(room, p, q)[n] \in View
<1> DEFINE G == {n \in 0 .. Len(q) : After(room, p, q)[n] \in View}
<1>1. 0 \in G
  BY AfterIs
<1>2. ASSUME NEW n \in 0 .. Len(q) - 1, n \in G
      PROVE  n + 1 \in G
  <2>1. n + 1 \in 1 .. Len(q) /\ n + 1 - 1 = n /\ q[n + 1] \in Message
    OBVIOUS
  <2>2. After(room, p, q)[n + 1] = Heard(After(room, p, q)[n], p, q[n + 1])
    BY <2>1, AfterIs
  <2> QED
    BY <1>2, <2>1, <2>2, HeardTyped
<1> HIDE DEF G
<1>3. \A n \in 0 .. Len(q) : n \in G
  <2>1. Len(q) \in Nat
    OBVIOUS
  <2> QED
    BY <1>1, <1>2, <2>1, Upwards
<1> QED
  BY <1>3 DEF G

LEMMA SettledTyped ==
  ASSUME NEW room \in View, NEW p \in Player, NEW q \in Seq(Message)
  PROVE  Settled(room, p, q) \in View /\ Settled(room, p, <<>>) = room
<1>1. Len(q) \in 0 .. Len(q)
  OBVIOUS
<1>2. <<>> \in Seq(Message) /\ Len(<<>>) = 0
  OBVIOUS
<1>3. Settled(room, p, <<>>) = room
  BY <1>2, AfterIs DEF Settled
<1> QED
  BY <1>1, <1>3, AfterTyped DEF Settled

\* A message that arrives is handled last ...
LEMMA SettledLast ==
  ASSUME NEW room \in View, NEW p \in Player, NEW q \in Seq(Message), NEW m \in Message
  PROVE  Settled(room, p, Append(q, m)) = Heard(Settled(room, p, q), p, m)
<1> DEFINE r == Append(q, m)
           G == {n \in 0 .. Len(q) : After(room, p, r)[n] = After(room, p, q)[n]}
<1>1. /\ r \in Seq(Message) /\ Len(r) = Len(q) + 1 /\ r[Len(q) + 1] = m
      /\ \A n \in 1 .. Len(q) : r[n] = q[n]
      /\ Len(q) \in Nat
  OBVIOUS
<1> HIDE DEF r
<1>2. 0 \in G
  BY <1>1, AfterIs
<1>3. ASSUME NEW n \in 0 .. Len(q) - 1, n \in G
      PROVE  n + 1 \in G
  <2>1. /\ n + 1 \in 1 .. Len(q) /\ n + 1 \in 1 .. Len(r) /\ n + 1 - 1 = n
        /\ q[n + 1] = r[n + 1]
    BY <1>1
  <2>2. /\ After(room, p, r)[n + 1] = Heard(After(room, p, r)[n], p, r[n + 1])
        /\ After(room, p, q)[n + 1] = Heard(After(room, p, q)[n], p, q[n + 1])
    BY <1>1, <2>1, AfterIs
  <2> QED
    BY <1>3, <2>1, <2>2
<1> HIDE DEF G
<1>4. \A n \in 0 .. Len(q) : n \in G
  BY <1>1, <1>2, <1>3, Upwards
<1>5. After(room, p, r)[Len(q)] = After(room, p, q)[Len(q)]
  BY <1>1, <1>4 DEF G
<1>6. After(room, p, r)[Len(q) + 1] = Heard(After(room, p, r)[Len(q)], p, m)
  <2>1. Len(q) + 1 \in 1 .. Len(r) /\ Len(q) + 1 - 1 = Len(q)
    BY <1>1
  <2> QED
    BY <1>1, <2>1, AfterIs
<1> QED
  BY <1>1, <1>5, <1>6 DEF Settled, r

\* ... and the one that is handled next has its effect first.
LEMMA SettledNext ==
  ASSUME NEW room \in View, NEW p \in Player, NEW q \in Seq(Message), q # <<>>
  PROVE  Settled(room, p, q) = Settled(Heard(room, p, Head(q)), p, Tail(q))
<1> DEFINE next == Heard(room, p, Head(q))
           r == Tail(q)
           G == {n \in 0 .. Len(r) : After(next, p, r)[n] = After(room, p, q)[n + 1]}
<1>1. /\ r \in Seq(Message) /\ Len(q) = Len(r) + 1 /\ Len(r) \in Nat /\ q[1] = Head(q)
      /\ \A n \in 1 .. Len(r) : r[n] = q[n + 1]
      /\ Head(q) \in Message
  OBVIOUS
<1>2. next \in View
  BY <1>1, HeardTyped
<1>3. After(room, p, q)[1] = next
  <2>1. 1 \in 1 .. Len(q) /\ 1 - 1 = 0
    BY <1>1
  <2> QED
    BY <1>1, <2>1, AfterIs
<1> HIDE DEF next, r
<1>a. \A k \in 1 .. Len(r) : After(next, p, r)[k] = Heard(After(next, p, r)[k - 1], p, r[k])
  BY <1>1, <1>2, AfterIs
<1>b. \A k \in 1 .. Len(q) : After(room, p, q)[k] = Heard(After(room, p, q)[k - 1], p, q[k])
  BY AfterIs
<1>4. 0 \in G
  BY <1>1, <1>2, <1>3, AfterIs
<1>5. ASSUME NEW n \in 0 .. Len(r) - 1, n \in G
      PROVE  n + 1 \in G
  <2>1. /\ n + 1 \in 1 .. Len(r) /\ n + 1 - 1 = n /\ n + 1 \in 0 .. Len(r)
        /\ n + 1 + 1 \in 1 .. Len(q) /\ n + 1 + 1 - 1 = n + 1
        /\ r[n + 1] = q[n + 1 + 1]
    BY <1>1
  <2>2. After(next, p, r)[n + 1] = Heard(After(next, p, r)[n], p, r[n + 1])
    BY <1>a, <2>1
  <2>3. After(room, p, q)[n + 1 + 1] = Heard(After(room, p, q)[n + 1], p, q[n + 1 + 1])
    BY <1>b, <2>1
  <2> QED
    BY <1>5, <2>1, <2>2, <2>3
<1> HIDE DEF G
<1>6. \A n \in 0 .. Len(r) : n \in G
  BY <1>1, <1>4, <1>5, Upwards
<1>7. After(next, p, r)[Len(r)] = After(room, p, q)[Len(r) + 1]
  BY <1>1, <1>6 DEF G
<1> QED
  BY <1>1, <1>7 DEF Settled, next, r

\* What a handler makes of the whole room.
Changed(room, m) ==
  IF m.kind = "created"
  THEN IF room = NoRoom THEN NewRoom(m.player, {}, FALSE) ELSE room
  ELSE IF room = NoRoom \/ m.kind = "destroyed" THEN NoRoom
  ELSE [room EXCEPT
          !.members = IF m.kind = "join" THEN @ \cup {m.player}
                      ELSE IF m.kind = "unban" THEN @ ELSE @ \ {m.player},
          !.banned  = IF m.kind = "ban" THEN @ \cup {m.player}
                      ELSE IF m.kind = "unban" THEN @ \ {m.player} ELSE @]

LEMMA SeenChanged ==
  ASSUME NEW room \in View, NEW p \in Player, NEW m \in Message
  PROVE  Seen(Changed(room, m), p) = Heard(Seen(room, p), p, m)
<1>1. m.player \in Player
  BY DEF Message
<1>2. NewRoom(m.player, {}, FALSE) \in Room
  BY <1>1, NewRoomTyped
<1>3. CASE m.kind = "created"
  BY <1>2, <1>3, SeenTyped DEF Changed, Heard, View
<1>4. CASE m.kind # "created" /\ (room = NoRoom \/ m.kind = "destroyed")
  BY <1>4 DEF Changed, Heard, Seen
<1>5. CASE m.kind # "created" /\ room # NoRoom /\ m.kind # "destroyed"
  <2>1. room \in Room
    BY <1>5 DEF View
  <2> DEFINE who == {p} \cap {m.player}
             v == Seen(room, p)
             c == Changed(room, m)
  <2>2. /\ v = [owner |-> room.owner, moderators |-> {}, members |-> room.members \cap {p},
                banned |-> room.banned \cap {p}, persistent |-> room.persistent]
        /\ v # NoRoom
    BY <1>5, SeenTyped DEF Seen, View
  <2>3. Heard(v, p, m) =
          [owner |-> room.owner, moderators |-> {},
           members |-> IF m.kind = "join" THEN (room.members \cap {p}) \cup who
                       ELSE IF m.kind = "unban" THEN room.members \cap {p}
                       ELSE (room.members \cap {p}) \ who,
           banned |-> IF m.kind = "ban" THEN (room.banned \cap {p}) \cup who
                      ELSE IF m.kind = "unban" THEN (room.banned \cap {p}) \ who
                      ELSE room.banned \cap {p},
           persistent |-> room.persistent]
    <3> HIDE DEF v
    <3> QED
      BY <1>5, <2>2 DEF Heard
  <2>4. /\ c \in Room
        /\ c.owner = room.owner /\ c.persistent = room.persistent
        /\ c.members = IF m.kind = "join" THEN room.members \cup {m.player}
                       ELSE IF m.kind = "unban" THEN room.members
                       ELSE room.members \ {m.player}
        /\ c.banned = IF m.kind = "ban" THEN room.banned \cup {m.player}
                      ELSE IF m.kind = "unban" THEN room.banned \ {m.player}
                      ELSE room.banned
    BY <1>1, <1>5, <2>1 DEF Changed, Room
  <2> HIDE DEF c, v
  <2>5. Seen(c, p) =
          [owner |-> room.owner, moderators |-> {}, members |-> c.members \cap {p},
           banned |-> c.banned \cap {p}, persistent |-> room.persistent]
    BY <2>4, RoomsAssumption DEF Seen
  <2>6. c.members \cap {p} = IF m.kind = "join" THEN (room.members \cap {p}) \cup who
                       ELSE IF m.kind = "unban" THEN room.members \cap {p}
                       ELSE (room.members \cap {p}) \ who
    BY <2>4
  <2>7. c.banned \cap {p} = IF m.kind = "ban" THEN (room.banned \cap {p}) \cup who
                      ELSE IF m.kind = "unban" THEN (room.banned \cap {p}) \ who
                      ELSE room.banned \cap {p}
    BY <2>4
  <2> HIDE DEF who
  <2>8. Seen(c, p) = Heard(v, p, m)
    BY <2>3, <2>5, <2>6, <2>7
  <2> QED
    BY <2>8 DEF c, v
<1> QED
  BY <1>3, <1>4, <1>5

\* A message about another player says nothing about p.
LEMMA HeardOther ==
  ASSUME NEW room \in View, NEW p \in Player, NEW m \in Message,
         m.kind \notin RoomWide, m.player # p
  PROVE  Heard(room, p, m) = room
<1>1. CASE room = NoRoom
  BY <1>1 DEF Heard, RoomWide
<1>2. CASE room # NoRoom
  <2>1. room \in Room /\ {p} \cap {m.player} = {}
    BY <1>2 DEF View
  <2> QED
    BY <1>2, <2>1 DEF Heard, RoomWide, Room
<1> QED
  BY <1>1, <1>2

\* The same room, if any.
Alike(v, w) ==
  /\ w = NoRoom <=> v = NoRoom
  /\ v # NoRoom => w.owner = v.owner /\ w.persistent = v.persistent

LEMMA HeardAlike ==
  ASSUME NEW room \in View, NEW p \in Player, NEW m \in Message, m.kind \notin RoomWide
  PROVE  Alike(room, Heard(room, p, m))
<1>1. CASE room = NoRoom
  BY <1>1 DEF Heard, RoomWide, Alike
<1>2. CASE room # NoRoom
  <2>1. room \in Room
    BY <1>2 DEF View
  <2>2. Heard(room, p, m) \in View
    BY HeardTyped
  <2>3. Heard(room, p, m) \in Room
    BY <1>2, <2>1 DEF Heard, RoomWide, Room
  <2> QED
    BY <1>2, <2>1, <2>3, RoomsAssumption DEF Heard, RoomWide, Room, Alike
<1> QED
  BY <1>1, <1>2

LEMMA SettledAlike ==
  ASSUME NEW room \in View, NEW p \in Player, NEW q \in Seq(Message),
         \A m \in Range(q) : m.kind \notin RoomWide
  PROVE  /\ Alike(room, Settled(room, p, q))
         /\ (\A m \in Range(q) : m.player # p) => Settled(room, p, q) = room
<1> DEFINE after == After(room, p, q)
           G == {n \in 0 .. Len(q) :
                   /\ Alike(room, after[n])
                   /\ (\A m \in Range(q) : m.player # p) => after[n] = room}
<1>1. /\ Len(q) \in Nat
      /\ \A n \in 1 .. Len(q) : q[n] \in Message /\ q[n] \in Range(q)
  BY DEF Range
<1>2. 0 \in G
  BY <1>1, AfterIs DEF Alike
<1>3. ASSUME NEW n \in 0 .. Len(q) - 1, n \in G
      PROVE  n + 1 \in G
  <2>1. n + 1 \in 1 .. Len(q) /\ n + 1 - 1 = n /\ n + 1 \in 0 .. Len(q)
    OBVIOUS
  <2>2. PICK v \in View : v = after[n]
    BY AfterTyped
  <2>3. PICK m \in Message : m = q[n + 1]
    BY <1>1, <2>1
  <2>4. after[n + 1] = Heard(v, p, m)
    BY <2>1, <2>2, <2>3, AfterIs
  <2>5. m.kind \notin RoomWide /\ m \in Range(q)
    BY <1>1, <2>1, <2>3
  <2>6. Alike(v, after[n + 1])
    BY <2>4, <2>5, HeardAlike
  <2>7. Alike(room, v) /\ ((\A x \in Range(q) : x.player # p) => v = room)
    BY <1>3, <2>2
  <2>8. Alike(room, after[n + 1])
    BY <2>6, <2>7 DEF Alike
  <2>9. (\A x \in Range(q) : x.player # p) => after[n + 1] = room
    BY <2>4, <2>5, <2>7, HeardOther
  <2> QED
    BY <2>1, <2>8, <2>9
<1> HIDE DEF G
<1>4. \A n \in 0 .. Len(q) : n \in G
  BY <1>1, <1>2, <1>3, Upwards
<1> QED
  BY <1>1, <1>4 DEF G, Settled

LEMMA HeardOfAlike ==
  ASSUME NEW v \in View, NEW w \in View, Alike(v, w), NEW p \in Player, NEW m \in Message
  PROVE  Alike(Heard(v, p, m), Heard(w, p, m))
<1>1. CASE m.kind = "created"
  BY <1>1 DEF Heard, Alike
<1>2. CASE m.kind # "created" /\ (v = NoRoom \/ m.kind = "destroyed")
  BY <1>2 DEF Heard, Alike
<1>3. CASE m.kind # "created" /\ v # NoRoom /\ m.kind # "destroyed"
  <2>1. m.kind \notin RoomWide
    BY <1>3 DEF RoomWide
  <2>2. Alike(v, Heard(v, p, m)) /\ Alike(w, Heard(w, p, m))
    BY <2>1, HeardAlike
  <2> QED
    BY <1>3, <2>2 DEF Alike
<1> QED
  BY <1>1, <1>2, <1>3

LEMMA SettledOfAlike ==
  ASSUME NEW v \in View, NEW w \in View, Alike(v, w), NEW p \in Player, NEW q \in Seq(Message)
  PROVE  Alike(Settled(v, p, q), Settled(w, p, q))
<1> DEFINE G == {n \in 0 .. Len(q) : Alike(After(v, p, q)[n], After(w, p, q)[n])}
<1>1. /\ Len(q) \in Nat
      /\ \A n \in 1 .. Len(q) : q[n] \in Message
  OBVIOUS
<1>2. 0 \in G
  BY <1>1, AfterIs
<1>3. ASSUME NEW n \in 0 .. Len(q) - 1, n \in G
      PROVE  n + 1 \in G
  <2>1. n + 1 \in 1 .. Len(q) /\ n + 1 - 1 = n /\ n + 1 \in 0 .. Len(q)
    OBVIOUS
  <2>2. PICK a \in View : a = After(v, p, q)[n]
    BY AfterTyped
  <2>3. PICK b \in View : b = After(w, p, q)[n]
    BY AfterTyped
  <2>4. PICK m \in Message : m = q[n + 1]
    BY <1>1, <2>1
  <2>5. After(v, p, q)[n + 1] = Heard(a, p, m)
    BY <2>1, <2>2, <2>4, AfterIs
  <2>6. After(w, p, q)[n + 1] = Heard(b, p, m)
    BY <2>1, <2>3, <2>4, AfterIs
  <2>7. Alike(a, b)
    BY <1>3, <2>2, <2>3
  <2> QED
    BY <2>1, <2>5, <2>6, <2>7, HeardOfAlike
<1> HIDE DEF G
<1>4. \A n \in 0 .. Len(q) : n \in G
  BY <1>1, <1>2, <1>3, Upwards
<1> QED
  BY <1>1, <1>4 DEF G, Settled

-----------------------------------------------------------------------------
(* What the steps do to the outlook of a server. *)

LEMMA CopyTyped ==
  ASSUME TypeOK, NEW s \in Server
  PROVE  rooms[s] \in View /\ inbox[s] \in Seq(Message) /\ calls[s] \in Seq(Call)
BY Typed DEF Copies, Inboxes, CallLists, View

LEMMA OutlookTyped ==
  ASSUME TypeOK, NEW s \in Server, NEW p \in Player
  PROVE  Outlook(s, p) \in View
<1>1. Seen(rooms[s], p) \in View /\ inbox[s] \in Seq(Message)
  BY CopyTyped, SeenTyped
<1> QED
  BY <1>1, SettledTyped DEF Outlook

\* A server that handles a message has foreseen it.
LEMMA HandledForeseen ==
  ASSUME TypeOK, NEW s \in Server, RemoteStep(s), NEW p \in Player, NEW t \in Server
  PROVE  Outlook(t, p)' = Outlook(t, p)
<1> DEFINE m == Head(inbox[s])
<1>1. rooms \in Copies /\ inbox \in Inboxes /\ inbox[s] \in Seq(Message)
  BY Typed, CopyTyped
<1>2. /\ inbox[s] # <<>>
      /\ inbox' = [inbox EXCEPT ![s] = Tail(@)]
  BY DEF RemoteStep, RemoteUnknown, RemoteCreated, RemoteDestroyed, RemoteJoin,
         RemoteLeave, RemoteKick, RemoteBan, RemoteUnban, Arrival, Handled
<1>3. m \in Message /\ Tail(inbox[s]) \in Seq(Message) /\ From(s) = m.player
  BY <1>1, <1>2, Shortened DEF From
<1>4. rooms[s] \in View
  BY CopyTyped
<1>5. rooms' = [rooms EXCEPT ![s] = Changed(rooms[s], m)]
  <2>1. CASE RemoteUnknown(s)
    <3>1. rooms' = rooms /\ Changed(rooms[s], m) = rooms[s]
      BY <2>1 DEF RemoteUnknown, copies, Changed, Here
    <3> QED
      BY <1>1, <3>1 DEF Copies
  <2>2. CASE RemoteCreated(s)
    <3>1. /\ Changed(rooms[s], m) = IF Here(s) THEN rooms[s] ELSE NewRoom(From(s), {}, FALSE)
          /\ rooms' = [rooms EXCEPT ![s] = IF Here(s) THEN @ ELSE NewRoom(From(s), {}, FALSE)]
      BY <1>3, <2>2 DEF RemoteCreated, Arrival, Changed, Here
    <3> QED
      BY <3>1
  <2>3. CASE RemoteDestroyed(s)
    <3>1. /\ Changed(rooms[s], m) = NoRoom
          /\ rooms' = [rooms EXCEPT ![s] = NoRoom]
      BY <1>3, <2>3 DEF RemoteDestroyed, Arrival, Changed, Here, Forget
    <3> QED
      BY <3>1
  <2>4. CASE RemoteJoin(s) \/ RemoteLeave(s) \/ RemoteKick(s) \/ RemoteBan(s) \/ RemoteUnban(s)
    <3>1. Here(s) /\ m.kind \in {"join", "leave", "kick", "ban", "unban"}
      BY <2>4 DEF RemoteJoin, RemoteLeave, RemoteKick, RemoteBan, RemoteUnban, Arrival
    <3>2. rooms[s] \in Room
      BY <1>4, <3>1 DEF View, Here
    <3>3. Changed(rooms[s], m) =
            IF m.kind = "join" THEN [rooms[s] EXCEPT !.members = @ \cup {From(s)}]
            ELSE IF m.kind = "unban" THEN [rooms[s] EXCEPT !.banned = @ \ {From(s)}]
            ELSE IF m.kind = "ban"
                 THEN [rooms[s] EXCEPT !.banned = @ \cup {From(s)}, !.members = @ \ {From(s)}]
            ELSE [rooms[s] EXCEPT !.members = @ \ {From(s)}]
      BY <1>3, <3>1, <3>2 DEF Changed, Here, Room
    <3>4. rooms' = [rooms EXCEPT ![s] = 
            IF m.kind = "join" THEN [rooms[s] EXCEPT !.members = @ \cup {From(s)}]
            ELSE IF m.kind = "unban" THEN [rooms[s] EXCEPT !.banned = @ \ {From(s)}]
            ELSE IF m.kind = "ban"
                 THEN [rooms[s] EXCEPT !.banned = @ \cup {From(s)}, !.members = @ \ {From(s)}]
            ELSE [rooms[s] EXCEPT !.members = @ \ {From(s)}]]
      BY <1>1, <2>4, <3>2 DEF RemoteJoin, RemoteLeave, RemoteKick, RemoteBan, RemoteUnban, Arrival
    <3> QED
      BY <3>3, <3>4
  <2> QED
    BY <2>1, <2>2, <2>3, <2>4 DEF RemoteStep
<1>6. CASE t = s
  <2>1. /\ rooms'[s] = Changed(rooms[s], m) /\ inbox'[s] = Tail(inbox[s])
    BY <1>1, <1>2, <1>5 DEF Copies, Inboxes
  <2>2. Seen(rooms[s], p) \in View
    BY <1>4, SeenTyped
  <2>3. Seen(Changed(rooms[s], m), p) = Heard(Seen(rooms[s], p), p, m)
    BY <1>3, <1>4, SeenChanged
  <2> QED
    BY <1>1, <1>2, <1>6, <2>1, <2>2, <2>3, SettledNext DEF Outlook
<1>7. CASE t # s
  <2>1. rooms'[t] = rooms[t] /\ inbox'[t] = inbox[t]
    BY <1>1, <1>2, <1>5, <1>7 DEF Copies, Inboxes
  <2> QED
    BY <2>1 DEF Outlook
<1> QED
  BY <1>6, <1>7

MemberKinds == {"join", "leave", "kick", "ban", "unban"}

\* A server that asks the database for what m tells.
Asks(s, m) ==
  /\ calls' = [calls EXCEPT ![s] = Append(@, [op |-> m.kind, player |-> m.player, done |-> FALSE])]
  /\ inbox' = inbox

Tells(s, m) == Publish(s, m.kind, m.player) /\ calls' = calls

\* An operation on a player is what the others make of the message of it.
MemberChange(s, m) ==
  /\ m.kind \in MemberKinds
  /\ Here(s) /\ phase[s] = "up"
  /\ rooms' = [rooms EXCEPT ![s] = Changed(rooms[s], m)]
  /\ \/ Tells(s, m) /\ (m.kind \in {"ban", "unban"} => ~rooms[s].persistent)
     \/ Asks(s, m) /\ m.kind \in {"ban", "unban"}
  /\ m.kind = "join" => m.player \notin rooms[s].banned
  /\ m.kind = "unban" => m.player \in rooms[s].banned
  /\ phase' = phase /\ db' = db

LEMMA AnnounceTells ==
  ASSUME NEW s \in Server, NEW m \in Message, m.kind \in {"ban", "unban"},
         Announce(s, m.kind, m.player)
  PROVE  \/ Tells(s, m) /\ ~rooms[s].persistent
         \/ Asks(s, m)
BY DEF Announce, Tells, Asks

LEMMA MemberStepChanges ==
  ASSUME TypeOK, NEW s \in Server, NEW p \in Player, MemberStep(s, p)
  PROVE  \E m \in Message : m.player = p /\ MemberChange(s, m)
<1>1. rooms \in Copies /\ rooms[s] \in View /\ phase[s] = "up"
  BY Typed, CopyTyped DEF MemberStep, Operation
<1>2. ASSUME JoinRoom(s, p) PROVE \E m \in Message : m.player = p /\ MemberChange(s, m)
  <2> DEFINE m == [kind |-> "join", player |-> p]
  <2>1. m \in Message /\ m.kind = "join" /\ m.player = p
    BY DEF Message
  <2> HIDE DEF m
  <2>2. Here(s) /\ rooms[s] \in Room
    BY <1>1, <1>2 DEF JoinRoom, Here, View
  <2>3. Changed(rooms[s], m) = [rooms[s] EXCEPT !.members = @ \cup {p}]
    BY <2>1, <2>2 DEF Changed, Here, Room
  <2>4. rooms' = [rooms EXCEPT ![s] = Changed(rooms[s], m)]
    BY <1>2, <2>3 DEF JoinRoom
  <2>5. Tells(s, m)
    BY <1>2, <2>1 DEF JoinRoom, Tells
  <2>6. MemberChange(s, m)
    BY <1>1, <1>2, <2>1, <2>2, <2>4, <2>5 DEF MemberChange, MemberKinds, JoinRoom, Rest
  <2> QED
    BY <2>1, <2>6
<1>3. ASSUME LeaveRoom(s, p) PROVE \E m \in Message : m.player = p /\ MemberChange(s, m)
  <2> DEFINE m == [kind |-> "leave", player |-> p]
  <2>1. m \in Message /\ m.kind = "leave" /\ m.player = p
    BY DEF Message
  <2> HIDE DEF m
  <2>2. Here(s) /\ rooms[s] \in Room
    BY <1>1, <1>3 DEF LeaveRoom, Here, View
  <2>3. Changed(rooms[s], m) = [rooms[s] EXCEPT !.members = @ \ {p}]
    BY <2>1, <2>2 DEF Changed, Here, Room
  <2>4. rooms' = [rooms EXCEPT ![s] = Changed(rooms[s], m)]
    BY <1>3, <2>3 DEF LeaveRoom
  <2>5. Tells(s, m)
    BY <1>3, <2>1 DEF LeaveRoom, Tells
  <2>6. MemberChange(s, m)
    BY <1>1, <1>3, <2>1, <2>2, <2>4, <2>5 DEF MemberChange, MemberKinds, LeaveRoom, Rest
  <2> QED
    BY <2>1, <2>6
<1>4. ASSUME NEW actor \in Player, KickUser(s, actor, p)
      PROVE  \E m \in Message : m.player = p /\ MemberChange(s, m)
  <2> DEFINE m == [kind |-> "kick", player |-> p]
  <2>1. m \in Message /\ m.kind = "kick" /\ m.player = p
    BY DEF Message
  <2> HIDE DEF m
  <2>2. Here(s) /\ rooms[s] \in Room
    BY <1>1, <1>4 DEF KickUser, MayRemove, canModerate, Here, View
  <2>3. Changed(rooms[s], m) = [rooms[s] EXCEPT !.members = @ \ {p}]
    BY <2>1, <2>2 DEF Changed, Here, Room
  <2>4. rooms' = [rooms EXCEPT ![s] = Changed(rooms[s], m)]
    BY <1>4, <2>3 DEF KickUser
  <2>5. Tells(s, m)
    BY <1>4, <2>1 DEF KickUser, Tells
  <2>6. MemberChange(s, m)
    BY <1>1, <1>4, <2>1, <2>2, <2>4, <2>5 DEF MemberChange, MemberKinds, KickUser, Rest
  <2> QED
    BY <2>1, <2>6
<1>5. ASSUME NEW actor \in Player, BanUser(s, actor, p)
      PROVE  \E m \in Message : m.player = p /\ MemberChange(s, m)
  <2> DEFINE m == [kind |-> "ban", player |-> p]
  <2>1. m \in Message /\ m.kind = "ban" /\ m.player = p
    BY DEF Message
  <2> HIDE DEF m
  <2>2. Here(s) /\ rooms[s] \in Room
    BY <1>1, <1>5 DEF BanUser, MayRemove, canModerate, Here, View
  <2>3. Changed(rooms[s], m) = [rooms[s] EXCEPT !.banned = @ \cup {p}, !.members = @ \ {p}]
    BY <2>1, <2>2 DEF Changed, Here, Room
  <2>4. rooms' = [rooms EXCEPT ![s] = Changed(rooms[s], m)]
    BY <1>1, <1>5, <2>2, <2>3 DEF BanUser, Copies
  <2>5. Announce(s, m.kind, m.player)
    BY <1>5, <2>1 DEF BanUser
  <2>6. MemberChange(s, m)
    BY <1>1, <1>5, <2>1, <2>2, <2>4, <2>5, AnnounceTells DEF MemberChange, MemberKinds, BanUser, Rest
  <2> QED
    BY <2>1, <2>6
<1>6. ASSUME NEW actor \in Player, UnbanUser(s, actor, p)
      PROVE  \E m \in Message : m.player = p /\ MemberChange(s, m)
  <2> DEFINE m == [kind |-> "unban", player |-> p]
  <2>1. m \in Message /\ m.kind = "unban" /\ m.player = p
    BY DEF Message
  <2> HIDE DEF m
  <2>2. Here(s) /\ rooms[s] \in Room
    BY <1>1, <1>6 DEF UnbanUser, canModerate, Here, View
  <2>3. Changed(rooms[s], m) = [rooms[s] EXCEPT !.banned = @ \ {p}]
    BY <2>1, <2>2 DEF Changed, Here, Room
  <2>4. rooms' = [rooms EXCEPT ![s] = Changed(rooms[s], m)]
    BY <1>6, <2>3 DEF UnbanUser
  <2>5. Announce(s, m.kind, m.player)
    BY <1>6, <2>1 DEF UnbanUser
  <2>6. MemberChange(s, m)
    BY <1>1, <1>6, <2>1, <2>2, <2>4, <2>5, AnnounceTells DEF MemberChange, MemberKinds, UnbanUser, Rest
  <2> QED
    BY <2>1, <2>6
<1> QED
  BY <1>2, <1>3, <1>4, <1>5, <1>6 DEF MemberStep, Operation

\* A server that is down has no outlook.
LEMMA DownOutlook ==
  ASSUME TypeOK, Phases, NEW t \in Server, phase[t] = "down", NEW p \in Player
  PROVE  Outlook(t, p) = NoRoom
<1>1. rooms[t] = NoRoom /\ inbox[t] = <<>>
  BY DEF Phases
<1>2. NoRoom \in View /\ Seen(rooms[t], p) = NoRoom /\ <<>> \in Seq(Message)
  BY <1>1 DEF View, Seen
<1> QED
  BY <1>1, <1>2, SettledTyped DEF Outlook

\* What another server makes of what a server tells it.
LEMMA TellsOthers ==
  ASSUME TypeOK, Phases, NEW s \in Server, NEW m \in Message,
         Publish(s, m.kind, m.player), NEW t \in Server \ {s}, rooms'[t] = rooms[t], NEW p \in Player
  PROVE  \/ Outlook(t, p)' = Heard(Outlook(t, p), p, m)
         \/ phase[t] = "down" /\ Outlook(t, p)' = NoRoom /\ Outlook(t, p) = NoRoom
<1>1. /\ Seen(rooms[t], p) \in View /\ inbox[t] \in Seq(Message)
  BY CopyTyped, SeenTyped
<1>2. [kind |-> m.kind, player |-> m.player] = m
  BY DEF Message
<1>3. CASE phase[t] = "down"
  <2>1. inbox'[t] = inbox[t]
    BY <1>3 DEF Publish
  <2> QED
    BY <1>3, <2>1, DownOutlook DEF Outlook
<1>4. CASE phase[t] # "down"
  <2>1. inbox'[t] = Append(inbox[t], m)
    BY <1>2, <1>4 DEF Publish
  <2> QED
    BY <1>1, <2>1, SettledLast DEF Outlook
<1> QED
  BY <1>3, <1>4

\* Operations on a player do not change what is seen of the others ...
LEMMA MemberOthers ==
  ASSUME TypeOK, Phases, NEW s \in Server, NEW m \in Message, MemberChange(s, m),
         NEW p \in Player, p # m.player, NEW t \in Server
  PROVE  Outlook(t, p)' = Outlook(t, p)
<1>1. m.kind \notin RoomWide /\ rooms \in Copies /\ rooms[s] \in View
  BY Typed, CopyTyped DEF MemberChange, MemberKinds, RoomWide
<1>2. CASE t = s
  <2>1. rooms'[s] = Changed(rooms[s], m)
    BY <1>1 DEF MemberChange, Copies
  <2>2. Seen(rooms[s], p) \in View
    BY <1>1, SeenTyped
  <2>3. Seen(rooms'[s], p) = Seen(rooms[s], p)
    BY <1>1, <2>1, <2>2, SeenChanged, HeardOther
  <2>4. inbox'[s] = inbox[s]
    BY DEF MemberChange, Tells, Asks, Publish
  <2> QED
    BY <1>2, <2>3, <2>4 DEF Outlook
<1>3. CASE t # s
  <2>1. rooms'[t] = rooms[t] /\ t \in Server \ {s}
    BY <1>1, <1>3 DEF MemberChange, Copies
  <2>2. CASE Tells(s, m)
    <3>1. Outlook(t, p) \in View
      BY OutlookTyped
    <3>2. Heard(Outlook(t, p), p, m) = Outlook(t, p)
      BY <1>1, <3>1, HeardOther
    <3> QED
      BY <2>1, <2>2, <3>2, TellsOthers DEF Tells
  <2>3. CASE Asks(s, m)
    BY <2>1, <2>3 DEF Outlook, Asks
  <2> QED
    BY <2>2, <2>3 DEF MemberChange
<1> QED
  BY <1>2, <1>3

\* ... nor whose the room is and whether it is kept.
LEMMA MemberAlike ==
  ASSUME TypeOK, Phases, NEW s \in Server, NEW m \in Message, MemberChange(s, m),
         NEW p \in Player, NEW t \in Server
  PROVE  Alike(Outlook(t, p), Outlook(t, p)')
<1>1. m.kind \notin RoomWide /\ rooms \in Copies /\ rooms[s] \in View
  BY Typed, CopyTyped DEF MemberChange, MemberKinds, RoomWide
<1>2. CASE t = s
  <2> DEFINE v == Seen(rooms[s], p)
             w == Heard(v, p, m)
  <2>1. rooms'[s] = Changed(rooms[s], m)
    BY <1>1 DEF MemberChange, Copies
  <2>2. v \in View /\ inbox[s] \in Seq(Message)
    BY <1>1, SeenTyped, CopyTyped
  <2>3. Seen(rooms'[s], p) = w
    BY <1>1, <2>1, SeenChanged
  <2>4. inbox'[s] = inbox[s]
    BY DEF MemberChange, Tells, Asks, Publish
  <2>5. Outlook(s, p) = Settled(v, p, inbox[s]) /\ Outlook(s, p)' = Settled(w, p, inbox[s])
    BY <2>3, <2>4 DEF Outlook
  <2> HIDE DEF v
  <2>6. w \in View /\ Alike(v, w)
    BY <1>1, <2>2, HeardTyped, HeardAlike
  <2> HIDE DEF w
  <2> QED
    BY <1>2, <2>2, <2>5, <2>6, SettledOfAlike
<1>3. CASE t # s
  <2>1. rooms'[t] = rooms[t] /\ t \in Server \ {s}
    BY <1>1, <1>3 DEF MemberChange, Copies
  <2>2. CASE Tells(s, m)
    <3>1. Outlook(t, p) \in View
      BY OutlookTyped
    <3>2. Alike(Outlook(t, p), Heard(Outlook(t, p), p, m))
      BY <1>1, <3>1, HeardAlike
    <3>3. Outlook(t, p)' = Heard(Outlook(t, p), p, m) \/ Outlook(t, p)' = Outlook(t, p)
      BY <2>1, <2>2, TellsOthers DEF Tells
    <3> QED
      BY <3>2, <3>3 DEF Alike
  <2>3. CASE Asks(s, m)
    BY <2>1, <2>3 DEF Outlook, Asks, Alike
  <2> QED
    BY <2>2, <2>3 DEF MemberChange
<1> QED
  BY <1>2, <1>3

\* Nothing is under way about a player of whom a server has no news.
LEMMA Unraced ==
  ASSUME TypeOK, NEW s \in Server, NEW p \in Player, p \notin About(Unheard(s))
  PROVE  /\ \A t \in Server, full \in BOOLEAN : Due(t, p, full) = {}
         /\ \A m \in Range(inbox[s]) : m.kind \notin RoomWide /\ m.player # p
<1> DEFINE news == Unheard(s)
<1>1. /\ \A n \in news : n[1] \notin RoomWide
      /\ p \notin {n[2] : n \in news}
  BY DEF About
<1>2. ASSUME NEW m \in Range(inbox[s])
      PROVE  m.kind \notin RoomWide /\ m.player # p
  <2>1. <<m.kind, m.player>> \in news
    BY DEF Unheard
  <2> QED
    BY <1>1, <2>1
<1>3. ASSUME NEW t \in Server, NEW c \in Range(calls[t])
      PROVE  c.op \notin RoomWide /\ c.player # p
  <2>1. c \in UNION {Range(calls[u]) : u \in Server}
    BY <1>3
  <2>2. <<c.op, c.player>> \in news
    BY <2>1 DEF Unheard
  <2> QED
    BY <1>1, <2>2
<1> QED
  BY <1>2, <1>3 DEF Due, Matters

\* What becomes of the copy of a server that operates on such a player.
LEMMA MemberOwn ==
  ASSUME TypeOK, NEW s \in Server, NEW m \in Message, MemberChange(s, m),
         m.player \in Player, m.player \notin About(Unheard(s))
  PROVE  /\ Outlook(s, m.player) = Seen(rooms[s], m.player)
         /\ Outlook(s, m.player)' = Heard(Outlook(s, m.player), m.player, m)
<1> DEFINE p == m.player
           v == Seen(rooms[s], p)
           w == Heard(v, p, m)
<1>1. rooms \in Copies /\ rooms[s] \in View /\ p \in Player
  BY Typed, CopyTyped
<1>2. v \in View /\ inbox[s] \in Seq(Message)
  BY <1>1, SeenTyped, CopyTyped
<1>3. \A x \in Range(inbox[s]) : x.kind \notin RoomWide /\ x.player # p
  BY Unraced
<1>4. rooms'[s] = Changed(rooms[s], m) /\ inbox'[s] = inbox[s]
  BY <1>1 DEF MemberChange, Copies, Tells, Asks, Publish
<1>5. Seen(rooms'[s], p) = w
  BY <1>1, <1>4, SeenChanged
<1>6. w \in View
  BY <1>2, HeardTyped
<1> HIDE DEF v, w
<1>7. Settled(v, p, inbox[s]) = v /\ Settled(w, p, inbox[s]) = w
  BY <1>1, <1>2, <1>3, <1>6, SettledAlike
<1>8. Outlook(s, p) = v
  BY <1>7 DEF Outlook, v
<1>9. Outlook(s, p)' = w
  BY <1>4, <1>5, <1>7 DEF Outlook
<1> QED
  BY <1>8, <1>9 DEF v, w

-----------------------------------------------------------------------------
(* What the steps do to the calls under way. *)

LEMMA DueTyped ==
  ASSUME TypeOK, NEW s \in Server, NEW p \in Player, NEW full \in BOOLEAN, NEW c \in Due(s, p, full)
  PROVE  /\ c \in Range(calls[s]) /\ c \in Call
         /\ News(c) \in Message /\ News(c).kind = c.op /\ News(c).player = c.player
         /\ c.op \in {"created", "destroyed", "ban", "unban"}
<1>1. c \in Range(calls[s]) /\ Matters(c, p, full) /\ calls[s] \in Seq(Call)
  BY CopyTyped DEF Due
<1>2. c \in Call
  BY <1>1 DEF Range
<1>3. c.op \in {"created", "destroyed", "ban", "unban"} /\ c.player \in Player
  BY <1>1, <1>2 DEF Call, Matters, RoomWide
<1>4. News(c) \in Message
  BY <1>3 DEF News, Message
<1> QED
  BY <1>1, <1>2, <1>3, <1>4 DEF News

\* In full, more calls matter.
LEMMA DueInFull ==
  ASSUME NEW s \in Server, NEW p \in Player
  PROVE  /\ Due(s, p, FALSE) \subseteq Due(s, p, TRUE)
         /\ \A c \in Due(s, p, TRUE) : c.op \in RoomWide => c \in Due(s, p, FALSE)
BY DEF Due, Matters

Adds(s, c) == calls' = [calls EXCEPT ![s] = Append(@, c)]

LEMMA CallAsked ==
  ASSUME TypeOK, NEW s \in Server, NEW c \in Call, Adds(s, c),
         NEW t \in Server
  PROVE  Range(calls'[t]) = IF t = s THEN Range(calls[s]) \cup {c} ELSE Range(calls[t])
<1>1. calls \in [Server -> Seq(Call)] /\ calls[s] \in Seq(Call)
  BY Typed DEF CallLists
<1>2. calls'[t] = IF t = s THEN Append(calls[s], c) ELSE calls[t]
  BY <1>1 DEF Adds
<1>3. Range(Append(calls[s], c)) = Range(calls[s]) \cup {c}
  <2>1. /\ DOMAIN Append(calls[s], c) = 1 .. Len(calls[s]) + 1
        /\ DOMAIN calls[s] = 1 .. Len(calls[s]) /\ Len(calls[s]) \in Nat
        /\ Append(calls[s], c)[Len(calls[s]) + 1] = c
        /\ \A k \in 1 .. Len(calls[s]) : Append(calls[s], c)[k] = calls[s][k]
    BY <1>1
  <2>2. ASSUME NEW x \in Range(Append(calls[s], c)) PROVE x \in Range(calls[s]) \cup {c}
    <3>1. PICK k \in 1 .. Len(calls[s]) + 1 : x = Append(calls[s], c)[k]
      BY <2>1 DEF Range
    <3>2. CASE k \in 1 .. Len(calls[s])
      BY <2>1, <3>1, <3>2 DEF Range
    <3>3. CASE k = Len(calls[s]) + 1
      BY <2>1, <3>1, <3>3
    <3> QED
      BY <2>1, <3>2, <3>3
  <2>3. ASSUME NEW x \in Range(calls[s]) \cup {c} PROVE x \in Range(Append(calls[s], c))
    <3>1. CASE x = c
      <4>1. Len(calls[s]) + 1 \in 1 .. Len(calls[s]) + 1
        BY <2>1
      <4> QED
        BY <2>1, <3>1, <4>1 DEF Range
    <3>2. CASE x \in Range(calls[s])
      <4>1. PICK k \in 1 .. Len(calls[s]) : x = calls[s][k]
        BY <2>1, <3>2 DEF Range
      <4>2. k \in 1 .. Len(calls[s]) + 1
        BY <2>1
      <4> QED
        BY <2>1, <4>1, <4>2 DEF Range
    <3> QED
      BY <3>1, <3>2
  <2> QED
    BY <2>2, <2>3
<1> QED
  BY <1>2, <1>3

LEMMA OthersDue ==
  ASSUME TypeOK, NEW s \in Server, NEW c \in Call, Adds(s, c),
         NEW p \in Player, NEW full \in BOOLEAN, NEW t \in Server,
         t # s \/ ~Matters(c, p, full)
  PROVE  Due(t, p, full)' = Due(t, p, full)
<1>1. Range(calls'[t]) = IF t = s THEN Range(calls[s]) \cup {c} ELSE Range(calls[t])
  BY CallAsked
<1>2. CASE t # s
  BY <1>1, <1>2 DEF Due
<1>3. CASE t = s /\ ~Matters(c, p, full)
  BY <1>1, <1>3 DEF Due
<1> QED
  BY <1>2, <1>3

LEMMA ItsDue ==
  ASSUME TypeOK, NEW s \in Server, NEW c \in Call, Adds(s, c),
         NEW p \in Player, NEW full \in BOOLEAN, Matters(c, p, full)
  PROVE  Due(s, p, full)' = Due(s, p, full) \cup {c}
<1>1. Range(calls'[s]) = Range(calls[s]) \cup {c}
  BY CallAsked
<1> QED
  BY <1>1 DEF Due

LEMMA OneCallAsked ==
  ASSUME TypeOK, NEW s \in Server, NEW c \in Call, Adds(s, c),
         NEW p \in Player, NEW full \in BOOLEAN, OneCall(p, full),
         Matters(c, p, full) => \A t \in Server : Due(t, p, full) = {}
  PROVE  OneCall(p, full)'
<1>1. calls \in [Server -> Seq(Call)] /\ calls[s] \in Seq(Call)
  BY Typed DEF CallLists
<1>2. \A t \in Server : calls'[t] = IF t = s THEN Append(calls[s], c) ELSE calls[t]
  BY <1>1 DEF Adds
<1>3. /\ DOMAIN Append(calls[s], c) = 1 .. Len(calls[s]) + 1
      /\ DOMAIN calls[s] = 1 .. Len(calls[s]) /\ Len(calls[s]) \in Nat
      /\ Append(calls[s], c)[Len(calls[s]) + 1] = c
      /\ \A k \in 1 .. Len(calls[s]) : Append(calls[s], c)[k] = calls[s][k]
  BY <1>1
<1>4. ASSUME NEW t \in Server, NEW k \in DOMAIN calls'[t], Matters(calls'[t][k], p, full)
      PROVE  \/ /\ t = s /\ k = Len(calls[s]) + 1 /\ Matters(c, p, full)
             \/ /\ k \in DOMAIN calls[t] /\ Matters(calls[t][k], p, full)
                /\ ~Matters(c, p, full)
  <2>1. CASE t = s /\ k = Len(calls[s]) + 1
    BY <1>2, <1>3, <1>4, <2>1
  <2>2. CASE ~(t = s /\ k = Len(calls[s]) + 1)
    <3>1. k \in DOMAIN calls[t] /\ calls'[t][k] = calls[t][k]
      <4>1. CASE t # s
        BY <1>2, <4>1
      <4>2. CASE t = s
        <5>1. calls'[s] = Append(calls[s], c) /\ k # Len(calls[s]) + 1
          BY <1>2, <2>2, <4>2
        <5>2. k \in 1 .. Len(calls[s])
          BY <1>3, <4>2, <5>1
        <5> QED
          BY <1>3, <4>2, <5>1, <5>2
      <4> QED
        BY <4>1, <4>2
    <3>2. calls[t][k] \in Due(t, p, full)
      BY <1>4, <3>1 DEF Due, Range
    <3> QED
      BY <1>4, <3>1, <3>2
  <2> QED
    BY <2>1, <2>2
<1> QED
  BY <1>4 DEF OneCall

LEMMA Joined ==
  ASSUME NEW S, NEW a \in Seq(S), NEW b \in Seq(S)
  PROVE  /\ Len(a \o b) = Len(a) + Len(b) /\ DOMAIN (a \o b) = 1 .. Len(a) + Len(b)
         /\ \A i \in 1 .. Len(a) + Len(b) :
              (a \o b)[i] = IF i <= Len(a) THEN a[i] ELSE b[i - Len(a)]
OBVIOUS

LEMMA Removed ==
  ASSUME NEW S, NEW q \in Seq(S), NEW k \in DOMAIN q
  PROVE  /\ Len(RemoveAt(q, k)) = Len(q) - 1
         /\ DOMAIN RemoveAt(q, k) = 1 .. Len(q) - 1
         /\ \A i \in 1 .. Len(q) - 1 : RemoveAt(q, k)[i] = q[IF i < k THEN i ELSE i + 1]
<1>1. k \in 1 .. Len(q) /\ Len(q) \in Nat
  OBVIOUS
<1>2. /\ SubSeq(q, 1, k - 1) \in Seq(S) /\ SubSeq(q, k + 1, Len(q)) \in Seq(S)
      /\ Len(SubSeq(q, 1, k - 1)) = k - 1 /\ Len(SubSeq(q, k + 1, Len(q))) = Len(q) - k
      /\ \A i \in 1 .. k - 1 : SubSeq(q, 1, k - 1)[i] = q[i]
      /\ \A i \in 1 .. Len(q) - k : SubSeq(q, k + 1, Len(q))[i] = q[k + i]
  BY <1>1
<1> DEFINE a == SubSeq(q, 1, k - 1)
           b == SubSeq(q, k + 1, Len(q))
<1>3. RemoveAt(q, k) = a \o b
  BY DEF RemoveAt
<1> HIDE DEF a, b
<1>a. /\ a \in Seq(S) /\ b \in Seq(S) /\ Len(a) = k - 1 /\ Len(b) = Len(q) - k
      /\ \A i \in 1 .. k - 1 : a[i] = q[i]
      /\ \A i \in 1 .. Len(q) - k : b[i] = q[k + i]
  BY <1>2 DEF a, b
<1>b. Len(a) + Len(b) = Len(q) - 1
  BY <1>1, <1>a
<1>c. /\ Len(a \o b) = Len(a) + Len(b) /\ DOMAIN (a \o b) = 1 .. Len(a) + Len(b)
      /\ \A i \in 1 .. Len(a) + Len(b) :
           (a \o b)[i] = IF i <= Len(a) THEN a[i] ELSE b[i - Len(a)]
  BY <1>a, Joined
<1>4. Len(a \o b) = Len(q) - 1 /\ DOMAIN (a \o b) = 1 .. Len(q) - 1
  BY <1>b, <1>c
<1>5. ASSUME NEW i \in 1 .. Len(q) - 1
      PROVE  (a \o b)[i] = q[IF i < k THEN i ELSE i + 1]
  <2>1. CASE i < k
    <3>1. i \in 1 .. k - 1
      BY <1>1, <2>1
    <3> QED
      BY <1>a, <1>b, <1>c, <2>1, <3>1
  <2>2. CASE i >= k
    <3>0. i - (k - 1) \in 1 .. Len(q) - k /\ ~(i <= k - 1)
      BY <1>1, <2>2
    <3>1. (a \o b)[i] = b[i - (k - 1)]
      BY <1>a, <1>b, <1>c, <3>0
    <3>2. k + (i - (k - 1)) = i + 1 /\ ~(i < k)
      BY <1>1, <2>2
    <3> QED
      BY <1>a, <3>0, <3>1, <3>2
  <2>3. i < k \/ i >= k
    BY <1>1
  <2> QED
    BY <2>1, <2>2, <2>3, Zenon
<1> QED
  BY <1>3, <1>4, <1>5

\* The calls that are left when one of them has been answered.
LEMMA CallAnswered ==
  ASSUME TypeOK, NEW s \in Server, NEW k \in DOMAIN calls[s],
         calls' = [calls EXCEPT ![s] = RemoveAt(@, k)], NEW t \in Server
  PROVE  \A i \in DOMAIN calls'[t] :
           \E j \in DOMAIN calls[t] :
             /\ calls'[t][i] = calls[t][j]
             /\ j = IF t = s /\ i >= k THEN i + 1 ELSE i
             /\ i \in Nat /\ k \in Nat
<1>1. calls \in [Server -> Seq(Call)] /\ calls[s] \in Seq(Call) /\ calls[t] \in Seq(Call)
  BY Typed DEF CallLists
<1>2. calls'[t] = IF t = s THEN RemoveAt(calls[s], k) ELSE calls[t]
  BY <1>1
<1>3. k \in Nat /\ DOMAIN calls[t] \subseteq Nat /\ DOMAIN calls[s] = 1 .. Len(calls[s]) /\ Len(calls[s]) \in Nat
  BY <1>1
<1>4. CASE t # s
  BY <1>2, <1>3, <1>4
<1>5. CASE t = s
  <2>1. /\ DOMAIN calls'[s] = 1 .. Len(calls[s]) - 1
        /\ \A i \in 1 .. Len(calls[s]) - 1 : calls'[s][i] = calls[s][IF i < k THEN i ELSE i + 1]
    BY <1>1, <1>2, <1>5, Removed
  <2> TAKE i \in DOMAIN calls'[t]
  <2>2. i \in 1 .. Len(calls[s]) - 1
    BY <2>1, <1>5
  <2>3. (IF i >= k THEN i + 1 ELSE i) \in DOMAIN calls[t]
    BY <1>3, <1>5, <2>2
  <2>4. calls'[t][i] = calls[t][IF i >= k THEN i + 1 ELSE i]
    BY <1>3, <1>5, <2>1, <2>2
  <2>5. \E j \in DOMAIN calls[t] : calls'[t][i] = calls[t][j] /\ j = IF i >= k THEN i + 1 ELSE i
    BY <2>3, <2>4
  <2> QED
    BY <1>3, <1>5, <2>2, <2>5
<1> QED
  BY <1>4, <1>5

LEMMA OneCallAnswered ==
  ASSUME TypeOK, NEW s \in Server, NEW k \in DOMAIN calls[s],
         calls' = [calls EXCEPT ![s] = RemoveAt(@, k)],
         NEW p \in Player, NEW full \in BOOLEAN, OneCall(p, full)
  PROVE  OneCall(p, full)'
<1> SUFFICES ASSUME NEW t \in Server, NEW u \in Server,
                    NEW i \in DOMAIN calls'[t], NEW j \in DOMAIN calls'[u],
                    Matters(calls'[t][i], p, full), Matters(calls'[u][j], p, full)
             PROVE  t = u /\ i = j
  BY DEF OneCall
<1>0. \A x \in Server : \A y \in DOMAIN calls'[x] : \E z \in DOMAIN calls[x] :
        /\ calls'[x][y] = calls[x][z]
        /\ z = IF x = s /\ y >= k THEN y + 1 ELSE y
        /\ y \in Nat /\ k \in Nat
  <2> TAKE x \in Server
  <2> QED
    BY CallAnswered
<1>1. PICK a \in DOMAIN calls[t] :
            /\ calls'[t][i] = calls[t][a]
            /\ a = IF t = s /\ i >= k THEN i + 1 ELSE i
            /\ i \in Nat /\ k \in Nat
  BY <1>0
<1>2. PICK b \in DOMAIN calls[u] :
            /\ calls'[u][j] = calls[u][b]
            /\ b = IF u = s /\ j >= k THEN j + 1 ELSE j
            /\ j \in Nat
  BY <1>0
<1>3. t = u /\ a = b
  BY <1>1, <1>2 DEF OneCall
<1>4. i = j
  BY <1>1, <1>2, <1>3
<1> QED
  BY <1>3, <1>4

LEMMA OthersRemain ==
  ASSUME TypeOK, NEW s \in Server, NEW k \in DOMAIN calls[s],
         calls' = [calls EXCEPT ![s] = RemoveAt(@, k)], NEW t \in Server,
         NEW j \in DOMAIN calls[t], ~(t = s /\ j = k)
  PROVE  calls[t][j] \in Range(calls'[t])
<1>1. calls \in [Server -> Seq(Call)] /\ calls[s] \in Seq(Call) /\ calls[t] \in Seq(Call)
  BY Typed DEF CallLists
<1>2. calls'[t] = IF t = s THEN RemoveAt(calls[s], k) ELSE calls[t]
  BY <1>1
<1>3. CASE t # s
  BY <1>2, <1>3 DEF Range
<1>4. CASE t = s
  <2> DEFINE i == IF j < k THEN j ELSE j - 1
             n == Len(calls[s])
  <2>1. n \in Nat /\ k \in 1 .. n /\ j \in 1 .. n /\ j # k
    BY <1>1, <1>4
  <2>2. i \in 1 .. n - 1 /\ (IF i < k THEN i ELSE i + 1) = j
    BY <2>1
  <2>3. DOMAIN calls'[s] = 1 .. n - 1
    BY <1>1, <1>2, <1>4, Removed
  <2>4. \A x \in 1 .. n - 1 : calls'[s][x] = calls[s][IF x < k THEN x ELSE x + 1]
    BY <1>1, <1>2, <1>4, Removed
  <2> HIDE DEF i, n
  <2>5. calls'[s][i] = calls[s][j] /\ i \in DOMAIN calls'[s]
    BY <2>2, <2>3, <2>4
  <2> QED
    BY <1>4, <2>5 DEF Range
<1> QED
  BY <1>3, <1>4

Answers(s, k) == calls' = [calls EXCEPT ![s] = RemoveAt(@, k)]

LEMMA LeftUnanswered ==
  ASSUME TypeOK, NEW s \in Server, NEW k \in DOMAIN calls[s], Answers(s, k),
         NEW t \in Server, NEW c \in Range(calls'[t])
  PROVE  \E j \in DOMAIN calls[t] : c = calls[t][j] /\ ~(t = s /\ j = k)
<1>1. PICK i \in DOMAIN calls'[t] : c = calls'[t][i]
  BY DEF Range
<1>2. PICK j \in DOMAIN calls[t] :
            /\ calls'[t][i] = calls[t][j]
            /\ j = IF t = s /\ i >= k THEN i + 1 ELSE i
            /\ i \in Nat /\ k \in Nat
  BY CallAnswered DEF Answers
<1>3. ~(t = s /\ j = k)
  BY <1>2
<1> QED
  BY <1>1, <1>2, <1>3

\* A call that does not matter is answered ...
LEMMA DueAsBefore ==
  ASSUME TypeOK, NEW s \in Server, NEW k \in DOMAIN calls[s], Answers(s, k),
         NEW p \in Player, NEW full \in BOOLEAN, NEW t \in Server,
         ~Matters(calls[s][k], p, full)
  PROVE  Due(t, p, full)' = Due(t, p, full)
<1>1. ASSUME NEW c \in Due(t, p, full) PROVE c \in Range(calls'[t])
  <2>1. PICK j \in DOMAIN calls[t] : c = calls[t][j]
    BY DEF Due, Range
  <2>2. ~(t = s /\ j = k)
    BY <2>1 DEF Due
  <2> QED
    BY <2>1, <2>2, OthersRemain DEF Answers
<1>2. Range(calls'[t]) \subseteq Range(calls[t])
  BY LeftUnanswered DEF Range
<1> QED
  BY <1>1, <1>2 DEF Due

\* ... and the only one that does.
LEMMA DueNoMore ==
  ASSUME TypeOK, NEW s \in Server, NEW k \in DOMAIN calls[s], Answers(s, k),
         NEW p \in Player, NEW full \in BOOLEAN, NEW t \in Server,
         Matters(calls[s][k], p, full), OneCall(p, full)
  PROVE  Due(t, p, full)' = {} /\ Due(t, p, full) = IF t = s THEN {calls[s][k]} ELSE {}
<1>1. ASSUME NEW j \in DOMAIN calls[t], Matters(calls[t][j], p, full) PROVE t = s /\ j = k
  BY <1>1 DEF OneCall
<1>2. Due(t, p, full)' = {}
  BY <1>1, LeftUnanswered DEF Due
<1>3. Due(t, p, full) \subseteq IF t = s THEN {calls[s][k]} ELSE {}
  BY <1>1 DEF Due, Range
<1>4. t = s => calls[s][k] \in Due(t, p, full)
  BY DEF Due, Range
<1> QED
  BY <1>2, <1>3, <1>4

\* The same calls matter, at the same servers.
Carried(p, full) ==
  \A t \in Server :
    /\ Due(t, p, full)' = {} => Due(t, p, full) = {}
    /\ \A c \in Due(t, p, full)' : \E d \in Due(t, p, full) : News(d) = News(c)

\* A call is done, and the others are as they were.
LEMMA CallDone ==
  ASSUME TypeOK, NEW s \in Server, NEW k \in DOMAIN calls[s],
         calls' = [calls EXCEPT ![s][k].done = TRUE], NEW t \in Server
  PROVE  /\ DOMAIN calls'[t] = DOMAIN calls[t]
         /\ \A i \in DOMAIN calls[t] :
              /\ calls'[t][i].op = calls[t][i].op
              /\ calls'[t][i].player = calls[t][i].player
              /\ ~(t = s /\ i = k) => calls'[t][i] = calls[t][i]
<1>1. calls \in [Server -> Seq(Call)] /\ calls[s] \in Seq(Call) /\ calls[s][k] \in Call
  BY Typed DEF CallLists
<1>2. calls'[t] = IF t = s THEN [calls[s] EXCEPT ![k].done = TRUE] ELSE calls[t]
  BY <1>1
<1> DEFINE c == [calls[s][k] EXCEPT !.done = TRUE]
<1>3. c.op = calls[s][k].op /\ c.player = calls[s][k].player
  BY <1>1 DEF Call
<1>4. [calls[s] EXCEPT ![k].done = TRUE] = [calls[s] EXCEPT ![k] = c]
  OBVIOUS
<1> HIDE DEF c
<1> QED
  BY <1>1, <1>2, <1>3, <1>4

LEMMA DoneCarried ==
  ASSUME TypeOK, NEW s \in Server, NEW k \in DOMAIN calls[s],
         calls' = [calls EXCEPT ![s][k].done = TRUE],
         NEW p \in Player, NEW full \in BOOLEAN
  PROVE  /\ Carried(p, full)
         /\ OneCall(p, full) => OneCall(p, full)'
<1>1. ASSUME NEW t \in Server, NEW i \in DOMAIN calls[t]
      PROVE  Matters(calls'[t][i], p, full) <=> Matters(calls[t][i], p, full)
  BY CallDone DEF Matters
<1>2. OneCall(p, full) => OneCall(p, full)'
  BY <1>1, CallDone DEF OneCall
<1>3. ASSUME NEW t \in Server, Due(t, p, full)' = {} PROVE Due(t, p, full) = {}
  <2> SUFFICES ASSUME NEW c \in Due(t, p, full) PROVE FALSE
    OBVIOUS
  <2>1. PICK i \in DOMAIN calls[t] : c = calls[t][i] /\ Matters(calls[t][i], p, full)
    BY DEF Due, Range
  <2>2. calls'[t][i] \in Range(calls'[t])
    BY CallDone DEF Range
  <2>3. calls'[t][i] \in Due(t, p, full)'
    BY <1>1, <2>1, <2>2 DEF Due
  <2> QED
    BY <1>3, <2>3
<1>4. ASSUME NEW t \in Server, NEW c \in Due(t, p, full)'
      PROVE  \E d \in Due(t, p, full) : News(d) = News(c)
  <2>1. PICK i \in DOMAIN calls'[t] : c = calls'[t][i] /\ Matters(calls'[t][i], p, full)
    BY DEF Due, Range
  <2>2. i \in DOMAIN calls[t] /\ News(calls[t][i]) = News(c)
    BY <2>1, CallDone DEF News
  <2>3. calls[t][i] \in Due(t, p, full)
    BY <1>1, <2>1, <2>2 DEF Due, Range
  <2> QED
    BY <2>2, <2>3
<1> QED
  BY <1>2, <1>3, <1>4 DEF Carried

\* Nothing is left of the calls of a server that crashes.
LEMMA CallsLost ==
  ASSUME TypeOK, NEW s \in Server, calls' = [calls EXCEPT ![s] = <<>>],
         NEW p \in Player, NEW full \in BOOLEAN
  PROVE  /\ \A t \in Server : Due(t, p, full)' = IF t = s THEN {} ELSE Due(t, p, full)
         /\ \A t \in Server : Range(calls'[t]) \subseteq Range(calls[t])
         /\ OneCall(p, full) => OneCall(p, full)'
<1>1. \A t \in Server : calls'[t] = IF t = s THEN <<>> ELSE calls[t]
  BY Typed DEF CallLists
<1>2. DOMAIN <<>> = {}
  OBVIOUS
<1>3. OneCall(p, full) => OneCall(p, full)'
  BY <1>1, <1>2 DEF OneCall
<1>4. \A t \in Server : Range(calls'[t]) = IF t = s THEN {} ELSE Range(calls[t])
  BY <1>1, <1>2 DEF Range
<1> QED
  BY <1>3, <1>4 DEF Due

-----------------------------------------------------------------------------
(* Copies that agree. *)

\* The same copy, or the same room if p does not matter.
Like(full, v, w) == Alike(v, w) /\ (full => v = w)

LEMMA HeardLike ==
  ASSUME NEW v \in View, NEW w \in View, NEW full \in BOOLEAN, Like(full, v, w),
         NEW p \in Player, NEW m \in Message
  PROVE  Like(full, Heard(v, p, m), Heard(w, p, m))
BY HeardOfAlike DEF Like

LEMMA MatchLike ==
  ASSUME renewed \subseteq renewed', NEW s \in Server, NEW t \in Server, NEW p \in Player,
         NEW full \in BOOLEAN, NEW v \in View, NEW w \in View, NEW x \in View, NEW y \in View,
         Like(full, v, x), Like(full, w, y), Match(s, t, p, full, v, w)
  PROVE  Match(s, t, p, full, x, y)'
<1>1. {s, t} \cap renewed' = {} => {s, t} \cap renewed = {}
  OBVIOUS
<1>2. CASE full
  BY <1>1, <1>2 DEF Match, Like
<1>3. CASE ~full
  BY <1>1, <1>3 DEF Match, Like, Alike
<1> QED
  BY <1>2, <1>3

LEMMA MatchTurned ==
  ASSUME NEW s \in Server, NEW t \in Server, NEW p \in Player, NEW full \in BOOLEAN,
         NEW v \in View, NEW w \in View, Match(s, t, p, full, v, w)
  PROVE  Match(t, s, p, full, w, v)
BY DEF Match

\* A crash leaves nothing to agree on.
LEMMA NothingMatches ==
  ASSUME NEW s \in Server, NEW t \in Server, NEW p \in Player, NEW full \in BOOLEAN,
         NEW v \in View, {s, t} \cap renewed' # {}
  PROVE  Match(s, t, p, full, v, NoRoom)' /\ Match(s, t, p, full, NoRoom, v)'
BY DEF Match

\* Copies that agree still do when they have heard the same.
LEMMA HeardMatches ==
  ASSUME NEW s \in Server, NEW t \in Server, NEW p \in Player, NEW full \in BOOLEAN,
         NEW v \in View, NEW w \in View, NEW m \in Message, Match(s, t, p, full, v, w),
         m.kind = "created" => v = NoRoom /\ w = NoRoom
  PROVE  Match(s, t, p, full, Heard(v, p, m), Heard(w, p, m))
<1>1. CASE m.kind = "created"
  BY <1>1 DEF Match
<1>2. CASE m.kind = "destroyed"
  BY <1>2 DEF Match, Heard
<1>3. CASE m.kind \notin RoomWide
  <2> DEFINE x == Heard(v, p, m)
             y == Heard(w, p, m)
  <2> SUFFICES Match(s, t, p, full, x, y)
    OBVIOUS
  <2>1. Alike(v, x) /\ Alike(w, y)
    BY <1>3, HeardAlike
  <2>2. CASE v = NoRoom \/ w = NoRoom
    <3> HIDE DEF x, y
    <3> QED
      BY <2>1, <2>2 DEF Match, Alike
  <2>3. CASE v # NoRoom /\ w # NoRoom
    <3>1. v \in Room /\ w \in Room
      BY <2>3 DEF View
    <3>2. CASE m.player # p
      <4>1. x = v /\ y = w
        BY <1>3, <3>2, HeardOther
      <4> HIDE DEF x, y
      <4> QED
        BY <4>1
    <3>3. CASE m.player = p
      <4>1. ASSUME NEW a \in Room
            PROVE  /\ p \in Heard(a, p, m).banned <=>
                         m.kind = "ban" \/ (m.kind # "unban" /\ p \in a.banned)
                   /\ p \in Heard(a, p, m).members <=>
                         m.kind = "join" \/ (m.kind = "unban" /\ p \in a.members)
        BY <1>3, <3>3, RoomsAssumption DEF Heard, RoomWide, Room
      <4>2. /\ p \in x.banned <=> m.kind = "ban" \/ (m.kind # "unban" /\ p \in v.banned)
            /\ p \in x.members <=> m.kind = "join" \/ (m.kind = "unban" /\ p \in v.members)
            /\ p \in y.banned <=> m.kind = "ban" \/ (m.kind # "unban" /\ p \in w.banned)
            /\ p \in y.members <=> m.kind = "join" \/ (m.kind = "unban" /\ p \in w.members)
        BY <3>1, <4>1
      <4> HIDE DEF x, y
      <4>3. CASE full
        BY <2>1, <2>3, <4>2, <4>3 DEF Match, Alike
      <4>4. CASE ~full
        BY <2>1, <2>3, <4>4 DEF Match, Alike
      <4> QED
        BY <4>3, <4>4
    <3> QED
      BY <3>2, <3>3
  <2> QED
    BY <2>2, <2>3
<1> QED
  BY <1>1, <1>2, <1>3 DEF RoomWide

\* What the maker of a room has of it, and what the others have.
LEMMA FoundersMatch ==
  ASSUME NEW s \in Server, NEW t \in Server, NEW p \in Player, NEW full \in BOOLEAN,
         NEW o \in Player, NEW b \in BOOLEAN, NEW v, NEW w,
         v = Seen(NewRoom(o, {o}, b), p), w = Seen(NewRoom(o, {}, FALSE), p)
  PROVE  /\ v \in View /\ w \in View /\ v # NoRoom /\ w # NoRoom
         /\ v.owner = o /\ v.persistent = b /\ v.banned = {} /\ v.members = {o} \cap {p}
         /\ w.owner = o /\ w.persistent = FALSE /\ w.banned = {} /\ w.members = {}
         /\ Match(s, t, p, full, v, w) /\ Match(s, t, p, full, w, w)
<1>1. NewRoom(o, {o}, b) \in Room /\ NewRoom(o, {}, FALSE) \in Room
  BY NewRoomTyped
<1>2. v \in View /\ w \in View /\ v # NoRoom /\ w # NoRoom
  BY <1>1, SeenTyped, RoomsAssumption DEF View
<1>3. /\ v.owner = o /\ v.persistent = b /\ v.banned = {} /\ v.members = {o} \cap {p}
      /\ w.owner = o /\ w.persistent = FALSE /\ w.banned = {} /\ w.members = {}
  BY <1>1, RoomsAssumption DEF Seen, NewRoom
<1> QED
  BY <1>2, <1>3 DEF Match

-----------------------------------------------------------------------------
(* The copies stay in step.                                                *)

\* When a step changes nothing that matters.
LEMMA StepLike ==
  ASSUME TypeOK, TypeOK', NEW p \in Player, NEW full \in BOOLEAN, renewed \subseteq renewed',
         InStep(p, full), Carried(p, full),
         \A t \in Server : Like(full, Outlook(t, p), Outlook(t, p)')
  PROVE  InStep(p, full)'
<1>1. ASSUME NEW t \in Server PROVE Outlook(t, p) \in View /\ Outlook(t, p)' \in View
  <2>1. Outlook(t, p) \in View
    BY OutlookTyped
  <2>2. rooms'[t] \in View /\ inbox'[t] \in Seq(Message)
    BY TypedNext DEF Copies, Inboxes, View
  <2> QED
    BY <2>1, <2>2, SeenTyped, SettledTyped DEF Outlook
<1>2. ASSUME NEW s \in Server, NEW t \in Server, s # t,
             Due(s, p, full)' = {}, Due(t, p, full)' = {}
      PROVE  Match(s, t, p, full, Outlook(s, p), Outlook(t, p))'
  <2>1. Match(s, t, p, full, Outlook(s, p), Outlook(t, p))
    BY <1>2 DEF InStep, Carried
  <2>2. PICK v \in View, w \in View, x \in View, y \in View :
              /\ v = Outlook(s, p) /\ w = Outlook(t, p)
              /\ x = Outlook(s, p)' /\ y = Outlook(t, p)'
    BY <1>1
  <2>3. Match(s, t, p, full, x, y)'
    BY <2>1, <2>2, MatchLike
  <2> QED
    BY <2>2, <2>3 DEF Match
<1>3. ASSUME NEW s \in Server, NEW c \in Due(s, p, full)', NEW t \in Server \ {s}
      PROVE  Match(s, t, p, full, Outlook(s, p), Heard(Outlook(t, p), p, News(c)))'
  <2>1. PICK d \in Due(s, p, full) : News(d) = News(c)
    BY DEF Carried
  <2>2. PICK m \in Message : m = News(d)
    BY DueTyped
  <2>3. PICK v \in View, w \in View, x \in View, y \in View :
              /\ v = Outlook(s, p) /\ w = Outlook(t, p)
              /\ x = Outlook(s, p)' /\ y = Outlook(t, p)'
    BY <1>1
  <2>4. Match(s, t, p, full, v, Heard(w, p, m))
    BY <2>2, <2>3 DEF InStep
  <2>5. PICK h \in View, k \in View : h = Heard(w, p, m) /\ k = Heard(y, p, m)
    BY HeardTyped
  <2>6. Like(full, h, k)
    BY <2>3, <2>5, HeardLike
  <2>7. Match(s, t, p, full, x, k)'
    BY <2>3, <2>4, <2>5, <2>6, MatchLike
  <2> QED
    BY <2>1, <2>2, <2>3, <2>5, <2>7 DEF Match
<1> QED
  BY <1>2, <1>3 DEF InStep

\* When all have heard of what happened.
LEMMA StepTold ==
  ASSUME TypeOK, NEW p \in Player, NEW full \in BOOLEAN, renewed' = renewed,
         InStep(p, full), NEW m \in Message,
         \A t \in Server : Due(t, p, full) = {} /\ Due(t, p, full)' = {},
         m.kind = "created" => \A t \in Server : Outlook(t, p) = NoRoom,
         \A t \in Server : \/ Outlook(t, p)' = Heard(Outlook(t, p), p, m)
                           \/ t \in renewed /\ Outlook(t, p)' = NoRoom
  PROVE  InStep(p, full)'
<1>1. ASSUME NEW s \in Server, NEW t \in Server, s # t
      PROVE  Match(s, t, p, full, Outlook(s, p), Outlook(t, p))'
  <2>1. Match(s, t, p, full, Outlook(s, p), Outlook(t, p))
    BY <1>1 DEF InStep
  <2>2. PICK v \in View, w \in View : v = Outlook(s, p) /\ w = Outlook(t, p)
    BY OutlookTyped
  <2>3. m.kind = "created" => v = NoRoom /\ w = NoRoom
    BY <2>2
  <2>4. PICK x, y : x = Outlook(s, p)' /\ y = Outlook(t, p)'
    OBVIOUS
  <2>5. Match(s, t, p, full, Heard(v, p, m), Heard(w, p, m))
    BY <2>1, <2>2, <2>3, HeardMatches
  <2>6. CASE x = Heard(v, p, m) /\ y = Heard(w, p, m)
    BY <2>4, <2>5, <2>6 DEF Match
  <2>7. CASE (s \in renewed /\ x = NoRoom) \/ (t \in renewed /\ y = NoRoom)
    BY <2>4, <2>7 DEF Match
  <2> QED
    BY <2>2, <2>4, <2>6, <2>7
<1> QED
  BY <1>1 DEF InStep

\* When a server has asked the database.
LEMMA StepAsked ==
  ASSUME TypeOK, NEW p \in Player, NEW full \in BOOLEAN, renewed' = renewed,
         InStep(p, full), NEW s \in Server, NEW c, News(c) \in Message, c.op # "created",
         \A t \in Server : Due(t, p, full) = {},
         \A t \in Server : Due(t, p, full)' = IF t = s THEN {c} ELSE {},
         Outlook(s, p)' = Heard(Outlook(s, p), p, News(c)),
         \A t \in Server \ {s} : Outlook(t, p)' = Outlook(t, p)
  PROVE  InStep(p, full)'
<1>1. ASSUME NEW t \in Server, NEW u \in Server, t # u,
             Due(t, p, full)' = {}, Due(u, p, full)' = {}
      PROVE  Match(t, u, p, full, Outlook(t, p), Outlook(u, p))'
  <2>1. t # s /\ u # s
    BY <1>1
  <2>2. Match(t, u, p, full, Outlook(t, p), Outlook(u, p))
    BY <1>1 DEF InStep
  <2> QED
    BY <2>1, <2>2 DEF Match
<1>2. ASSUME NEW t \in Server \ {s}
      PROVE  Match(s, t, p, full, Outlook(s, p), Heard(Outlook(t, p), p, News(c)))'
  <2>1. Match(s, t, p, full, Outlook(s, p), Outlook(t, p))
    BY DEF InStep
  <2>2. PICK v \in View, w \in View, m \in Message :
              v = Outlook(s, p) /\ w = Outlook(t, p) /\ m = News(c)
    BY OutlookTyped
  <2>3. m.kind # "created"
    BY <2>2 DEF News
  <2>4. Match(s, t, p, full, Heard(v, p, m), Heard(w, p, m))
    BY <2>1, <2>2, <2>3, HeardMatches
  <2> QED
    BY <2>2, <2>4 DEF Match
<1>3. ASSUME NEW u \in Server, NEW d \in Due(u, p, full)'
      PROVE  u = s /\ d = c
  OBVIOUS
<1> QED
  BY <1>1, <1>2, <1>3 DEF InStep

\* When the answer has come, and it is told.
LEMMA StepAnswered ==
  ASSUME TypeOK, NEW p \in Player, NEW full \in BOOLEAN, renewed' = renewed,
         InStep(p, full), NEW s \in Server, NEW c, News(c) \in Message,
         \A t \in Server : Due(t, p, full) = IF t = s THEN {c} ELSE {},
         \A t \in Server : Due(t, p, full)' = {},
         c.op = "created" => \A t \in Server \ {s} : Outlook(t, p) = NoRoom,
         Outlook(s, p)' = Outlook(s, p),
         \A t \in Server \ {s} :
           \/ Outlook(t, p)' = Heard(Outlook(t, p), p, News(c))
           \/ t \in renewed /\ Outlook(t, p)' = NoRoom
  PROVE  InStep(p, full)'
<1>1. ASSUME NEW t \in Server \ {s}
      PROVE  /\ Match(s, t, p, full, Outlook(s, p), Outlook(t, p))'
             /\ Match(t, s, p, full, Outlook(t, p), Outlook(s, p))'
  <2>1. Match(s, t, p, full, Outlook(s, p), Heard(Outlook(t, p), p, News(c)))
    BY DEF InStep
  <2>2. PICK v, w : v = Outlook(s, p)' /\ w = Outlook(t, p)'
    OBVIOUS
  <2>3. CASE w = Heard(Outlook(t, p), p, News(c))
    BY <2>1, <2>2, <2>3 DEF Match
  <2>4. CASE t \in renewed /\ w = NoRoom
    BY <2>2, <2>4 DEF Match
  <2> QED
    BY <2>2, <2>3, <2>4
<1>2. ASSUME NEW t \in Server \ {s}, NEW u \in Server \ {s}, t # u
      PROVE  Match(t, u, p, full, Outlook(t, p), Outlook(u, p))'
  <2>1. Match(t, u, p, full, Outlook(t, p), Outlook(u, p))
    BY <1>2 DEF InStep
  <2>2. PICK v \in View, w \in View, m \in Message :
              v = Outlook(t, p) /\ w = Outlook(u, p) /\ m = News(c)
    BY OutlookTyped
  <2>3. m.kind = "created" => v = NoRoom /\ w = NoRoom
    BY <2>2 DEF News
  <2>4. Match(t, u, p, full, Heard(v, p, m), Heard(w, p, m))
    BY <2>1, <2>2, <2>3, HeardMatches
  <2>5. PICK x, y : x = Outlook(t, p)' /\ y = Outlook(u, p)'
    OBVIOUS
  <2>6. CASE x = Heard(v, p, m) /\ y = Heard(w, p, m)
    BY <2>4, <2>5, <2>6 DEF Match
  <2>7. CASE (t \in renewed /\ x = NoRoom) \/ (u \in renewed /\ y = NoRoom)
    BY <2>5, <2>7 DEF Match
  <2> QED
    BY <2>2, <2>5, <2>6, <2>7
<1> QED
  BY <1>1, <1>2 DEF InStep

\* When a server has crashed.
LEMMA StepCrashed ==
  ASSUME TypeOK, NEW p \in Player, NEW full \in BOOLEAN, NEW s \in Server,
         renewed' = renewed \cup {s}, InStep(p, full), MadeAlone(p),
         \A t \in Server : Due(t, p, full)' = IF t = s THEN {} ELSE Due(t, p, full),
         Outlook(s, p)' = NoRoom,
         \A t \in Server \ {s} : Outlook(t, p)' = Outlook(t, p)
  PROVE  InStep(p, full)'
<1>1. ASSUME NEW t \in Server, NEW u \in Server, t # u,
             Due(t, p, full)' = {}, Due(u, p, full)' = {}
      PROVE  Match(t, u, p, full, Outlook(t, p), Outlook(u, p))'
  <2>1. CASE s \in {t, u}
    BY <2>1 DEF Match
  <2>2. CASE s \notin {t, u}
    <3>1. Match(t, u, p, full, Outlook(t, p), Outlook(u, p))
      BY <1>1, <2>2 DEF InStep
    <3>2. Outlook(t, p)' = Outlook(t, p) /\ Outlook(u, p)' = Outlook(u, p)
      BY <2>2
    <3>3. {t, u} \cap renewed' = {} => {t, u} \cap renewed = {}
      OBVIOUS
    <3> QED
      BY <3>1, <3>2, <3>3 DEF Match
  <2> QED
    BY <2>1, <2>2
<1>2. ASSUME NEW u \in Server, NEW c \in Due(u, p, full)', NEW t \in Server \ {u}
      PROVE  Match(u, t, p, full, Outlook(u, p), Heard(Outlook(t, p), p, News(c)))'
  <2>1. u # s /\ c \in Due(u, p, full)
    BY <1>2
  <2>2. PICK v : v = Heard(Outlook(t, p), p, News(c))
    OBVIOUS
  <2>3. Match(u, t, p, full, Outlook(u, p), v)
    BY <2>1, <2>2 DEF InStep
  <2>4. PICK w : w = Heard(Outlook(t, p)', p, News(c))
    OBVIOUS
  <2>5. CASE w = v
    <3>1. Outlook(u, p)' = Outlook(u, p)
      BY <2>1
    <3>2. {u, t} \cap renewed' = {} => {u, t} \cap renewed = {}
      OBVIOUS
    <3> QED
      BY <2>3, <2>4, <2>5, <3>1, <3>2 DEF Match
  <2>6. CASE t = s /\ w = NoRoom
    BY <2>4, <2>6 DEF Match
  <2>7. w = v \/ (t = s /\ w = NoRoom)
    <3>1. CASE t # s
      BY <2>2, <2>4, <3>1
    <3>2. CASE t = s /\ c.op = "created"
      <4>1. c \in Due(u, p, FALSE)
        BY <2>1, <3>2, DueInFull DEF Due, Matters, RoomWide
      <4>2. Outlook(s, p) = NoRoom
        BY <2>1, <3>2, <4>1 DEF MadeAlone
      <4> QED
        BY <2>2, <2>4, <3>2, <4>2
    <3>3. CASE t = s /\ c.op # "created"
      <4>1. Heard(NoRoom, p, News(c)) = NoRoom
        BY <3>3 DEF Heard, News
      <4> QED
        BY <2>4, <3>3, <4>1
    <3> QED
      BY <3>1, <3>2, <3>3
  <2> QED
    BY <2>5, <2>6, <2>7
<1> QED
  BY <1>1, <1>2 DEF InStep

-----------------------------------------------------------------------------
(* Agreed is kept by each step.                                            *)

Grows ==
  /\ renewed \subseteq renewed' /\ contested \subseteq contested'
  /\ unsaved \subseteq unsaved'

\* A step that changes nothing about p.
LEMMA Quiet ==
  ASSUME TypeOK, TypeOK', NEW p \in Player, Agreed(p), Grows, db' = db,
         \A t \in Server : Outlook(t, p)' = Outlook(t, p),
         \A t \in Server, full \in BOOLEAN : Due(t, p, full)' = Due(t, p, full),
         \A full \in BOOLEAN : OneCall(p, full) => OneCall(p, full)'
  PROVE  Agreed(p)'
<1>1. \A full \in BOOLEAN : Carried(p, full)
  BY DEF Carried
<1>2. \A full \in BOOLEAN, t \in Server : Like(full, Outlook(t, p), Outlook(t, p)')
  BY DEF Like, Alike
<1>3. ASSUME NEW full \in BOOLEAN, InStep(p, full) PROVE InStep(p, full)'
  BY <1>1, <1>2, <1>3, StepLike DEF Grows
<1>4. MadeAlone(p)'
  BY DEF Agreed, MadeAlone
<1>5. OneCall(p, FALSE)' /\ InStep(p, FALSE)'
  BY <1>3 DEF Agreed
<1>6. ASSUME p \notin contested' PROVE OneCall(p, TRUE)' /\ InStep(p, TRUE)' /\ Apart(p)'
  <2>1. OneCall(p, TRUE) /\ InStep(p, TRUE) /\ Apart(p)
    BY <1>6 DEF Agreed, Grows
  <2>2. Apart(p)'
    BY <2>1 DEF Apart
  <2> QED
    BY <1>3, <2>1, <2>2
<1>7. ASSUME p \notin contested' \cup unsaved' PROVE Kept(p)'
  <2>1. Kept(p)
    BY <1>7 DEF Agreed, Grows
  <2> QED
    BY <2>1 DEF Kept
<1> QED
  BY <1>4, <1>5, <1>6, <1>7 DEF Agreed

\* A step that leaves the calls alone, or adds one that p does not matter to.
LEMMA SameCalls ==
  ASSUME calls' = calls
  PROVE  \A p \in Player, full \in BOOLEAN :
           /\ \A t \in Server : Due(t, p, full)' = Due(t, p, full)
           /\ OneCall(p, full) => OneCall(p, full)'
BY DEF Due, OneCall

LEMMA OtherCall ==
  ASSUME TypeOK, NEW s \in Server, NEW c \in Call, Adds(s, c),
         NEW p \in Player, NEW full \in BOOLEAN, ~Matters(c, p, full)
  PROVE  /\ \A t \in Server : Due(t, p, full)' = Due(t, p, full)
         /\ OneCall(p, full) => OneCall(p, full)'
<1>1. \A t \in Server : Due(t, p, full)' = Due(t, p, full)
  BY OthersDue
<1>2. OneCall(p, full) => OneCall(p, full)'
  BY OneCallAsked
<1> QED
  BY <1>1, <1>2

LEMMA RemoteAgreed ==
  ASSUME TypeOK, TypeOK', NEW s \in Server, RemoteStep(s), Grows,
         NEW p \in Player, Agreed(p)
  PROVE  Agreed(p)'
<1>1. calls' = calls /\ db' = db
  BY DEF RemoteStep, RemoteUnknown, RemoteCreated, RemoteDestroyed, RemoteJoin,
         RemoteLeave, RemoteKick, RemoteBan, RemoteUnban, Handled, Rest
<1> QED
  BY <1>1, HandledForeseen, SameCalls, Quiet

\* Moderators matter to no player.
LEMMA LocalAgreed ==
  ASSUME TypeOK, TypeOK', NEW s \in Server, LocalStep(s), Grows,
         NEW p \in Player, Agreed(p)
  PROVE  Agreed(p)'
<1>1. PICK q \in Player :
            Register(s, q) \/ Unregister(s, q) \/ AddModerator(s, q) \/ RemoveModerator(s, q)
  BY DEF LocalStep, Operation
<1>2. inbox' = inbox /\ db' = db
  BY <1>1 DEF Register, Unregister, AddModerator, RemoveModerator, SetModerators, Rest
<1>3. /\ \A t \in Server, full \in BOOLEAN : Due(t, p, full)' = Due(t, p, full)
      /\ \A full \in BOOLEAN : OneCall(p, full) => OneCall(p, full)'
  <2>1. CASE calls' = calls
    BY <2>1, SameCalls
  <2>2. CASE calls' # calls
    <3>1. AddModerator(s, q) \/ RemoveModerator(s, q)
      BY <1>1, <2>2 DEF Register, Unregister
    <3>2. PICK op \in {"mod", "unmod"} : SetModerators(s, op, q)
      BY <3>1 DEF AddModerator, RemoveModerator
    <3> DEFINE c == [op |-> op, player |-> q, done |-> FALSE]
    <3>3. calls \in [Server -> Seq(Call)]
      BY Typed DEF CallLists
    <3>4. Adds(s, c)
      BY <2>2, <3>2, <3>3 DEF SetModerators, Adds
    <3>5. \A full \in BOOLEAN : ~Matters(c, p, full)
      BY DEF Matters, RoomWide
    <3>6. c \in Call
      BY DEF Call
    <3> HIDE DEF c
    <3> QED
      BY <3>4, <3>5, <3>6, OtherCall
  <2> QED
    BY <2>1, <2>2
<1>4. ASSUME NEW t \in Server PROVE Seen(rooms'[t], p) = Seen(rooms[t], p)
  <2>1. rooms \in Copies
    BY Typed
  <2>2. CASE rooms' = rooms
    BY <2>2
  <2>3. CASE rooms' # rooms
    <3>1. AddModerator(s, q) \/ RemoveModerator(s, q)
      BY <1>1, <2>3 DEF Register, Unregister
    <3>2. Here(s)
      BY <3>1 DEF AddModerator, RemoveModerator
    <3>3. rooms[s] \in Room
      BY <2>1, <3>2 DEF Copies, Here
    <3>4. PICK ms \in SUBSET Player : rooms' = [rooms EXCEPT ![s].moderators = ms]
      <4>1. rooms[s].moderators \cup {q} \in SUBSET Player
            /\ rooms[s].moderators \ {q} \in SUBSET Player
        BY <3>3 DEF Room
      <4> QED
        BY <3>1, <4>1 DEF AddModerator, RemoveModerator
    <3> DEFINE r == [rooms[s] EXCEPT !.moderators = ms]
    <3>5. /\ r \in Room /\ r.owner = rooms[s].owner /\ r.members = rooms[s].members
          /\ r.banned = rooms[s].banned /\ r.persistent = rooms[s].persistent
      BY <3>3 DEF Room
    <3>6. rooms'[t] = IF t = s THEN r ELSE rooms[t]
      BY <2>1, <3>4 DEF Copies
    <3> HIDE DEF r
    <3> QED
      BY <3>2, <3>5, <3>6, RoomsAssumption DEF Seen, Here
  <2> QED
    BY <2>2, <2>3
<1>5. \A t \in Server : Outlook(t, p)' = Outlook(t, p)
  BY <1>2, <1>4 DEF Outlook
<1> QED
  BY <1>2, <1>3, <1>5, Quiet

LEMMA StartAgreed ==
  ASSUME TypeOK, TypeOK', NEW s \in Server, Start(s), Grows, NEW p \in Player, Agreed(p)
  PROVE  Agreed(p)'
<1>1. calls' = calls /\ db' = db /\ rooms' = rooms /\ inbox' = inbox
  BY DEF Start, copies
<1> QED
  BY <1>1, SameCalls, Quiet DEF Outlook

\* What a copy says of p when it has heard about him.
LEMMA HeardOfHim ==
  ASSUME NEW v \in View, v # NoRoom, NEW m \in Message, m.kind \in MemberKinds,
         NEW p \in Player, m.player = p
  PROVE  /\ Heard(v, p, m) # NoRoom
         /\ Heard(v, p, m).persistent = v.persistent
         /\ p \in Heard(v, p, m).banned <=>
              m.kind = "ban" \/ (m.kind # "unban" /\ p \in v.banned)
         /\ p \in Heard(v, p, m).members <=>
              m.kind = "join" \/ (m.kind = "unban" /\ p \in v.members)
<1>1. v \in Room /\ m.kind \notin RoomWide /\ m.kind \notin {"created", "destroyed"}
  BY DEF View, MemberKinds, RoomWide
<1>2. Alike(v, Heard(v, p, m))
  BY <1>1, HeardAlike
<1>3. /\ p \in Heard(v, p, m).banned <=>
           m.kind = "ban" \/ (m.kind # "unban" /\ p \in v.banned)
      /\ p \in Heard(v, p, m).members <=>
           m.kind = "join" \/ (m.kind = "unban" /\ p \in v.members)
  BY <1>1, RoomsAssumption DEF Heard, MemberKinds, Room
<1> QED
  BY <1>2, <1>3 DEF Alike

\* What happens to the calls in an operation on a player.
LEMMA MemberCalls ==
  ASSUME TypeOK, NEW s \in Server, NEW m \in Message, MemberChange(s, m)
  PROVE  \/ calls' = calls /\ Tells(s, m)
         \/ \E c \in Call : /\ Asks(s, m) /\ Adds(s, c) /\ News(c) = m
                            /\ c.op = m.kind /\ c.player = m.player /\ ~c.done
                            /\ m.kind \in {"ban", "unban"}
<1>1. CASE Tells(s, m)
  BY <1>1 DEF Tells
<1>2. CASE Asks(s, m) /\ m.kind \in {"ban", "unban"}
  <2> DEFINE c == [op |-> m.kind, player |-> m.player, done |-> FALSE]
  <2>1. c \in Call /\ c.op = m.kind /\ c.player = m.player /\ ~c.done
    BY <1>2 DEF Call, Message
  <2>2. Adds(s, c)
    BY <1>2 DEF Asks, Adds
  <2>3. News(c) = m
    BY DEF News, Message
  <2> HIDE DEF c
  <2> QED
    BY <1>2, <2>1, <2>2, <2>3
<1> QED
  BY <1>1, <1>2 DEF MemberChange

\* An operation on another player is nothing to p.
LEMMA OthersAgreed ==
  ASSUME TypeOK, TypeOK', Phases, Grows, NEW s \in Server, NEW m \in Message,
         MemberChange(s, m), NEW p \in Player, p # m.player, Agreed(p)
  PROVE  Agreed(p)'
<1>1. \A t \in Server : Outlook(t, p)' = Outlook(t, p)
  BY MemberOthers
<1>2. db' = db
  BY DEF MemberChange
<1>3. CASE calls' = calls
  BY <1>1, <1>2, <1>3, SameCalls, Quiet
<1>4. CASE \E c \in Call : Adds(s, c) /\ c.op \in {"ban", "unban"} /\ c.player = m.player
  <2>1. PICK c \in Call : Adds(s, c) /\ c.op \in {"ban", "unban"} /\ c.player = m.player
    BY <1>4
  <2>2. \A full \in BOOLEAN : ~Matters(c, p, full)
    BY <2>1 DEF Matters, RoomWide
  <2>3. /\ \A t \in Server, full \in BOOLEAN : Due(t, p, full)' = Due(t, p, full)
        /\ \A full \in BOOLEAN : OneCall(p, full) => OneCall(p, full)'
    BY <2>1, <2>2, OtherCall
  <2> QED
    BY <1>1, <1>2, <2>3, Quiet
<1> QED
  BY <1>3, <1>4, MemberCalls

\* The copies still have the same room.
LEMMA HisRoomAgreed ==
  ASSUME TypeOK, TypeOK', Phases, Grows, NEW s \in Server, NEW m \in Message,
         MemberChange(s, m), NEW p \in Player, Agreed(p)
  PROVE  MadeAlone(p)' /\ OneCall(p, FALSE)' /\ InStep(p, FALSE)'
<1>1. /\ \A t \in Server : Due(t, p, FALSE)' = Due(t, p, FALSE)
      /\ OneCall(p, FALSE)'
  <2>1. OneCall(p, FALSE)
    BY DEF Agreed
  <2>2. CASE calls' = calls
    BY <2>1, <2>2, SameCalls
  <2>3. CASE \E c \in Call : Adds(s, c) /\ c.op \in {"ban", "unban"}
    <3>1. PICK c \in Call : Adds(s, c) /\ c.op \in {"ban", "unban"}
      BY <2>3
    <3>2. ~Matters(c, p, FALSE)
      BY <3>1 DEF Matters, RoomWide
    <3> QED
      BY <2>1, <3>1, <3>2, OtherCall
  <2> QED
    BY <2>2, <2>3, MemberCalls
<1>2. \A t \in Server : Alike(Outlook(t, p), Outlook(t, p)')
  BY MemberAlike
<1>3. InStep(p, FALSE)'
  <2>1. \A t \in Server : Like(FALSE, Outlook(t, p), Outlook(t, p)')
    BY <1>2 DEF Like
  <2>2. Carried(p, FALSE)
    BY <1>1 DEF Carried
  <2>3. InStep(p, FALSE)
    BY DEF Agreed
  <2> QED
    BY <2>1, <2>2, <2>3, StepLike DEF Grows
<1>4. MadeAlone(p)'
  BY <1>1, <1>2 DEF Agreed, MadeAlone, Alike
<1> QED
  BY <1>1, <1>3, <1>4

\* What becomes of the outlooks on p when he is operated on and nothing else is
\* under way about him.
LEMMA HisOutlooks ==
  ASSUME TypeOK, Phases, NEW s \in Server, NEW m \in Message, MemberChange(s, m),
         NEW p \in Player, p = m.player, p \notin About(Unheard(s)), NEW t \in Server
  PROVE  \/ Outlook(t, p)' = Heard(Outlook(t, p), p, m)
         \/ Tells(s, m) /\ t \in renewed /\ Outlook(t, p)' = NoRoom
         \/ Asks(s, m) /\ t # s /\ Outlook(t, p)' = Outlook(t, p)
<1>1. CASE t = s
  BY <1>1, MemberOwn
<1>2. CASE t # s
  <2>1. rooms'[t] = rooms[t]
    BY <1>2, Typed DEF MemberChange, Copies
  <2>2. CASE Tells(s, m)
    <3>1. t \in Server \ {s} /\ Publish(s, m.kind, m.player)
      BY <1>2, <2>2 DEF Tells
    <3>2. phase[t] = "down" => t \in renewed
      BY DEF Phases
    <3> QED
      BY <2>1, <2>2, <3>1, <3>2, TellsOthers
  <2>3. CASE Asks(s, m)
    BY <1>2, <2>1, <2>3 DEF Asks, Outlook
  <2> QED
    BY <2>2, <2>3 DEF MemberChange
<1> QED
  BY <1>1, <1>2

\* The first call that matters to p is the only one.
LEMMA DueOnly ==
  ASSUME TypeOK, NEW s \in Server, NEW c \in Call, Adds(s, c), NEW p \in Player,
         NEW full \in BOOLEAN, Matters(c, p, full),
         \A t \in Server : Due(t, p, full) = {}
  PROVE  \A t \in Server : Due(t, p, full)' = IF t = s THEN {c} ELSE {}
<1>1. Due(s, p, full)' = Due(s, p, full) \cup {c}
  BY ItsDue
<1>2. ASSUME NEW t \in Server, t # s
      PROVE  Due(t, p, full)' = Due(t, p, full)
  BY <1>2, OthersDue
<1> QED
  BY <1>1, <1>2

\* The server that operates on p, and the others if they have the room, know
\* whether he is banned.
LEMMA AllKnow ==
  ASSUME TypeOK, Phases, NEW s \in Server, NEW m \in Message, MemberChange(s, m),
         NEW p \in Player, p = m.player, p \notin About(Unheard(s)), InStep(p, TRUE),
         NEW t \in Server, Outlook(t, p) # NoRoom
  PROVE  p \in Outlook(t, p).banned <=> p \in rooms[s].banned
<1>1. Here(s) /\ rooms[s] \in Room
  BY CopyTyped DEF MemberChange, Here, View
<1>2. Outlook(s, p) = Seen(rooms[s], p)
  BY MemberOwn
<1>3. Outlook(s, p) # NoRoom /\ (p \in Outlook(s, p).banned <=> p \in rooms[s].banned)
  <2>1. rooms[s] # NoRoom /\ rooms[s] \in View
    BY <1>1 DEF Here, View
  <2>2. Seen(rooms[s], p) # NoRoom
    BY <2>1, SeenTyped
  <2>3. Seen(rooms[s], p).banned = rooms[s].banned \cap {p}
    BY <2>1 DEF Seen
  <2> QED
    BY <1>2, <2>2, <2>3
<1>4. \A u \in Server : Due(u, p, TRUE) = {}
  BY Unraced
<1>5. CASE t # s
  BY <1>3, <1>4, <1>5 DEF InStep, Match
<1> QED
  BY <1>3, <1>5

\* The copies agree on him ...
LEMMA HeAgreed ==
  ASSUME TypeOK, TypeOK', Phases, NEW s \in Server, NEW m \in Message, MemberChange(s, m),
         renewed' = renewed, NEW p \in Player, p = m.player, p \notin About(Unheard(s)),
         OneCall(p, TRUE), InStep(p, TRUE), Apart(p)
  PROVE  OneCall(p, TRUE)' /\ InStep(p, TRUE)' /\ Apart(p)'
<1>1. \A t \in Server : Due(t, p, TRUE) = {}
  BY Unraced
<1>2. m.kind \in MemberKinds /\ m.kind # "created"
  BY DEF MemberChange, MemberKinds
<1>3. OneCall(p, TRUE)' /\ InStep(p, TRUE)'
  <2>1. CASE calls' = calls /\ Tells(s, m)
    <3>1. OneCall(p, TRUE)' /\ \A t \in Server : Due(t, p, TRUE)' = {}
      BY <1>1, <2>1, SameCalls
    <3>2. ASSUME NEW t \in Server
          PROVE  \/ Outlook(t, p)' = Heard(Outlook(t, p), p, m)
                 \/ t \in renewed /\ Outlook(t, p)' = NoRoom
      <4>1. ~Asks(s, m)
        <5>1. calls[s] \in Seq(Call) /\ calls \in [Server -> Seq(Call)]
          BY Typed DEF CallLists
        <5> DEFINE c == [op |-> m.kind, player |-> m.player, done |-> FALSE]
        <5>2. SUFFICES ASSUME calls' = [calls EXCEPT ![s] = Append(@, c)]
                       PROVE  FALSE
          BY DEF Asks
        <5> HIDE DEF c
        <5>3. calls[s] = Append(calls[s], c)
          BY <2>1, <5>1, <5>2
        <5>4. Len(Append(calls[s], c)) = Len(calls[s]) + 1 /\ Len(calls[s]) \in Nat
          BY <5>1
        <5> QED
          BY <5>3, <5>4
      <4> QED
        BY <4>1, HisOutlooks
    <3> QED
      BY <1>1, <1>2, <3>1, <3>2, StepTold
  <2>2. CASE \E c \in Call : Asks(s, m) /\ Adds(s, c) /\ News(c) = m /\ c.op = m.kind
                             /\ c.player = m.player /\ m.kind \in {"ban", "unban"}
    <3>1. PICK c \in Call : /\ Asks(s, m) /\ Adds(s, c) /\ News(c) = m /\ c.op = m.kind
                            /\ c.player = m.player /\ m.kind \in {"ban", "unban"}
      BY <2>2
    <3>2. Matters(c, p, TRUE)
      BY <3>1 DEF Matters
    <3>3. OneCall(p, TRUE)'
      BY <1>1, <3>1, OneCallAsked
    <3>4. Adds(s, c) /\ TRUE \in BOOLEAN
      BY <3>1
    <3>5. \A t \in Server : Due(t, p, TRUE)' = IF t = s THEN {c} ELSE {}
      BY <1>1, <3>2, <3>4, DueOnly
    <3>6. Outlook(s, p)' = Heard(Outlook(s, p), p, m)
      BY MemberOwn
    <3>7. ASSUME NEW t \in Server \ {s} PROVE Outlook(t, p)' = Outlook(t, p)
      <4>1. rooms'[t] = rooms[t] /\ inbox' = inbox
        BY <3>1, Typed DEF MemberChange, Copies, Asks
      <4> QED
        BY <4>1 DEF Outlook
    <3>8. InStep(p, TRUE)'
      <4>2. News(c) \in Message /\ c.op # "created"
        BY <3>1
      <4>3. Outlook(s, p)' = Heard(Outlook(s, p), p, News(c))
        BY <3>1, <3>6
      <4> QED
        BY <1>1, <3>5, <3>7, <4>2, <4>3, StepAsked
    <3> QED
      BY <3>3, <3>8
  <2> QED
    BY <2>1, <2>2, MemberCalls
<1>4. Apart(p)'
  <2> SUFFICES ASSUME NEW t \in Server, Outlook(t, p)' # NoRoom
               PROVE  ~(p \in Outlook(t, p)'.members /\ p \in Outlook(t, p)'.banned)
    BY DEF Apart
  <2>1. CASE Outlook(t, p)' = Outlook(t, p)
    BY <2>1 DEF Apart
  <2>2. CASE Outlook(t, p)' = Heard(Outlook(t, p), p, m)
    <3>1. Outlook(t, p) \in View
      BY OutlookTyped
    <3>2. Outlook(t, p) # NoRoom
      BY <1>2, <2>2, <3>1 DEF Heard
    <3>3. /\ p \in Outlook(t, p)'.banned <=>
               m.kind = "ban" \/ (m.kind # "unban" /\ p \in Outlook(t, p).banned)
          /\ p \in Outlook(t, p)'.members <=>
               m.kind = "join" \/ (m.kind = "unban" /\ p \in Outlook(t, p).members)
      BY <1>2, <2>2, <3>1, <3>2, HeardOfHim
    <3>4. m.kind = "join" => p \notin Outlook(t, p).banned
      BY <3>2, AllKnow DEF MemberChange
    <3> QED
      BY <3>2, <3>3, <3>4
  <2> QED
    BY <2>1, <2>2, HisOutlooks
<1> QED
  BY <1>3, <1>4

\* ... and with the database.
LEMMA HeKept ==
  ASSUME TypeOK, TypeOK', Phases, NEW s \in Server, NEW m \in Message, MemberChange(s, m),
         NEW p \in Player, p = m.player, p \notin About(Unheard(s)),
         p \notin BannedUnsaved(s), InStep(p, TRUE), Kept(p)
  PROVE  Kept(p)'
<1>1. \A t \in Server : Due(t, p, TRUE) = {}
  BY Unraced
<1>2. m.kind \in MemberKinds /\ m.kind # "created" /\ db' = db /\ Here(s)
  BY DEF MemberChange, MemberKinds
<1>3. rooms[s] \in Room
  BY <1>2, CopyTyped DEF View, Here
<1>4. CASE calls' = calls /\ Tells(s, m)
  <2>1. /\ m.kind = "ban" => p \in rooms[s].banned
        /\ m.kind # "unban"
    <3>1. p \in rooms[s].banned <=> p \in rooms'[s].banned
      BY <1>2, <1>4 DEF BannedUnsaved
    <3>2. rooms'[s] = Changed(rooms[s], m)
      BY Typed DEF MemberChange, Copies
    <3>3. m.kind = "ban" => p \in Changed(rooms[s], m).banned
      BY <1>2, <1>3 DEF Changed, Room, Here, MemberKinds
    <3>4. m.kind = "unban" => p \notin Changed(rooms[s], m).banned
      BY <1>2, <1>3 DEF Changed, Room, Here, MemberKinds
    <3>5. m.kind = "unban" => p \in rooms[s].banned
      BY DEF MemberChange
    <3> QED
      BY <3>1, <3>2, <3>3, <3>4, <3>5
  <2>2. \A t \in Server : Due(t, p, TRUE)' = {}
    BY <1>1, <1>4, SameCalls
  <2>3. ASSUME db # NoRoom, NEW t \in Server, Outlook(t, p)' # NoRoom, Outlook(t, p)'.persistent
        PROVE  p \in Outlook(t, p)'.banned <=> p \in db.banned
    <3>1. Outlook(t, p) \in View
      BY OutlookTyped
    <3>2. Alike(Outlook(t, p), Outlook(t, p)')
      BY MemberAlike
    <3>3. Outlook(t, p) # NoRoom /\ Outlook(t, p).persistent
      BY <2>3, <3>2 DEF Alike
    <3>4. p \in Outlook(t, p).banned <=> p \in db.banned
      BY <1>1, <2>3, <3>3 DEF Kept
    <3>5. CASE Outlook(t, p)' = Outlook(t, p)
      BY <3>4, <3>5
    <3>6. CASE Outlook(t, p)' = Heard(Outlook(t, p), p, m)
      <4>1. p \in Outlook(t, p)'.banned <=>
               m.kind = "ban" \/ (m.kind # "unban" /\ p \in Outlook(t, p).banned)
        BY <1>2, <3>1, <3>3, <3>6, HeardOfHim
      <4>2. p \in Outlook(t, p).banned <=> p \in rooms[s].banned
        BY <3>3, AllKnow
      <4> QED
        BY <2>1, <3>4, <4>1, <4>2
    <3> QED
      BY <2>3, <3>5, <3>6, HisOutlooks
  <2> QED
    BY <1>2, <2>2, <2>3 DEF Kept
<1>5. CASE \E c \in Call : Adds(s, c) /\ c.op = m.kind /\ c.player = m.player /\ ~c.done
                           /\ m.kind \in {"ban", "unban"}
  <2>1. PICK c \in Call : Adds(s, c) /\ c.op = m.kind /\ c.player = m.player /\ ~c.done
                          /\ m.kind \in {"ban", "unban"}
    BY <1>5
  <2>2. Matters(c, p, TRUE)
    BY <2>1 DEF Matters
  <2>3. Adds(s, c)
    BY <2>1
  <2>4. \A t \in Server : Due(t, p, TRUE)' = IF t = s THEN {c} ELSE {}
    BY <1>1, <2>2, <2>3, DueOnly
  <2>5. Outlook(s, p)' # NoRoom => (p \in Outlook(s, p)'.banned <=> m.kind = "ban")
    <3>1. Outlook(s, p)' = Heard(Outlook(s, p), p, m) /\ Outlook(s, p) \in View
      BY MemberOwn, OutlookTyped
    <3>2. Outlook(s, p) # NoRoom
      <4>1. Outlook(s, p) = Seen(rooms[s], p)
        BY MemberOwn
      <4> QED
        BY <1>2, <1>3, <4>1, SeenTyped DEF View, Here
    <3> QED
      BY <1>2, <2>1, <3>1, <3>2, HeardOfHim
  <2>6. ASSUME NEW t \in Server, NEW d, d \in Due(t, p, TRUE)' PROVE t = s /\ d = c
    <3>1. CASE t = s
      <4>1. Due(t, p, TRUE)' = {c}
        BY <2>4, <3>1
      <4> QED
        BY <2>6, <3>1, <4>1
    <3>2. CASE t # s
      <4>1. Due(t, p, TRUE)' = {}
        BY <2>4, <3>2
      <4> QED
        BY <2>6, <4>1
    <3> QED
      BY <3>1, <3>2
  <2>7. ~ \A t \in Server : Due(t, p, TRUE)' = {}
    BY <2>4
  <2> QED
    BY <2>1, <2>5, <2>6, <2>7 DEF Kept
<1> QED
  BY <1>4, <1>5, MemberCalls

LEMMA MemberAgreed ==
  ASSUME TypeOK, TypeOK', Phases, NEW s \in Server, NEW q \in Player, MemberStep(s, q),
         contested' = contested \cup Raced(s, q), unsaved' = unsaved \cup BannedUnsaved(s),
         renewed' = renewed, NEW p \in Player, Agreed(p)
  PROVE  Agreed(p)'
<1>1. PICK m \in Message : m.player = q /\ MemberChange(s, m)
  BY MemberStepChanges
<1>2. Grows
  BY DEF Grows
<1>3. CASE p # q
  BY <1>1, <1>2, <1>3, OthersAgreed
<1>4. CASE p = q
  <2>1. MadeAlone(p)' /\ OneCall(p, FALSE)' /\ InStep(p, FALSE)'
    BY <1>1, <1>2, HisRoomAgreed
  <2>2. ASSUME p \notin contested' PROVE p \notin contested /\ p \notin About(Unheard(s))
    BY <1>4, <2>2 DEF Raced
  <2>3. ASSUME p \notin contested' PROVE OneCall(p, TRUE)' /\ InStep(p, TRUE)' /\ Apart(p)'
    <3>1. OneCall(p, TRUE) /\ InStep(p, TRUE) /\ Apart(p)
      BY <2>2, <2>3 DEF Agreed
    <3> QED
      BY <1>1, <1>4, <2>2, <2>3, <3>1, HeAgreed
  <2>4. ASSUME p \notin contested' \cup unsaved' PROVE Kept(p)'
    <3>1. InStep(p, TRUE) /\ Kept(p) /\ p \notin BannedUnsaved(s) /\ p \notin About(Unheard(s))
      BY <2>2, <2>4 DEF Agreed
    <3> QED
      BY <1>1, <1>4, <3>1, HeKept
  <2> QED
    BY <2>1, <2>3, <2>4 DEF Agreed
<1> QED
  BY <1>3, <1>4

-----------------------------------------------------------------------------
(* The database.                                                           *)

LEMMA EffectOther ==
  ASSUME db \in Stored \cup {NoRoom}, NEW c \in Call, NEW p \in Player, ~Matters(c, p, TRUE),
         Effect(c) # NoRoom
  PROVE  db # NoRoom /\ (p \in Effect(c).banned <=> p \in db.banned)
<1>1. c.op \in {"ban", "unban", "mod", "unmod"}
  BY DEF Matters, RoomWide, Call
<1>2. c.op \in {"ban", "unban"} => c.player # p
  BY DEF Matters
<1>3. db # NoRoom /\ db \in Stored
  BY <1>1 DEF Effect
<1> QED
  BY <1>1, <1>2, <1>3 DEF Effect, Stored

LEMMA EffectOwn ==
  ASSUME db \in Stored \cup {NoRoom}, NEW c \in Call, NEW p \in Player, Matters(c, p, TRUE),
         Effect(c) # NoRoom
  PROVE  c.op # "destroyed" /\ (p \in Effect(c).banned <=> c.op = "ban")
<1>1. c.op \in {"created", "destroyed", "ban", "unban"}
  BY DEF Matters, RoomWide
<1>2. c.op \in {"ban", "unban"} => c.player = p
  BY DEF Matters, RoomWide
<1>3. CASE c.op = "created"
  BY <1>3 DEF Effect
<1>4. CASE c.op # "created"
  <2>1. db # NoRoom /\ db \in Stored /\ c.op \in {"ban", "unban"}
    BY <1>1, <1>4 DEF Effect
  <2> QED
    BY <1>2, <2>1 DEF Effect, Stored
<1> QED
  BY <1>3, <1>4

Does(s, k) == calls' = [calls EXCEPT ![s][k].done = TRUE]

\* The calls of t that matter, and which of them has been carried out.
DueSince(t, p, full, s, k) ==
  \A c \in Due(t, p, full)' : \E i \in DOMAIN calls[t] :
    /\ calls[t][i] \in Due(t, p, full) /\ calls[t][i].op = c.op
    /\ Matters(calls[t][i], p, full)
    /\ c = calls[t][i] \/ (t = s /\ i = k)

LEMMA DueDone ==
  ASSUME TypeOK, NEW s \in Server, NEW k \in DOMAIN calls[s], Does(s, k),
         NEW p \in Player, NEW full \in BOOLEAN, NEW t \in Server
  PROVE  DueSince(t, p, full, s, k)
<1> SUFFICES ASSUME NEW c, c \in Due(t, p, full)'
             PROVE  \E i \in DOMAIN calls[t] :
                      /\ calls[t][i] \in Due(t, p, full) /\ calls[t][i].op = c.op
                      /\ Matters(calls[t][i], p, full)
                      /\ c = calls[t][i] \/ (t = s /\ i = k)
  BY DEF DueSince
<1>1. PICK i \in DOMAIN calls'[t] : c = calls'[t][i]
  BY DEF Due, Range
<1>2. /\ i \in DOMAIN calls[t]
      /\ c.op = calls[t][i].op /\ c.player = calls[t][i].player
      /\ ~(t = s /\ i = k) => c = calls[t][i]
  BY <1>1, CallDone DEF Does
<1>3. Matters(c, p, full)
  BY DEF Due
<1>4. Matters(calls[t][i], p, full)
  BY <1>2, <1>3 DEF Matters
<1> QED
  BY <1>2, <1>4 DEF Due, Range

LEMMA ConcernedBy ==
  ASSUME NEW cs, NEW c \in cs, NEW p \in Player, Matters(c, p, TRUE)
  PROVE  p \in Concerned(cs)
<1> DEFINE news == {<<d.op, d.player>> : d \in {d \in cs : d.op \notin {"mod", "unmod"}}}
<1>1. c.op \in RoomWide \/ (c.op \in {"ban", "unban"} /\ c.player = p)
  BY DEF Matters
<1>2. <<c.op, c.player>> \in news
  BY <1>1 DEF RoomWide
<1>3. <<c.op, c.player>>[1] = c.op /\ <<c.op, c.player>>[2] = c.player
  OBVIOUS
<1> HIDE DEF news
<1>4. p \in About(news)
  BY <1>1, <1>2, <1>3 DEF About
<1> QED
  BY <1>4 DEF news, Concerned

LEMMA ExecuteKept ==
  ASSUME TypeOK, NEW s \in Server, NEW k, NEW ok \in BOOLEAN, Execute(s, k, ok),
         unsaved' = unsaved \cup Concerned(InVain(s)),
         NEW p \in Player, p \notin unsaved', OneCall(p, TRUE), Kept(p)
  PROVE  Kept(p)'
<1>1. /\ k \in DOMAIN calls[s] /\ calls' = [calls EXCEPT ![s][k].done = TRUE]
      /\ db \in Stored \cup {NoRoom}
  BY DEF Execute, TypeOK
<1>2. \A t \in Server : Outlook(t, p)' = Outlook(t, p)
  BY DEF Execute, copies, Outlook
<1>3. calls[s] \in Seq(Call) /\ calls[s][k] \in Call
  BY <1>1, CopyTyped
<1>4. PICK c0 \in Call : c0 = calls[s][k]
  BY <1>3
<1>5. Matters(c0, p, TRUE) => db' = Effect(c0)
  <2> SUFFICES ASSUME Matters(c0, p, TRUE), db' = db PROVE FALSE
    BY <1>4 DEF Execute
  <2>1. Len(calls'[s]) = Len(calls[s]) /\ calls'[s][k] # calls[s][k]
    <3>1. calls'[s] = [calls[s] EXCEPT ![k].done = TRUE]
      BY <1>1, Typed DEF CallLists
    <3>2. Len(calls'[s]) = Len(calls[s])
      BY <1>1, <1>3, <3>1
    <3>3. calls'[s][k].done = TRUE /\ ~calls[s][k].done
      BY <1>1, <1>3, <3>1 DEF Execute, Call
    <3> QED
      BY <3>2, <3>3
  <2>2. c0 \in InVain(s)
    BY <1>1, <1>4, <2>1 DEF InVain
  <2> QED
    BY <2>2, ConcernedBy
<1>6. ~Matters(c0, p, TRUE) /\ db' # NoRoom =>
        db # NoRoom /\ (p \in db'.banned <=> p \in db.banned)
  BY <1>1, <1>4, EffectOther DEF Execute
<1>7. ASSUME db' # NoRoom, \A t \in Server : Due(t, p, TRUE)' = {},
             NEW t \in Server, Outlook(t, p)' # NoRoom, Outlook(t, p)'.persistent
      PROVE  p \in Outlook(t, p)'.banned <=> p \in db'.banned
  <2>1. \A u \in Server : Due(u, p, TRUE) = {}
    <3>1. Carried(p, TRUE)
      BY <1>1, DoneCarried
    <3> QED
      BY <1>7, <3>1 DEF Carried
  <2>2. ~Matters(c0, p, TRUE)
    BY <1>1, <1>4, <2>1 DEF Due, Range
  <2>3. Outlook(t, p) # NoRoom /\ Outlook(t, p).persistent /\ db # NoRoom
    BY <1>2, <1>6, <1>7, <2>2
  <2>4. p \in Outlook(t, p).banned <=> p \in db.banned
    BY <2>1, <2>3 DEF Kept
  <2> QED
    BY <1>2, <1>6, <1>7, <2>2, <2>4
<1>8. ASSUME NEW t \in Server, NEW c, c \in Due(t, p, TRUE)'
      PROVE  /\ Outlook(t, p)' # NoRoom /\ c.op # "destroyed" =>
                  (p \in Outlook(t, p)'.banned <=> c.op = "ban")
             /\ c.done /\ db' # NoRoom =>
                  c.op # "destroyed" /\ (p \in db'.banned <=> c.op = "ban")
  <2>1. PICK i \in DOMAIN calls[t] :
              /\ calls[t][i] \in Due(t, p, TRUE) /\ calls[t][i].op = c.op
              /\ Matters(calls[t][i], p, TRUE)
              /\ c = calls[t][i] \/ (t = s /\ i = k)
    <3>1. Does(s, k) /\ k \in DOMAIN calls[s] /\ TRUE \in BOOLEAN
      BY <1>1 DEF Does
    <3>2. DueSince(t, p, TRUE, s, k)
      BY <3>1, DueDone
    <3> QED
      BY <1>8, <3>2 DEF DueSince
  <2>2. Outlook(t, p)' # NoRoom /\ c.op # "destroyed" =>
          (p \in Outlook(t, p)'.banned <=> c.op = "ban")
    BY <1>2, <2>1 DEF Kept
  <2>3. CASE Matters(c0, p, TRUE)
    <3>1. t = s /\ i = k
      BY <1>1, <1>4, <2>1, <2>3 DEF OneCall
    <3>2. c.op = c0.op /\ db' = Effect(c0)
      BY <1>4, <1>5, <2>1, <2>3, <3>1
    <3> QED
      BY <1>1, <2>2, <2>3, <3>2, EffectOwn
  <2>4. CASE ~Matters(c0, p, TRUE)
    <3>1. c = calls[t][i] /\ c \in Due(t, p, TRUE)
      BY <1>4, <2>1, <2>4
    <3>2. c.done /\ db # NoRoom => c.op # "destroyed" /\ (p \in db.banned <=> c.op = "ban")
      BY <3>1 DEF Kept
    <3> QED
      BY <1>6, <2>2, <2>4, <3>2
  <2> QED
    BY <2>3, <2>4
<1> QED
  BY <1>7, <1>8 DEF Kept

LEMMA ExecuteAgreed ==
  ASSUME TypeOK, TypeOK', NEW s \in Server, NEW k, NEW ok \in BOOLEAN, Execute(s, k, ok), Grows,
         unsaved' = unsaved \cup Concerned(InVain(s)), NEW p \in Player, Agreed(p)
  PROVE  Agreed(p)'
<1>1. k \in DOMAIN calls[s] /\ calls' = [calls EXCEPT ![s][k].done = TRUE]
  BY DEF Execute
<1>2. \A t \in Server : Outlook(t, p)' = Outlook(t, p)
  BY DEF Execute, copies, Outlook
<1>3. ASSUME NEW full \in BOOLEAN
      PROVE  Carried(p, full) /\ (OneCall(p, full) => OneCall(p, full)')
  BY <1>1, DoneCarried
<1>4. ASSUME NEW full \in BOOLEAN, InStep(p, full) PROVE InStep(p, full)'
  <2>1. \A t \in Server : Like(full, Outlook(t, p), Outlook(t, p)')
    BY <1>2 DEF Like, Alike
  <2> QED
    BY <1>3, <1>4, <2>1, StepLike DEF Grows
<1>5. MadeAlone(p)'
  <2> SUFFICES ASSUME NEW t \in Server, NEW c, c \in Due(t, p, FALSE)', c.op = "created",
                      NEW u \in Server \ {t}
               PROVE  Outlook(u, p)' = NoRoom
    BY DEF MadeAlone
  <2>1. PICK i \in DOMAIN calls[t] :
              calls[t][i] \in Due(t, p, FALSE) /\ calls[t][i].op = c.op
    <3>1. Does(s, k) /\ k \in DOMAIN calls[s] /\ FALSE \in BOOLEAN
      BY <1>1 DEF Does
    <3>2. DueSince(t, p, FALSE, s, k)
      BY <3>1, DueDone
    <3> QED
      BY <3>2 DEF DueSince
  <2> QED
    BY <1>2, <2>1 DEF Agreed, MadeAlone
<1>6. ASSUME p \notin contested' PROVE OneCall(p, TRUE) /\ InStep(p, TRUE) /\ Apart(p)
  BY <1>6 DEF Agreed, Grows
<1>7. ASSUME p \notin contested' PROVE OneCall(p, TRUE)' /\ InStep(p, TRUE)' /\ Apart(p)'
  <2>1. Apart(p)'
    BY <1>2, <1>6, <1>7 DEF Apart
  <2> QED
    BY <1>3, <1>4, <1>6, <1>7, <2>1
<1>8. ASSUME p \notin contested' \cup unsaved' PROVE Kept(p)'
  <2>1. Kept(p) /\ p \notin unsaved' /\ OneCall(p, TRUE)
    BY <1>6, <1>8 DEF Agreed, Grows
  <2> QED
    BY <2>1, ExecuteKept
<1>9. OneCall(p, FALSE)' /\ InStep(p, FALSE)'
  BY <1>3, <1>4 DEF Agreed
<1> QED
  BY <1>5, <1>7, <1>8, <1>9 DEF Agreed

\* What a server and the others make of the answer to its call.
LEMMA AnswerOutlooks ==
  ASSUME TypeOK, Phases, NEW s \in Server, NEW k, Resume(s, k),
         NEW c \in Call, c = calls[s][k], c.op \notin {"mod", "unmod"}, NEW p \in Player
  PROVE  /\ Outlook(s, p)' = Outlook(s, p)
         /\ News(c) \in Message /\ News(c).kind = c.op /\ News(c).player = c.player
         /\ \A t \in Server \ {s} :
              \/ Outlook(t, p)' = Heard(Outlook(t, p), p, News(c))
              \/ t \in renewed /\ Outlook(t, p)' = NoRoom /\ Outlook(t, p) = NoRoom
<1>1. News(c) \in Message /\ News(c).kind = c.op /\ News(c).player = c.player
  BY DEF Call, Message, News
<1>2. rooms' = rooms
  BY DEF Resume, copies
<1>3. Publish(s, News(c).kind, News(c).player)
  BY <1>1 DEF Resume
<1>4. Outlook(s, p)' = Outlook(s, p)
  <2>1. inbox'[s] = inbox[s]
    BY <1>3 DEF Publish
  <2> QED
    BY <1>2, <2>1 DEF Outlook
<1>5. ASSUME NEW t \in Server \ {s}
      PROVE  \/ Outlook(t, p)' = Heard(Outlook(t, p), p, News(c))
             \/ t \in renewed /\ Outlook(t, p)' = NoRoom /\ Outlook(t, p) = NoRoom
  <2>1. PICK m \in Message : m = News(c)
    BY <1>1
  <2>2. Publish(s, m.kind, m.player) /\ rooms'[t] = rooms[t]
    BY <1>2, <1>3, <2>1
  <2>3. \/ Outlook(t, p)' = Heard(Outlook(t, p), p, m)
        \/ phase[t] = "down" /\ Outlook(t, p)' = NoRoom /\ Outlook(t, p) = NoRoom
    BY <2>2, TellsOthers
  <2>4. phase[t] = "down" => t \in renewed
    BY DEF Phases
  <2> QED
    BY <2>1, <2>3, <2>4
<1> QED
  BY <1>1, <1>4, <1>5

\* An answer that does not matter to p.
LEMMA OthersAnswered ==
  ASSUME TypeOK, TypeOK', Phases, Grows, NEW s \in Server, NEW k, Resume(s, k),
         NEW p \in Player, ~Matters(calls[s][k], p, TRUE), Agreed(p)
  PROVE  Agreed(p)'
<1>1. k \in DOMAIN calls[s] /\ calls' = [calls EXCEPT ![s] = RemoveAt(@, k)] /\ db' = db
  BY DEF Resume, Rest
<1>2. PICK c \in Call : c = calls[s][k]
  BY <1>1, CopyTyped
<1>3. \A full \in BOOLEAN : ~Matters(calls[s][k], p, full)
  BY DEF Matters
<1>4. ASSUME NEW t \in Server PROVE Outlook(t, p)' = Outlook(t, p)
  <2>1. CASE c.op \in {"mod", "unmod"}
    BY <1>2, <2>1 DEF Resume, copies, Outlook
  <2>2. CASE c.op \notin {"mod", "unmod"}
    <3>1. /\ Outlook(s, p)' = Outlook(s, p)
          /\ News(c) \in Message /\ News(c).kind = c.op /\ News(c).player = c.player
          /\ t # s => \/ Outlook(t, p)' = Heard(Outlook(t, p), p, News(c))
                      \/ t \in renewed /\ Outlook(t, p)' = NoRoom /\ Outlook(t, p) = NoRoom
      BY <1>2, <2>2, AnswerOutlooks
    <3>2. c.op \notin RoomWide /\ c.player # p
      BY <1>2, <2>2 DEF Matters, RoomWide, Call
    <3>3. Heard(Outlook(t, p), p, News(c)) = Outlook(t, p)
      BY <3>1, <3>2, OutlookTyped, HeardOther
    <3> QED
      BY <3>1, <3>3
  <2> QED
    BY <2>1, <2>2
<1>5. ASSUME NEW full \in BOOLEAN
      PROVE  /\ \A t \in Server : Due(t, p, full)' = Due(t, p, full)
             /\ OneCall(p, full) => OneCall(p, full)'
  <2>1. Answers(s, k)
    BY <1>1 DEF Answers
  <2>2. \A t \in Server : Due(t, p, full)' = Due(t, p, full)
    BY <1>1, <1>3, <2>1, DueAsBefore
  <2>3. OneCall(p, full) => OneCall(p, full)'
    BY <1>1, OneCallAnswered
  <2> QED
    BY <2>2, <2>3
<1> QED
  BY <1>1, <1>4, <1>5, Quiet

\* The copies stay in step when p hears of an answer that matters to him ...
LEMMA AnsweredInStep ==
  ASSUME TypeOK, TypeOK', Phases, NEW s \in Server, NEW k, Resume(s, k), renewed' = renewed,
         NEW p \in Player, NEW full \in BOOLEAN, Matters(calls[s][k], p, full),
         MadeAlone(p), OneCall(p, full), InStep(p, full)
  PROVE  /\ OneCall(p, full)' /\ InStep(p, full)'
         /\ \A t \in Server : Due(t, p, full)' = {}
         /\ calls[s][k] \in Due(s, p, full)
<1>1. k \in DOMAIN calls[s] /\ calls' = [calls EXCEPT ![s] = RemoveAt(@, k)]
  BY DEF Resume
<1>2. PICK c \in Call : c = calls[s][k]
  BY <1>1, CopyTyped
<1>3. ASSUME NEW t \in Server
      PROVE  Due(t, p, full)' = {} /\ Due(t, p, full) = IF t = s THEN {c} ELSE {}
  <2>1. Answers(s, k)
    BY <1>1 DEF Answers
  <2> QED
    BY <1>1, <1>2, <2>1, DueNoMore
<1>4. c.op \notin {"mod", "unmod"}
  BY <1>2 DEF Matters, RoomWide
<1>5. /\ Outlook(s, p)' = Outlook(s, p) /\ News(c) \in Message
      /\ \A t \in Server \ {s} :
           \/ Outlook(t, p)' = Heard(Outlook(t, p), p, News(c))
           \/ t \in renewed /\ Outlook(t, p)' = NoRoom
  BY <1>2, <1>4, AnswerOutlooks
<1>6. c.op = "created" => \A t \in Server \ {s} : Outlook(t, p) = NoRoom
  <2>1. c.op = "created" => c \in Due(s, p, FALSE)
    BY <1>1, <1>2 DEF Due, Matters, RoomWide, Range
  <2> QED
    BY <2>1 DEF MadeAlone
<1>7. InStep(p, full)'
  BY <1>3, <1>5, <1>6, StepAnswered
<1>8. OneCall(p, full)'
  BY <1>1, OneCallAnswered
<1> QED
  BY <1>2, <1>3, <1>7, <1>8

\* ... and have the same room when he hears of a ban.
LEMMA BanAnswered ==
  ASSUME TypeOK, TypeOK', Phases, NEW s \in Server, NEW k, Resume(s, k), renewed' = renewed,
         NEW p \in Player, Matters(calls[s][k], p, TRUE), ~Matters(calls[s][k], p, FALSE),
         MadeAlone(p), OneCall(p, FALSE), InStep(p, FALSE)
  PROVE  OneCall(p, FALSE)' /\ InStep(p, FALSE)' /\ MadeAlone(p)'
<1>1. k \in DOMAIN calls[s] /\ calls' = [calls EXCEPT ![s] = RemoveAt(@, k)]
  BY DEF Resume
<1>2. PICK c \in Call : c = calls[s][k]
  BY <1>1, CopyTyped
<1>3. c.op \in {"ban", "unban"}
  BY <1>2 DEF Matters
<1>4. \A t \in Server : Due(t, p, FALSE)' = Due(t, p, FALSE)
  <2>1. Answers(s, k) /\ FALSE \in BOOLEAN
    BY <1>1 DEF Answers
  <2> QED
    BY <1>1, <2>1, DueAsBefore
<1>5. ASSUME NEW t \in Server PROVE Alike(Outlook(t, p), Outlook(t, p)')
  <2>1. /\ Outlook(s, p)' = Outlook(s, p)
        /\ News(c) \in Message /\ News(c).kind = c.op
        /\ t # s => \/ Outlook(t, p)' = Heard(Outlook(t, p), p, News(c))
                    \/ Outlook(t, p)' = NoRoom /\ Outlook(t, p) = NoRoom
    BY <1>2, <1>3, AnswerOutlooks
  <2>2. Alike(Outlook(t, p), Heard(Outlook(t, p), p, News(c)))
    BY <1>3, <2>1, OutlookTyped, HeardAlike DEF RoomWide
  <2>3. Alike(Outlook(t, p), Outlook(t, p)) /\ Alike(NoRoom, NoRoom)
    BY DEF Alike
  <2> QED
    BY <2>1, <2>2, <2>3
<1>6. InStep(p, FALSE)'
  <2>1. Carried(p, FALSE)
    BY <1>4 DEF Carried
  <2>2. \A t \in Server : Like(FALSE, Outlook(t, p), Outlook(t, p)')
    BY <1>5 DEF Like
  <2> QED
    BY <2>1, <2>2, StepLike
<1>7. MadeAlone(p)'
  BY <1>4, <1>5 DEF MadeAlone, Alike
<1>8. OneCall(p, FALSE)'
  BY <1>1, OneCallAnswered
<1> QED
  BY <1>6, <1>7, <1>8

\* Who is in the room after a message other than a join was so before, and is
\* not banned by it.
LEMMA HeardApart ==
  ASSUME NEW v \in View, NEW p \in Player, NEW m \in Message, m.kind # "join",
         v # NoRoom => ~(p \in v.members /\ p \in v.banned),
         Heard(v, p, m) # NoRoom
  PROVE  ~(p \in Heard(v, p, m).members /\ p \in Heard(v, p, m).banned)
<1>1. CASE m.kind = "created" /\ v = NoRoom
  <2>1. Heard(v, p, m) = Seen(NewRoom(m.player, {}, FALSE), p)
    BY <1>1 DEF Heard
  <2>2. NewRoom(m.player, {}, FALSE) # NoRoom
    BY NewRoomTyped, RoomsAssumption DEF Message
  <2> QED
    BY <2>1, <2>2 DEF Seen, NewRoom
<1>2. CASE m.kind = "created" /\ v # NoRoom
  BY <1>2 DEF Heard
<1>3. CASE m.kind # "created"
  <2>1. v # NoRoom /\ v \in Room /\ m.kind # "destroyed"
    BY <1>3 DEF Heard, View
  <2>2. m.kind \in {"leave", "kick", "ban", "unban"}
    BY <1>3, <2>1 DEF Message
  <2>3. CASE m.player # p
    BY <2>1, <2>2, <2>3, HeardOther DEF RoomWide
  <2>4. CASE m.player = p
    BY <2>1, <2>2, <2>4, HeardOfHim DEF MemberKinds
  <2> QED
    BY <2>3, <2>4
<1> QED
  BY <1>1, <1>2, <1>3

LEMMA AnsweredApart ==
  ASSUME TypeOK, TypeOK', Phases, NEW s \in Server, NEW k, Resume(s, k),
         NEW p \in Player, Matters(calls[s][k], p, TRUE), Apart(p)
  PROVE  Apart(p)'
<1>1. PICK c \in Call : c = calls[s][k]
  BY CopyTyped DEF Resume
<1>2. c.op \notin {"mod", "unmod"} /\ c.op # "join"
  BY <1>1 DEF Matters, RoomWide, Call
<1>3. /\ Outlook(s, p)' = Outlook(s, p)
      /\ News(c) \in Message /\ News(c).kind = c.op
      /\ \A t \in Server \ {s} :
           Outlook(t, p)' = Heard(Outlook(t, p), p, News(c)) \/ Outlook(t, p)' = NoRoom
  BY <1>1, <1>2, AnswerOutlooks
<1> SUFFICES ASSUME NEW t \in Server, Outlook(t, p)' # NoRoom
             PROVE  ~(p \in Outlook(t, p)'.members /\ p \in Outlook(t, p)'.banned)
  BY DEF Apart
<1>4. CASE Outlook(t, p)' = Outlook(t, p)
  BY <1>4 DEF Apart
<1>5. CASE Outlook(t, p)' = Heard(Outlook(t, p), p, News(c))
  <2>1. Outlook(t, p) # NoRoom => ~(p \in Outlook(t, p).members /\ p \in Outlook(t, p).banned)
    BY DEF Apart
  <2> QED
    BY <1>2, <1>3, <1>5, <2>1, OutlookTyped, HeardApart
<1> QED
  BY <1>3, <1>4, <1>5

\* The database has what the others hear.
LEMMA AnsweredKept ==
  ASSUME TypeOK, TypeOK', Phases, NEW s \in Server, NEW k, Resume(s, k), renewed' = renewed,
         NEW p \in Player, Matters(calls[s][k], p, TRUE),
         MadeAlone(p), OneCall(p, TRUE), InStep(p, TRUE), Kept(p)
  PROVE  Kept(p)'
<1>1. PICK c \in Call : c = calls[s][k]
  BY CopyTyped DEF Resume
<1>2. /\ c \in Due(s, p, TRUE) /\ \A t \in Server : Due(t, p, TRUE)' = {}
  BY <1>1, AnsweredInStep
<1>3. c.done /\ db' = db
  BY <1>1 DEF Resume, Rest
<1>4. c.op \in {"created", "destroyed"} \/ (c.op \in {"ban", "unban"} /\ c.player = p)
  BY <1>1 DEF Matters, RoomWide
<1>5. /\ Outlook(s, p)' = Outlook(s, p)
      /\ News(c) \in Message /\ News(c).kind = c.op /\ News(c).player = c.player
      /\ \A t \in Server \ {s} :
           \/ Outlook(t, p)' = Heard(Outlook(t, p), p, News(c))
           \/ Outlook(t, p)' = NoRoom
  BY <1>1, <1>4, AnswerOutlooks
<1>6. ASSUME db # NoRoom, NEW t \in Server, Outlook(t, p)' # NoRoom, Outlook(t, p)'.persistent
      PROVE  p \in Outlook(t, p)'.banned <=> p \in db.banned
  <2>1. c.op # "destroyed" /\ (p \in db.banned <=> c.op = "ban")
    BY <1>2, <1>3, <1>6 DEF Kept
  <2>2. CASE t = s
    <3>1. p \in Outlook(s, p).banned <=> c.op = "ban"
      BY <1>2, <1>5, <1>6, <2>1, <2>2 DEF Kept
    <3> QED
      BY <1>5, <2>1, <2>2, <3>1
  <2>3. CASE t # s /\ c.op = "created"
    <3>1. c \in Due(s, p, FALSE)
      BY <1>2, <2>3 DEF Due, Matters, RoomWide
    <3>2. Outlook(t, p) = NoRoom
      BY <2>3, <3>1 DEF MadeAlone
    <3>3. Outlook(t, p)' = Seen(NewRoom(News(c).player, {}, FALSE), p)
      BY <1>5, <1>6, <2>3, <3>2 DEF Heard
    <3>4. NewRoom(News(c).player, {}, FALSE) # NoRoom
      BY <1>5, NewRoomTyped, RoomsAssumption DEF Message
    <3>5. ~Outlook(t, p)'.persistent
      BY <3>3, <3>4 DEF Seen, NewRoom
    <3> QED
      BY <1>6, <3>5
  <2>4. CASE t # s /\ c.op \in {"ban", "unban"}
    <3>1. Outlook(t, p)' = Heard(Outlook(t, p), p, News(c)) /\ Outlook(t, p) \in View
      BY <1>5, <1>6, <2>4, OutlookTyped
    <3>2. Outlook(t, p) # NoRoom
      BY <1>5, <1>6, <2>4, <3>1 DEF Heard
    <3>3. p \in Outlook(t, p)'.banned <=> c.op = "ban"
      BY <1>4, <1>5, <2>4, <3>1, <3>2, HeardOfHim DEF MemberKinds
    <3> QED
      BY <2>1, <3>3
  <2> QED
    BY <1>4, <2>1, <2>2, <2>3, <2>4
<1> QED
  BY <1>2, <1>3, <1>6 DEF Kept

LEMMA ResumeAgreed ==
  ASSUME TypeOK, TypeOK', Phases, NEW s \in Server, NEW k, Resume(s, k), Grows,
         renewed' = renewed, NEW p \in Player, Agreed(p)
  PROVE  Agreed(p)'
<1>1. CASE ~Matters(calls[s][k], p, TRUE)
  BY <1>1, OthersAnswered
<1>2. CASE Matters(calls[s][k], p, TRUE)
  <2>1. MadeAlone(p) /\ OneCall(p, FALSE) /\ InStep(p, FALSE)
    BY DEF Agreed
  <2>2. MadeAlone(p)' /\ OneCall(p, FALSE)' /\ InStep(p, FALSE)'
    <3>1. CASE Matters(calls[s][k], p, FALSE)
      <4>1. OneCall(p, FALSE)' /\ InStep(p, FALSE)' /\ \A t \in Server : Due(t, p, FALSE)' = {}
        BY <2>1, <3>1, AnsweredInStep
      <4> QED
        BY <4>1 DEF MadeAlone
    <3>2. CASE ~Matters(calls[s][k], p, FALSE)
      BY <1>2, <2>1, <3>2, BanAnswered
    <3> QED
      BY <3>1, <3>2
  <2>3. ASSUME p \notin contested'
        PROVE  OneCall(p, TRUE) /\ InStep(p, TRUE) /\ Apart(p)
    BY <2>3 DEF Agreed, Grows
  <2>4. ASSUME p \notin contested'
        PROVE  OneCall(p, TRUE)' /\ InStep(p, TRUE)' /\ Apart(p)'
    <3>1. OneCall(p, TRUE)' /\ InStep(p, TRUE)'
      BY <1>2, <2>1, <2>3, <2>4, AnsweredInStep
    <3>2. Apart(p)'
      BY <1>2, <2>3, <2>4, AnsweredApart
    <3> QED
      BY <3>1, <3>2
  <2>5. ASSUME p \notin contested' \cup unsaved' PROVE Kept(p)'
    <3>1. Kept(p)
      BY <2>5 DEF Agreed, Grows
    <3> QED
      BY <1>2, <2>1, <2>3, <2>5, <3>1, AnsweredKept
  <2> QED
    BY <2>2, <2>4, <2>5 DEF Agreed
<1> QED
  BY <1>1, <1>2

LEMMA DatabaseAgreed ==
  ASSUME TypeOK, TypeOK', Phases, NEW s \in Server, DatabaseStep(s), Grows,
         unsaved' = unsaved \cup Concerned(InVain(s)), renewed' = renewed,
         NEW p \in Player, Agreed(p)
  PROVE  Agreed(p)'
<1>1. PICK k \in DOMAIN calls[s] : Resume(s, k) \/ \E ok \in BOOLEAN : Execute(s, k, ok)
  BY DEF DatabaseStep
<1> QED
  BY <1>1, ResumeAgreed, ExecuteAgreed

-----------------------------------------------------------------------------
(* Crashes and starts.                                                     *)

LEMMA CrashAgreed ==
  ASSUME TypeOK, TypeOK', NEW s \in Server, Crash(s), Grows, renewed' = renewed \cup {s},
         unsaved' = unsaved \cup Concerned(Range(calls[s])), NEW p \in Player, Agreed(p)
  PROVE  Agreed(p)'
<1>1. calls' = [calls EXCEPT ![s] = <<>>] /\ db' = db
  BY DEF Crash
<1>2. Outlook(s, p)' = NoRoom
  <2>1. rooms'[s] = NoRoom /\ inbox'[s] = <<>>
    BY Typed DEF Crash, Copies, Inboxes
  <2>2. Settled(NoRoom, p, <<>>) = NoRoom
    <3>1. NoRoom \in View /\ inbox[s] \in Seq(Message)
      BY CopyTyped DEF View
    <3> QED
      BY <3>1, SettledTyped
  <2> QED
    BY <2>1, <2>2 DEF Outlook, Seen
<1>3. ASSUME NEW t \in Server, t # s PROVE Outlook(t, p)' = Outlook(t, p)
  <2>1. rooms'[t] = rooms[t] /\ inbox'[t] = inbox[t]
    BY <1>3, Typed DEF Crash, Copies, Inboxes
  <2> QED
    BY <2>1 DEF Outlook
<1>4. ASSUME NEW full \in BOOLEAN
      PROVE  /\ \A t \in Server : Due(t, p, full)' = IF t = s THEN {} ELSE Due(t, p, full)
             /\ OneCall(p, full) => OneCall(p, full)'
  BY <1>1, CallsLost
<1>5. ASSUME NEW full \in BOOLEAN, InStep(p, full) PROVE InStep(p, full)'
  <2>1. MadeAlone(p)
    BY DEF Agreed
  <2>2. \A t \in Server \ {s} : Outlook(t, p)' = Outlook(t, p)
    BY <1>3
  <2>3. \A t \in Server : Due(t, p, full)' = IF t = s THEN {} ELSE Due(t, p, full)
    BY <1>4
  <2> QED
    BY <1>2, <1>5, <2>1, <2>2, <2>3, StepCrashed
<1>6. MadeAlone(p)'
  <2> SUFFICES ASSUME NEW u \in Server, NEW c, c \in Due(u, p, FALSE)', c.op = "created",
                      NEW t \in Server \ {u}
               PROVE  Outlook(t, p)' = NoRoom
    BY DEF MadeAlone
  <2>1. c \in Due(u, p, FALSE)
    <3>1. Due(u, p, FALSE)' = IF u = s THEN {} ELSE Due(u, p, FALSE)
      BY <1>4
    <3> QED
      BY <3>1
  <2>2. Outlook(t, p) = NoRoom
    BY <2>1 DEF Agreed, MadeAlone
  <2> QED
    BY <1>2, <1>3, <2>2
<1>7. OneCall(p, FALSE)' /\ InStep(p, FALSE)'
  BY <1>4, <1>5 DEF Agreed
<1>8. ASSUME p \notin contested' PROVE OneCall(p, TRUE)' /\ InStep(p, TRUE)' /\ Apart(p)'
  <2>1. OneCall(p, TRUE) /\ InStep(p, TRUE) /\ Apart(p)
    BY <1>8 DEF Agreed, Grows
  <2>2. Apart(p)'
    BY <1>2, <1>3, <2>1 DEF Apart
  <2> QED
    BY <1>4, <1>5, <2>1, <2>2
<1>9. ASSUME p \notin contested' \cup unsaved' PROVE Kept(p)'
  <2>1. Kept(p)
    BY <1>9 DEF Agreed, Grows
  <2>2. Due(s, p, TRUE) = {}
    <3> SUFFICES ASSUME NEW c \in Due(s, p, TRUE) PROVE FALSE
      OBVIOUS
    <3>1. c \in Range(calls[s]) /\ Matters(c, p, TRUE)
      BY DEF Due
    <3>2. p \in Concerned(Range(calls[s]))
      BY <3>1, ConcernedBy
    <3> QED
      BY <1>9, <3>2
  <2>3. \A t \in Server : Due(t, p, TRUE)' = Due(t, p, TRUE)
    <3>1. \A t \in Server : Due(t, p, TRUE)' = IF t = s THEN {} ELSE Due(t, p, TRUE)
      BY <1>4
    <3> QED
      BY <2>2, <3>1
  <2>4. \A t \in Server : Outlook(t, p)' # NoRoom => Outlook(t, p)' = Outlook(t, p)
    BY <1>2, <1>3
  <2> QED
    BY <1>1, <2>1, <2>3, <2>4 DEF Kept
<1> QED
  BY <1>6, <1>7, <1>8, <1>9 DEF Agreed

\* Nothing about the room is under way when a server loads it.
Calm == \A t \in Server : \A n \in Unheard(t) : n[1] \notin RoomWide

LEMMA CalmInbox ==
  ASSUME TypeOK, Calm, NEW t \in Server
  PROVE  \A m \in Range(inbox[t]) : m.kind \notin RoomWide
<1> SUFFICES ASSUME NEW m \in Range(inbox[t]) PROVE m.kind \notin RoomWide
  OBVIOUS
<1>1. <<m.kind, m.player>> \in Unheard(t)
  BY DEF Unheard
<1> QED
  BY <1>1 DEF Calm

LEMMA CalmCalls ==
  ASSUME TypeOK, Calm, NEW t \in Server, NEW p \in Player
  PROVE  Due(t, p, FALSE) = {}
<1> SUFFICES ASSUME NEW c \in Due(t, p, FALSE) PROVE FALSE
  OBVIOUS
<1>1. c \in Range(calls[t]) /\ c.op \in RoomWide
  BY DEF Due, Matters
<1>2. <<c.op, c.player>> \in Unheard(t)
  BY <1>1 DEF Unheard
<1> QED
  BY <1>1, <1>2 DEF Calm

\* The room that is loaded.
LEMMA LoadedRoom ==
  ASSUME TypeOK, NEW s \in Server, Load(s), loaded[s] # NoRoom
  PROVE  \E r \in Room :
           /\ r.owner = loaded[s].owner /\ r.banned = loaded[s].banned /\ r.members = {}
           /\ \A t \in Server : rooms'[t] = IF t = s THEN r ELSE rooms[t]
<1>1. loaded[s] \in Stored
  BY DEF TypeOK
<1> DEFINE r == FromDatabase(loaded[s])
<1>2. /\ r \in Room
      /\ r.owner = loaded[s].owner /\ r.banned = loaded[s].banned /\ r.members = {}
  BY <1>1 DEF FromDatabase, Room, Stored
<1>3. \A t \in Server : rooms'[t] = IF t = s THEN r ELSE rooms[t]
  BY Typed DEF Load, Copies
<1> HIDE DEF r
<1> QED
  BY <1>2, <1>3

LEMMA LoadSame ==
  ASSUME TypeOK, TypeOK', NEW s \in Server, Load(s), loaded[s] = NoRoom, Grows,
         NEW p \in Player, Agreed(p)
  PROVE  Agreed(p)'
<1>1. calls' = calls /\ db' = db /\ inbox' = inbox
  BY DEF Load
<1>2. rooms' = rooms
  BY Typed DEF Load, Copies
<1> QED
  BY <1>1, <1>2, SameCalls, Quiet DEF Outlook

\* What a server that loads the room will make of it, and the others.
LEMMA LoadOutlooks ==
  ASSUME TypeOK, Calm, NEW s \in Server, Load(s), loaded[s] # NoRoom, NEW p \in Player
  PROVE  /\ Outlook(s, p)' # NoRoom /\ Outlook(s, p)'.owner = loaded[s].owner
         /\ \A t \in Server \ {s} : Outlook(t, p)' = Outlook(t, p)
         /\ \A t \in Server : Outlook(t, p) # NoRoom =>
              Here(t) /\ Outlook(t, p).owner = rooms[t].owner
<1>1. PICK r \in Room :
        /\ r.owner = loaded[s].owner
        /\ \A t \in Server : rooms'[t] = IF t = s THEN r ELSE rooms[t]
  BY LoadedRoom
<1>2. inbox' = inbox
  BY DEF Load
<1>3. ASSUME NEW t \in Server, NEW room \in View
      PROVE  Alike(Seen(room, p), Settled(Seen(room, p), p, inbox[t]))
  <2>1. inbox[t] \in Seq(Message) /\ \A m \in Range(inbox[t]) : m.kind \notin RoomWide
    BY CopyTyped, CalmInbox
  <2>2. Seen(room, p) \in View
    BY SeenTyped
  <2> QED
    BY <2>1, <2>2, SettledAlike
<1>4. \A t \in Server \ {s} : Outlook(t, p)' = Outlook(t, p)
  BY <1>1, <1>2 DEF Outlook
<1>5. Outlook(s, p)' # NoRoom /\ Outlook(s, p)'.owner = loaded[s].owner
  <2>1. r \in View /\ r # NoRoom
    BY RoomsAssumption DEF View
  <2>2. Seen(r, p) # NoRoom /\ Seen(r, p).owner = r.owner
    <3>1. Seen(r, p) # NoRoom
      BY <2>1, SeenTyped
    <3> QED
      BY <2>1, <3>1 DEF Seen
  <2>3. Outlook(s, p)' = Settled(Seen(r, p), p, inbox[s])
    BY <1>1, <1>2 DEF Outlook
  <2>4. Alike(Seen(r, p), Outlook(s, p)')
    BY <1>3, <2>1, <2>3
  <2> QED
    BY <1>1, <2>2, <2>4 DEF Alike
<1>6. ASSUME NEW t \in Server, Outlook(t, p) # NoRoom
      PROVE  Here(t) /\ Outlook(t, p).owner = rooms[t].owner
  <2>1. Alike(Seen(rooms[t], p), Outlook(t, p)) /\ rooms[t] \in View
    BY <1>3, CopyTyped DEF Outlook
  <2>2. Seen(rooms[t], p) # NoRoom /\ Outlook(t, p).owner = Seen(rooms[t], p).owner
    BY <1>6, <2>1 DEF Alike
  <2>3. rooms[t] # NoRoom
    BY <2>1, <2>2, SeenTyped
  <2> QED
    BY <2>2, <2>3 DEF Seen, Here
<1> QED
  BY <1>4, <1>5, <1>6

\* The same for a player of whom nothing is under way.
LEMMA LoadOwn ==
  ASSUME TypeOK, NEW s \in Server, Load(s), loaded[s] # NoRoom, NEW p \in Player,
         \A t \in Server : p \notin About(Unheard(t))
  PROVE  /\ Outlook(s, p)' # NoRoom
         /\ Outlook(s, p)'.members = {}
         /\ p \in Outlook(s, p)'.banned <=> p \in loaded[s].banned
         /\ \A t \in Server : Outlook(t, p) # NoRoom =>
              Here(t) /\ (p \in Outlook(t, p).banned <=> p \in rooms[t].banned)
<1>1. PICK r \in Room :
        /\ r.banned = loaded[s].banned /\ r.members = {}
        /\ \A t \in Server : rooms'[t] = IF t = s THEN r ELSE rooms[t]
  BY LoadedRoom
<1>2. inbox' = inbox
  BY DEF Load
<1>3. ASSUME NEW t \in Server, NEW room \in View
      PROVE  Settled(Seen(room, p), p, inbox[t]) = Seen(room, p)
  <2>1. /\ inbox[t] \in Seq(Message)
        /\ \A m \in Range(inbox[t]) : m.kind \notin RoomWide /\ m.player # p
    BY CopyTyped, Unraced
  <2>2. Seen(room, p) \in View
    BY SeenTyped
  <2> QED
    BY <2>1, <2>2, SettledAlike
<1>4. r \in View /\ r # NoRoom
  BY RoomsAssumption DEF View
<1>5. Outlook(s, p)' = Seen(r, p)
  BY <1>1, <1>2, <1>3, <1>4 DEF Outlook
<1>6. Seen(r, p) # NoRoom
  BY <1>4, SeenTyped
<1>7. Seen(r, p).members = {} /\ Seen(r, p).banned = loaded[s].banned \cap {p}
  BY <1>1, <1>4 DEF Seen
<1>8. ASSUME NEW t \in Server, Outlook(t, p) # NoRoom
      PROVE  Here(t) /\ (p \in Outlook(t, p).banned <=> p \in rooms[t].banned)
  <2>1. Outlook(t, p) = Seen(rooms[t], p) /\ rooms[t] \in View
    BY <1>3, CopyTyped DEF Outlook
  <2>2. rooms[t] # NoRoom
    BY <1>8, <2>1, SeenTyped
  <2>3. Seen(rooms[t], p).banned = rooms[t].banned \cap {p}
    BY <2>2 DEF Seen
  <2> QED
    BY <2>1, <2>2, <2>3 DEF Here
<1> QED
  BY <1>5, <1>6, <1>7, <1>8

\* What is not said of a player by LoadedOtherwise.
LEMMA LoadedAlike ==
  ASSUME TypeOK, NEW s \in Server, loaded[s] # NoRoom, NEW p \in Player,
         p \notin LoadedOtherwise(s)
  PROVE  /\ \A t \in Server : p \notin About(Unheard(t))
         /\ \A t \in Server \ {s} : Here(t) => (p \in rooms[t].banned <=> p \in loaded[s].banned)
         /\ db # NoRoom => (p \in db.banned <=> p \in loaded[s].banned)
<1> DEFINE all == UNION {Unheard(t) : t \in Server}
<1>1. p \notin About(all)
  BY DEF LoadedOtherwise
<1>2. ASSUME NEW t \in Server PROVE p \notin About(Unheard(t))
  <2>1. Unheard(t) \subseteq all
    OBVIOUS
  <2> HIDE DEF all
  <2> QED
    BY <1>1, <2>1 DEF About
<1>3. \A t \in Server \ {s} : Here(t) => (p \in rooms[t].banned <=> p \in loaded[s].banned)
  BY DEF LoadedOtherwise
<1>4. db # NoRoom => (p \in db.banned <=> p \in loaded[s].banned)
  BY DEF LoadedOtherwise
<1> QED
  BY <1>2, <1>3, <1>4

\* A server that loads the room agrees with the others on it ...
LEMMA LoadInStep ==
  ASSUME TypeOK, Phases, NEW s \in Server, Load(s), loaded[s] # NoRoom, ~LoadedAnother(s),
         renewed' = renewed, NEW p \in Player, NEW full \in BOOLEAN,
         InStep(p, full), full => p \notin LoadedOtherwise(s)
  PROVE  /\ InStep(p, full)'
         /\ \A t \in Server : Due(t, p, full) = {} /\ Due(t, p, full)' = {}
<1>1. Calm
  BY DEF LoadedAnother, Calm
<1>2. \A t \in Server \ {s} : Here(t) => rooms[t].owner = loaded[s].owner
  BY DEF LoadedAnother
<1>3. s \in renewed /\ calls' = calls
  BY DEF Phases, Load
<1>4. ASSUME NEW t \in Server PROVE Due(t, p, full) = {} /\ Due(t, p, full)' = {}
  <2>1. Due(t, p, full) = {}
    <3>1. CASE full
      BY <3>1, LoadedAlike, Unraced
    <3>2. CASE ~full
      BY <1>1, <3>2, CalmCalls
    <3> QED
      BY <3>1, <3>2
  <2> QED
    BY <1>3, <2>1 DEF Due
<1>5. /\ Outlook(s, p)' # NoRoom /\ Outlook(s, p)'.owner = loaded[s].owner
      /\ \A t \in Server \ {s} : Outlook(t, p)' = Outlook(t, p)
      /\ \A t \in Server : Outlook(t, p) # NoRoom =>
           Here(t) /\ Outlook(t, p).owner = rooms[t].owner
  BY <1>1, LoadOutlooks
<1>6. ASSUME NEW t \in Server \ {s}, full, Outlook(t, p) # NoRoom
      PROVE  p \in Outlook(s, p)'.banned <=> p \in Outlook(t, p).banned
  <2>1. /\ \A u \in Server : p \notin About(Unheard(u))
        /\ Here(t) => (p \in rooms[t].banned <=> p \in loaded[s].banned)
    BY <1>6, LoadedAlike
  <2>2. /\ p \in Outlook(s, p)'.banned <=> p \in loaded[s].banned
        /\ Here(t) /\ (p \in Outlook(t, p).banned <=> p \in rooms[t].banned)
    BY <1>6, <2>1, LoadOwn
  <2> QED
    BY <2>1, <2>2
<1>7. ASSUME NEW t \in Server \ {s}
      PROVE  /\ Match(s, t, p, full, Outlook(s, p), Outlook(t, p))'
             /\ Match(t, s, p, full, Outlook(t, p), Outlook(s, p))'
  <2>1. PICK v, w : v = Outlook(s, p)' /\ w = Outlook(t, p)' /\ w = Outlook(t, p)
    BY <1>5
  <2>2. w # NoRoom => w.owner = v.owner
    BY <1>2, <1>5, <2>1
  <2>3. w # NoRoom /\ full => (p \in v.banned <=> p \in w.banned)
    BY <1>6, <2>1
  <2> QED
    BY <1>3, <2>1, <2>2, <2>3 DEF Match
<1>8. ASSUME NEW t \in Server \ {s}, NEW u \in Server \ {s}, t # u
      PROVE  Match(t, u, p, full, Outlook(t, p), Outlook(u, p))'
  <2>1. Match(t, u, p, full, Outlook(t, p), Outlook(u, p))
    BY <1>4, <1>8 DEF InStep
  <2> QED
    BY <1>5, <2>1 DEF Match
<1>9. InStep(p, full)'
  BY <1>4, <1>7, <1>8 DEF InStep
<1> QED
  BY <1>4, <1>9

LEMMA LoadAgreed ==
  ASSUME TypeOK, TypeOK', Phases, NEW s \in Server, Load(s), Grows,
         contested' = contested \cup LoadedOtherwise(s), ~LoadedAnother(s),
         renewed' = renewed, NEW p \in Player, Agreed(p)
  PROVE  Agreed(p)'
<1>1. CASE loaded[s] = NoRoom
  BY <1>1, LoadSame
<1>2. CASE loaded[s] # NoRoom
  <2>1. calls' = calls /\ db' = db
    BY DEF Load
  <2>2. InStep(p, FALSE) /\ OneCall(p, FALSE)
    BY DEF Agreed
  <2>3. InStep(p, FALSE)' /\ \A t \in Server : Due(t, p, FALSE)' = {}
    BY <1>2, <2>2, LoadInStep
  <2>4. MadeAlone(p)' /\ OneCall(p, FALSE)'
    BY <2>1, <2>2, <2>3, SameCalls DEF MadeAlone
  <2>5. ASSUME p \notin contested'
        PROVE  /\ p \notin LoadedOtherwise(s)
               /\ InStep(p, TRUE) /\ OneCall(p, TRUE) /\ Apart(p)
    BY <2>5 DEF Agreed
  <2>6. ASSUME p \notin contested'
        PROVE  /\ InStep(p, TRUE)'
               /\ \A t \in Server : Due(t, p, TRUE) = {} /\ Due(t, p, TRUE)' = {}
    BY <1>2, <2>5, <2>6, LoadInStep
  <2>7. ASSUME p \notin contested'
        PROVE  /\ Outlook(s, p)' # NoRoom /\ Outlook(s, p)'.members = {}
               /\ p \in Outlook(s, p)'.banned <=> p \in loaded[s].banned
    <3>1. \A t \in Server : p \notin About(Unheard(t))
      BY <1>2, <2>5, <2>7, LoadedAlike
    <3> QED
      BY <1>2, <3>1, LoadOwn
  <2>8. \A t \in Server \ {s} : Outlook(t, p)' = Outlook(t, p)
    <3>1. Calm
      BY <1>2 DEF LoadedAnother, Calm
    <3> QED
      BY <1>2, <3>1, LoadOutlooks
  <2>9. ASSUME p \notin contested' PROVE OneCall(p, TRUE)' /\ InStep(p, TRUE)' /\ Apart(p)'
    <3>1. Apart(p)'
      BY <2>5, <2>7, <2>8, <2>9 DEF Apart
    <3>2. OneCall(p, TRUE)'
      BY <2>1, <2>5, <2>9, SameCalls
    <3> QED
      BY <2>6, <2>9, <3>1, <3>2
  <2>10. ASSUME p \notin contested' \cup unsaved' PROVE Kept(p)'
    <3>1. Kept(p)
      BY <2>10 DEF Agreed, Grows
    <3>2. \A t \in Server : Due(t, p, TRUE) = {} /\ Due(t, p, TRUE)' = {}
      BY <2>6, <2>10
    <3>3. db # NoRoom => (p \in db.banned <=> p \in loaded[s].banned)
      BY <1>2, <2>5, <2>10, LoadedAlike
    <3>4. ASSUME db # NoRoom, NEW t \in Server, Outlook(t, p)' # NoRoom, Outlook(t, p)'.persistent
          PROVE  p \in Outlook(t, p)'.banned <=> p \in db.banned
      <4>1. CASE t = s
        BY <2>7, <2>10, <3>3, <3>4, <4>1
      <4>2. CASE t # s
        <5>1. Outlook(t, p)' = Outlook(t, p)
          BY <2>8, <4>2
        <5> QED
          BY <3>1, <3>2, <3>4, <5>1 DEF Kept
      <4> QED
        BY <4>1, <4>2
    <3> QED
      BY <2>1, <3>2, <3>4 DEF Kept
  <2> QED
    BY <2>3, <2>4, <2>9, <2>10 DEF Agreed
<1> QED
  BY <1>1, <1>2

-----------------------------------------------------------------------------
(* The room is made, and destroyed, when nothing is under way.             *)

LEMMA Still ==
  ASSUME TypeOK, NEW s \in Server, Unheard(s) = {}
  PROVE  /\ inbox[s] = <<>>
         /\ \A t \in Server : calls[t] = <<>>
         /\ \A t \in Server, p \in Player, full \in BOOLEAN : Due(t, p, full) = {}
<1>1. inbox[s] \in Seq(Message) /\ \A t \in Server : calls[t] \in Seq(Call)
  BY CopyTyped
<1>2. ASSUME NEW m \in Range(inbox[s]) PROVE FALSE
  <2>1. <<m.kind, m.player>> \in Unheard(s)
    BY DEF Unheard
  <2> QED
    BY <2>1
<1>3. ASSUME NEW t \in Server, NEW c \in Range(calls[t]) PROVE FALSE
  <2>1. <<c.op, c.player>> \in Unheard(s)
    BY DEF Unheard
  <2> QED
    BY <2>1
<1>4. inbox[s] = <<>>
  <2>1. Len(inbox[s]) \in Nat /\ (Len(inbox[s]) # 0 => 1 \in DOMAIN inbox[s])
    BY <1>1
  <2>2. Len(inbox[s]) = 0
    BY <1>2, <2>1 DEF Range
  <2> QED
    BY <1>1, <2>2
<1>5. ASSUME NEW t \in Server PROVE calls[t] = <<>>
  <2>1. calls[t] \in Seq(Call)
    BY <1>1
  <2>2. Len(calls[t]) \in Nat /\ (Len(calls[t]) # 0 => 1 \in DOMAIN calls[t])
    BY <2>1
  <2>3. Len(calls[t]) = 0
    BY <1>3, <2>2 DEF Range
  <2> QED
    BY <2>1, <2>3
<1>6. \A t \in Server, p \in Player, full \in BOOLEAN : Due(t, p, full) = {}
  BY <1>3 DEF Due
<1> QED
  BY <1>4, <1>5, <1>6

LEMMA EmptyInbox ==
  ASSUME TypeOK, NEW s \in Server, NEW room \in View, NEW p \in Player
  PROVE  Settled(Seen(room, p), p, <<>>) = Seen(room, p)
<1>1. Seen(room, p) \in View /\ inbox[s] \in Seq(Message)
  BY SeenTyped, CopyTyped
<1> QED
  BY <1>1, SettledTyped

\* The room is destroyed: by who hears of it at once, or by a call.
LEMMA DestroyOutlooks ==
  ASSUME TypeOK, Phases, NEW s \in Server, DestroyRoom(s), Unheard(s) = {}, NEW p \in Player
  PROVE  /\ Outlook(s, p)' = NoRoom
         /\ \/ /\ calls' = calls
               /\ \A t \in Server : Outlook(t, p)' = NoRoom
            \/ \E c \in Call : /\ Adds(s, c) /\ c.op = "destroyed" /\ ~c.done
                               /\ \A t \in Server \ {s} : Outlook(t, p)' = Outlook(t, p)
<1>1. rooms'[s] = NoRoom /\ \A t \in Server \ {s} : rooms'[t] = rooms[t]
  BY Typed DEF DestroyRoom, Forget, Copies
<1>2. rooms[s] \in Room
  BY Typed, RoomFields DEF DestroyRoom
<1>3. PICK m \in Message : m.kind = "destroyed" /\ m.player = rooms[s].owner
  <2>1. [kind |-> "destroyed", player |-> rooms[s].owner] \in Message
    BY <1>2 DEF Message, Room
  <2> QED
    BY <2>1
<1>4. PICK c \in Call : c = [op |-> "destroyed", player |-> rooms[s].owner, done |-> FALSE]
  BY <1>2 DEF Call, Room
<1>5. \/ Adds(s, c) /\ inbox' = inbox
      \/ Publish(s, m.kind, m.player) /\ calls' = calls
  BY <1>3, <1>4 DEF DestroyRoom, Announce, Adds
<1>6. Outlook(s, p)' = NoRoom
  <2>1. inbox'[s] = <<>>
    BY <1>5, Still DEF Publish
  <2>2. Settled(NoRoom, p, <<>>) = NoRoom /\ Seen(NoRoom, p) = NoRoom
    BY EmptyInbox DEF View, Seen
  <2> QED
    BY <1>1, <2>1, <2>2 DEF Outlook
<1>7. CASE Adds(s, c) /\ inbox' = inbox
  <2>1. \A t \in Server \ {s} : Outlook(t, p)' = Outlook(t, p)
    BY <1>1, <1>7 DEF Outlook
  <2>2. c.op = "destroyed" /\ ~c.done
    BY <1>4
  <2> QED
    BY <1>6, <1>7, <2>1, <2>2
<1>8. CASE Publish(s, m.kind, m.player) /\ calls' = calls
  <2>1. ASSUME NEW t \in Server \ {s} PROVE Outlook(t, p)' = NoRoom
    <3>1. \/ Outlook(t, p)' = Heard(Outlook(t, p), p, m)
          \/ phase[t] = "down" /\ Outlook(t, p)' = NoRoom /\ Outlook(t, p) = NoRoom
      BY <1>1, <1>8, TellsOthers
    <3>2. Heard(Outlook(t, p), p, m) = NoRoom
      BY <1>3 DEF Heard
    <3> QED
      BY <3>1, <3>2
  <2> QED
    BY <1>6, <1>8, <2>1
<1> QED
  BY <1>5, <1>7, <1>8

LEMMA DestroyAgreed ==
  ASSUME TypeOK, TypeOK', Phases, NEW s \in Server, DestroyRoom(s), Unheard(s) = {}, Grows,
         renewed' = renewed, NEW p \in Player, Agreed(p)
  PROVE  Agreed(p)'
<1>1. \A t \in Server, full \in BOOLEAN : Due(t, p, full) = {}
  BY Still
<1>2. Outlook(s, p)' = NoRoom
  BY DestroyOutlooks
<1>3. CASE calls' = calls /\ \A t \in Server : Outlook(t, p)' = NoRoom
  <2>1. ASSUME NEW full \in BOOLEAN
        PROVE  OneCall(p, full)' /\ \A t \in Server : Due(t, p, full)' = {}
    <3>1. \A t \in Server : Due(t, p, full)' = {}
      BY <1>1, <1>3 DEF Due
    <3>2. \A t \in Server : calls'[t] = <<>>
      BY <1>3, Still
    <3> QED
      BY <3>1, <3>2 DEF OneCall
  <2>2. ASSUME NEW full \in BOOLEAN PROVE InStep(p, full)'
    BY <1>3, <2>1 DEF InStep, Match
  <2>3. MadeAlone(p)' /\ Apart(p)' /\ Kept(p)'
    BY <1>3, <2>1 DEF MadeAlone, Apart, Kept
  <2> QED
    BY <2>1, <2>2, <2>3 DEF Agreed
<1>4. CASE \E c \in Call : /\ Adds(s, c) /\ c.op = "destroyed" /\ ~c.done
                           /\ \A t \in Server \ {s} : Outlook(t, p)' = Outlook(t, p)
  <2>1. PICK c \in Call : /\ Adds(s, c) /\ c.op = "destroyed" /\ ~c.done
                          /\ \A t \in Server \ {s} : Outlook(t, p)' = Outlook(t, p)
    BY <1>4
  <2>2. Adds(s, c) /\ \A full \in BOOLEAN : Matters(c, p, full)
    BY <2>1 DEF Matters, RoomWide
  <2>3. ASSUME NEW full \in BOOLEAN
        PROVE  \A t \in Server : Due(t, p, full)' = IF t = s THEN {c} ELSE {}
    BY <1>1, <2>2, DueOnly
  <2>4. ASSUME NEW full \in BOOLEAN PROVE OneCall(p, full)'
    <3>1. OneCall(p, full)
      BY Still DEF OneCall
    <3> QED
      BY <1>1, <2>2, <3>1, OneCallAsked
  <2>5. ASSUME NEW full \in BOOLEAN, InStep(p, full) PROVE InStep(p, full)'
    <3>1. News(c) \in Message /\ c.op # "created"
      BY <2>1 DEF News, Message, Call
    <3>2. Outlook(s, p)' = Heard(Outlook(s, p), p, News(c))
      BY <1>2, <2>1 DEF Heard, News
    <3>3. \A t \in Server \ {s} : Outlook(t, p)' = Outlook(t, p)
      BY <2>1
    <3> QED
      BY <1>1, <2>3, <2>5, <3>1, <3>2, <3>3, StepAsked
  <2>6. ASSUME NEW full \in BOOLEAN, NEW t \in Server, NEW d, d \in Due(t, p, full)'
        PROVE  t = s /\ d = c
    <3>1. Due(t, p, full)' = IF t = s THEN {c} ELSE {}
      BY <2>3
    <3> QED
      BY <2>6, <3>1
  <2>7. MadeAlone(p)'
    BY <2>1, <2>6 DEF MadeAlone
  <2>8. Apart(p) => Apart(p)'
    BY <1>2, <2>1 DEF Apart
  <2>9. Kept(p)'
    <3>1. ~ \A t \in Server : Due(t, p, TRUE)' = {}
      BY <2>3
    <3> QED
      BY <2>1, <2>6, <3>1 DEF Kept
  <2> QED
    BY <2>4, <2>5, <2>7, <2>8, <2>9 DEF Agreed, Grows
<1> QED
  BY <1>3, <1>4, DestroyOutlooks

\* Nobody has the room, or will hear of one, when it is made.
LEMMA NobodyHas ==
  ASSUME TypeOK, NEW s \in Server, ~Here(s), Unheard(s) = {}, ~KnownElsewhere(s),
         NEW p \in Player, NEW t \in Server
  PROVE  Outlook(t, p) = NoRoom
<1>1. rooms[t] = NoRoom /\ \A m \in Range(inbox[t]) : m.kind \notin RoomWide
  <2>1. CASE t = s
    <3>1. \A m \in Range(inbox[s]) : <<m.kind, m.player>> \in Unheard(s)
      BY DEF Unheard
    <3> QED
      BY <2>1, <3>1 DEF Here
  <2>2. CASE t # s
    BY <2>2 DEF KnownElsewhere, Here
  <2> QED
    BY <2>1, <2>2
<1>2. NoRoom \in View /\ Seen(rooms[t], p) = NoRoom /\ inbox[t] \in Seq(Message)
  BY <1>1, CopyTyped DEF View, Seen
<1>3. Alike(NoRoom, Settled(NoRoom, p, inbox[t]))
  BY <1>1, <1>2, SettledAlike
<1> QED
  BY <1>2, <1>3 DEF Alike, Outlook

\* What the maker sees of p in the room, v, and what the others will see, w.
Founded(p, o, b, v, w) ==
  /\ v \in View /\ w \in View /\ v # NoRoom /\ w # NoRoom
  /\ v.owner = o /\ v.persistent = b /\ v.banned = {} /\ v.members = {o} \cap {p}
  /\ w.owner = o /\ w.persistent = FALSE /\ w.banned = {} /\ w.members = {}

AllTold(s, p, w) ==
  /\ calls' = calls
  /\ \A t \in Server \ {s} :
       Outlook(t, p)' = w \/ (t \in renewed /\ Outlook(t, p)' = NoRoom)

NoneTold(s, p, w, c) ==
  /\ Adds(s, c) /\ c.op = "created" /\ ~c.done /\ Heard(NoRoom, p, News(c)) = w
  /\ \A t \in Server \ {s} : Outlook(t, p)' = NoRoom

Opened(s, p, o, b, v, w) ==
  /\ Founded(p, o, b, v, w) /\ Outlook(s, p)' = v
  /\ (b = FALSE /\ AllTold(s, p, w)) \/ \E c \in Call : NoneTold(s, p, w, c)

LEMMA CreateOutlooks ==
  ASSUME TypeOK, Phases, NEW s \in Server, NEW o \in Player, NEW b \in BOOLEAN,
         CreateRoom(s, o, b), Unheard(s) = {}, ~KnownElsewhere(s), NEW p \in Player
  PROVE  \E v \in View, w \in View : Opened(s, p, o, b, v, w)
<1> DEFINE v == Seen(NewRoom(o, {o}, b), p)
           w == Seen(NewRoom(o, {}, FALSE), p)
<1>1. Founded(p, o, b, v, w)
  <2>1. NewRoom(o, {o}, b) \in Room /\ NewRoom(o, {}, FALSE) \in Room
    BY NewRoomTyped
  <2>2. v \in View /\ w \in View /\ v # NoRoom /\ w # NoRoom
    BY <2>1, SeenTyped, RoomsAssumption DEF View
  <2>3. /\ v.owner = o /\ v.persistent = b /\ v.banned = {} /\ v.members = {o} \cap {p}
        /\ w.owner = o /\ w.persistent = FALSE /\ w.banned = {} /\ w.members = {}
    BY <2>1, RoomsAssumption DEF Seen, NewRoom
  <2> QED
    BY <2>2, <2>3 DEF Founded
<1>2. /\ rooms'[s] = NewRoom(o, {o}, b)
      /\ \A t \in Server \ {s} : rooms'[t] = rooms[t]
  BY Typed DEF CreateRoom, Copies
<1>3. PICK m \in Message : m.kind = "created" /\ m.player = o
  <2>1. [kind |-> "created", player |-> o] \in Message
    BY DEF Message
  <2> QED
    BY <2>1
<1>4. PICK c \in Call : c = [op |-> "created", player |-> o, done |-> FALSE]
  BY DEF Call
<1>5. \/ Adds(s, c) /\ inbox' = inbox
      \/ Publish(s, m.kind, m.player) /\ calls' = calls /\ b = FALSE
  BY <1>3, <1>4 DEF CreateRoom, Adds
<1>6. \A t \in Server : Outlook(t, p) = NoRoom
  BY NobodyHas DEF CreateRoom
<1>7. Outlook(s, p)' = v
  <2>1. inbox'[s] = <<>>
    BY <1>5, Still DEF Publish
  <2>2. Settled(v, p, <<>>) = v
    <3>1. NewRoom(o, {o}, b) \in View
      BY NewRoomTyped DEF View
    <3> QED
      BY <3>1, EmptyInbox
  <2> QED
    BY <1>2, <2>1, <2>2 DEF Outlook
<1>8. Heard(NoRoom, p, m) = w /\ Heard(NoRoom, p, News(c)) = w
  BY <1>3, <1>4 DEF Heard, News
<1> HIDE DEF v, w
<1>9. ASSUME Adds(s, c), inbox' = inbox PROVE NoneTold(s, p, w, c)
  <2>1. \A t \in Server \ {s} : Outlook(t, p)' = NoRoom
    BY <1>2, <1>6, <1>9 DEF Outlook
  <2>2. c.op = "created" /\ ~c.done
    BY <1>4
  <2> QED
    BY <1>8, <1>9, <2>1, <2>2 DEF NoneTold
<1>10. ASSUME Publish(s, m.kind, m.player), calls' = calls PROVE AllTold(s, p, w)
  <2>1. ASSUME NEW t \in Server \ {s}
        PROVE  Outlook(t, p)' = w \/ (t \in renewed /\ Outlook(t, p)' = NoRoom)
    <3>1. \/ Outlook(t, p)' = Heard(Outlook(t, p), p, m)
          \/ phase[t] = "down" /\ Outlook(t, p)' = NoRoom
      BY <1>2, <1>10, TellsOthers
    <3>2. phase[t] = "down" => t \in renewed
      BY DEF Phases
    <3> QED
      BY <1>6, <1>8, <3>1, <3>2
  <2> QED
    BY <1>10, <2>1 DEF AllTold
<1>11. (b = FALSE /\ AllTold(s, p, w)) \/ \E d \in Call : NoneTold(s, p, w, d)
  BY <1>5, <1>9, <1>10
<1>12. v \in View /\ w \in View
  BY <1>1 DEF Founded
<1> QED
  BY <1>1, <1>7, <1>11, <1>12 DEF Opened

\* The room is announced at once ...
LEMMA FoundedAgreed ==
  ASSUME TypeOK, NEW s \in Server, Unheard(s) = {}, NEW p \in Player, NEW o \in Player,
         NEW v \in View, NEW w \in View, Founded(p, o, FALSE, v, w), Outlook(s, p)' = v,
         AllTold(s, p, w), renewed' = renewed
  PROVE  Agreed(p)'
<1> USE DEF AllTold
<1>1. ASSUME NEW full \in BOOLEAN
      PROVE  OneCall(p, full)' /\ \A t \in Server : Due(t, p, full)' = {}
  <2>1. \A t \in Server : Due(t, p, full)' = {}
    BY Still DEF Due
  <2>2. \A t \in Server : calls'[t] = <<>>
    BY Still
  <2> QED
    BY <2>1, <2>2 DEF OneCall
<1>2. ASSUME NEW full \in BOOLEAN PROVE InStep(p, full)'
  <2>1. ASSUME NEW t \in Server, NEW u \in Server, t # u
        PROVE  Match(t, u, p, full, Outlook(t, p), Outlook(u, p))'
    <3>1. PICK x, y : x = Outlook(t, p)' /\ y = Outlook(u, p)'
      OBVIOUS
    <3>2. /\ x = v \/ x = w \/ (t \in renewed /\ x = NoRoom)
          /\ y = v \/ y = w \/ (u \in renewed /\ y = NoRoom)
      BY <3>1
    <3> QED
      BY <3>1, <3>2 DEF Match, Founded
  <2> QED
    BY <1>1, <2>1 DEF InStep
<1>3. MadeAlone(p)'
  BY <1>1 DEF MadeAlone
<1>4. ASSUME NEW t \in Server, Outlook(t, p)' # NoRoom
      PROVE  Outlook(t, p)'.banned = {} /\ Outlook(t, p)'.persistent = FALSE
  BY <1>4 DEF Founded
<1>5. Apart(p)' /\ Kept(p)'
  BY <1>1, <1>4 DEF Apart, Kept
<1> QED
  BY <1>1, <1>2, <1>3, <1>5 DEF Agreed

\* ... or when the database has it.
LEMMA StoredAgreed ==
  ASSUME TypeOK, NEW s \in Server, Unheard(s) = {}, NEW p \in Player, NEW o \in Player,
         NEW b \in BOOLEAN, NEW v \in View, NEW w \in View, Founded(p, o, b, v, w),
         Outlook(s, p)' = v, NEW c \in Call, NoneTold(s, p, w, c), renewed' = renewed
  PROVE  Agreed(p)'
<1> USE DEF NoneTold
<1>1. \A t \in Server, full \in BOOLEAN : Due(t, p, full) = {}
  BY Still
<1>2. \A full \in BOOLEAN : Matters(c, p, full)
  BY DEF Matters, RoomWide
<1>3. ASSUME NEW full \in BOOLEAN
      PROVE  \A t \in Server : Due(t, p, full)' = IF t = s THEN {c} ELSE {}
  BY <1>1, <1>2, DueOnly
<1>4. ASSUME NEW full \in BOOLEAN PROVE OneCall(p, full)'
  <2>1. OneCall(p, full)
    BY Still DEF OneCall
  <2> QED
    BY <1>1, <1>2, <2>1, OneCallAsked
<1>5. ASSUME NEW full \in BOOLEAN, NEW t \in Server, NEW d, d \in Due(t, p, full)'
      PROVE  t = s /\ d = c
  <2>1. Due(t, p, full)' = IF t = s THEN {c} ELSE {}
    BY <1>3
  <2> QED
    BY <1>5, <2>1
<1>6. ASSUME NEW full \in BOOLEAN PROVE InStep(p, full)'
  <2>1. ASSUME NEW t \in Server, NEW u \in Server, t # u,
               Due(t, p, full)' = {}, Due(u, p, full)' = {}
        PROVE  Match(t, u, p, full, Outlook(t, p), Outlook(u, p))'
    <3>1. t # s /\ u # s
      BY <1>3, <2>1
    <3> QED
      BY <3>1 DEF Match
  <2>2. ASSUME NEW t \in Server \ {s}
        PROVE  Match(s, t, p, full, Outlook(s, p), Heard(Outlook(t, p), p, News(c)))'
    BY DEF Match, Founded
  <2> QED
    BY <1>5, <2>1, <2>2 DEF InStep
<1>7. MadeAlone(p)'
  BY <1>5 DEF MadeAlone
<1>8. Apart(p)'
  BY DEF Apart, Founded
<1>9. Kept(p)'
  <2>1. ~ \A t \in Server : Due(t, p, TRUE)' = {}
    BY <1>3
  <2> QED
    BY <1>5, <2>1 DEF Kept, Founded
<1> QED
  BY <1>4, <1>6, <1>7, <1>8, <1>9 DEF Agreed

LEMMA RoomAgreed ==
  ASSUME TypeOK, TypeOK', Phases, NEW s \in Server, RoomStep(s), Grows, renewed' = renewed,
         Unheard(s) = {}, Here(s) \/ ~KnownElsewhere(s), NEW p \in Player, Agreed(p)
  PROVE  Agreed(p)'
<1>1. CASE DestroyRoom(s)
  BY <1>1, DestroyAgreed
<1>2. CASE \E o \in Player, b \in BOOLEAN : CreateRoom(s, o, b)
  <2>1. PICK o \in Player, b \in BOOLEAN : CreateRoom(s, o, b)
    BY <1>2
  <2>2. ~KnownElsewhere(s)
    BY <2>1 DEF CreateRoom
  <2>3. PICK v \in View, w \in View : Opened(s, p, o, b, v, w)
    BY <2>1, <2>2, CreateOutlooks
  <2>4. Founded(p, o, b, v, w) /\ Outlook(s, p)' = v
    BY <2>3 DEF Opened
  <2>5. CASE b = FALSE /\ AllTold(s, p, w)
    <3>1. Founded(p, o, FALSE, v, w)
      BY <2>4, <2>5
    <3> QED
      BY <2>4, <2>5, <3>1, FoundedAgreed
  <2>6. CASE \E c \in Call : NoneTold(s, p, w, c)
    BY <2>4, <2>6, StoredAgreed
  <2> QED
    BY <2>3, <2>5, <2>6 DEF Opened
<1> QED
  BY <1>1, <1>2 DEF RoomStep, Operation

-----------------------------------------------------------------------------
(* Agreement is kept.                                                      *)

\* What a step of server s leaves alone at the others.
Aside(s) ==
  \A t \in Server \ {s} :
    /\ rooms'[t] = rooms[t] /\ calls'[t] = calls[t]
    /\ phase[t] = "down" => inbox'[t] = inbox[t]

LEMMA UpAside ==
  ASSUME TypeOK, Phases, NEW s \in Server, Aside(s), phase[s] = "up", phase' = phase,
         renewed' = renewed
  PROVE  Phases'
BY DEF Phases, Aside

LEMMA MemberAside ==
  ASSUME TypeOK, NEW s \in Server, NEW q \in Player, MemberStep(s, q)
  PROVE  Aside(s) /\ phase[s] = "up" /\ phase' = phase
<1>1. PICK m \in Message : MemberChange(s, m)
  BY MemberStepChanges
<1>2. \A t \in Server \ {s} : rooms'[t] = rooms[t]
  BY <1>1, Typed DEF MemberChange, Copies
<1>3. \A t \in Server \ {s} : /\ calls'[t] = calls[t]
                              /\ phase[t] = "down" => inbox'[t] = inbox[t]
  BY <1>1, Typed DEF MemberChange, Tells, Asks, Publish, CallLists
<1>4. phase[s] = "up" /\ phase' = phase
  BY DEF MemberStep, Operation, JoinRoom, LeaveRoom, KickUser, BanUser, UnbanUser, Rest
<1> QED
  BY <1>2, <1>3, <1>4 DEF Aside

LEMMA RoomAside ==
  ASSUME TypeOK, NEW s \in Server, RoomStep(s)
  PROVE  Aside(s) /\ phase[s] = "up" /\ phase' = phase
<1>1. DestroyRoom(s) \/ \E o \in Player, b \in BOOLEAN : CreateRoom(s, o, b)
  BY DEF RoomStep, Operation
<1>2. \A t \in Server \ {s} : rooms'[t] = rooms[t]
  BY <1>1, Typed DEF DestroyRoom, Forget, CreateRoom, Copies
<1>3. \A t \in Server \ {s} : /\ calls'[t] = calls[t]
                              /\ phase[t] = "down" => inbox'[t] = inbox[t]
  BY <1>1, Typed DEF DestroyRoom, CreateRoom, Announce, Publish, CallLists
<1>4. phase[s] = "up" /\ phase' = phase
  BY DEF RoomStep, Operation, CreateRoom, DestroyRoom, Rest
<1> QED
  BY <1>2, <1>3, <1>4 DEF Aside

LEMMA LocalAside ==
  ASSUME TypeOK, NEW s \in Server, LocalStep(s)
  PROVE  Aside(s) /\ phase[s] = "up" /\ phase' = phase
<1>1. PICK q \in Player :
            Register(s, q) \/ Unregister(s, q) \/ AddModerator(s, q) \/ RemoveModerator(s, q)
  BY DEF LocalStep, Operation
<1>2. \A t \in Server \ {s} : rooms'[t] = rooms[t]
  BY <1>1, Typed DEF Register, Unregister, AddModerator, RemoveModerator, Copies
<1>3. inbox' = inbox /\ \A t \in Server \ {s} : calls'[t] = calls[t]
  BY <1>1, Typed DEF Register, Unregister, AddModerator, RemoveModerator, SetModerators,
                     CallLists
<1>4. phase[s] = "up" /\ phase' = phase
  BY DEF LocalStep, Operation, Register, Unregister, AddModerator, RemoveModerator,
         SetModerators, Rest
<1> QED
  BY <1>2, <1>3, <1>4 DEF Aside

LEMMA RemotePhases ==
  ASSUME TypeOK, Phases, NEW s \in Server, RemoteStep(s), renewed' = renewed
  PROVE  Phases'
<1>1. inbox[s] # <<>>
  BY DEF RemoteStep, RemoteUnknown, RemoteCreated, RemoteDestroyed, RemoteJoin,
         RemoteLeave, RemoteKick, RemoteBan, RemoteUnban, Arrival
<1>2. phase[s] # "down"
  BY <1>1 DEF Phases
<1>3. calls' = calls /\ phase' = phase /\ inbox' = [inbox EXCEPT ![s] = Tail(@)]
  BY DEF RemoteStep, RemoteUnknown, RemoteCreated, RemoteDestroyed, RemoteJoin,
         RemoteLeave, RemoteKick, RemoteBan, RemoteUnban, Handled, Rest
<1>4. \A t \in Server \ {s} : rooms'[t] = rooms[t]
  BY Typed DEF RemoteStep, RemoteUnknown, RemoteCreated, RemoteDestroyed, RemoteJoin,
               RemoteLeave, RemoteKick, RemoteBan, RemoteUnban, Forget, copies, Copies
<1>5. \A t \in Server \ {s} : inbox'[t] = inbox[t]
  BY <1>3, Typed DEF Inboxes
<1> QED
  BY <1>2, <1>3, <1>4, <1>5 DEF Phases

LEMMA DatabasePhases ==
  ASSUME TypeOK, Phases, NEW s \in Server, DatabaseStep(s), renewed' = renewed
  PROVE  Phases'
<1>1. PICK k \in DOMAIN calls[s] : Resume(s, k) \/ \E ok \in BOOLEAN : Execute(s, k, ok)
  BY DEF DatabaseStep
<1>2. calls[s] # <<>>
  BY <1>1
<1>3. phase[s] = "up"
  BY <1>2 DEF Phases
<1>4. phase' = phase /\ rooms' = rooms
  BY <1>1 DEF Resume, Execute, Rest, copies
<1>5. \A t \in Server \ {s} : calls'[t] = calls[t]
  BY <1>1, Typed DEF Resume, Execute, CallLists
<1>6. \A t \in Server \ {s} : phase[t] = "down" => inbox'[t] = inbox[t]
  BY <1>1 DEF Resume, Execute, Publish
<1> QED
  BY <1>3, <1>4, <1>5, <1>6, UpAside DEF Aside

LEMMA CrashPhases ==
  ASSUME TypeOK, Phases, NEW s \in Server, Crash(s), renewed' = renewed \cup {s}
  PROVE  Phases'
<1>1. rooms'[s] = NoRoom /\ calls'[s] = <<>> /\ inbox'[s] = <<>>
  BY Typed DEF Crash, Copies, CallLists, Inboxes
<1>2. \A t \in Server \ {s} : /\ rooms'[t] = rooms[t] /\ calls'[t] = calls[t]
                              /\ inbox'[t] = inbox[t] /\ phase'[t] = phase[t]
  BY Typed DEF Crash, Copies, CallLists, Inboxes
<1> QED
  BY <1>1, <1>2 DEF Phases

LEMMA StartPhases ==
  ASSUME TypeOK, Phases, NEW s \in Server, Start(s) \/ Load(s), renewed' = renewed
  PROVE  Phases'
<1>1. phase'[s] # "down" /\ phase[s] # "up"
  BY Typed DEF Start, Load
<1>2. calls' = calls /\ inbox' = inbox
  BY DEF Start, Load
<1>3. \A t \in Server \ {s} : rooms'[t] = rooms[t] /\ phase'[t] = phase[t]
  BY Typed DEF Start, Load, copies, Copies
<1> QED
  BY <1>1, <1>2, <1>3 DEF Phases

LEMMA PhasesKept ==
  ASSUME TypeOK, Phases, NEW s \in Server, Recorded(s)
  PROVE  Phases'
<1>1. CASE \E q \in Player : MemberStep(s, q) /\ renewed' = renewed
  BY <1>1, MemberAside, UpAside
<1>2. CASE (RoomStep(s) \/ LocalStep(s)) /\ renewed' = renewed
  BY <1>2, RoomAside, LocalAside, UpAside
<1>3. CASE (RemoteStep(s) \/ DatabaseStep(s)) /\ renewed' = renewed
  BY <1>3, RemotePhases, DatabasePhases
<1>4. CASE Crash(s) /\ renewed' = renewed \cup {s}
  BY <1>4, CrashPhases
<1>5. CASE (Start(s) \/ Load(s)) /\ renewed' = renewed
  BY <1>5, StartPhases
<1> QED
  BY <1>1, <1>2, <1>3, <1>4, <1>5 DEF Recorded, history

LEMMA RecordedTyped ==
  ASSUME TypeOK, NEW s \in Server, Recorded(s)
  PROVE  TypeOK'
<1>1. \/ \E p \in Player : MemberStep(s, p)
      \/ RoomStep(s) \/ LocalStep(s) \/ RemoteStep(s) \/ DatabaseStep(s)
      \/ ServerStep(s)
  BY DEF Recorded, ServerStep
<1> QED
  BY <1>1, MemberStepTyped, RoomStepTyped, LocalStepTyped, RemoteStepTyped,
     DatabaseStepTyped, ServerStepTyped

LEMMA AgreedKept ==
  ASSUME TypeOK, TypeOK', Phases, NEW s \in Server, Recorded(s), ~split', NEW p \in Player,
         Agreed(p)
  PROVE  Agreed(p)'
<1>1. Grows
  BY DEF Recorded, Grows, history
<1>2. CASE \E q \in Player : /\ MemberStep(s, q) /\ contested' = contested \cup Raced(s, q)
                             /\ unsaved' = unsaved \cup BannedUnsaved(s) /\ renewed' = renewed
  BY <1>2, MemberAgreed
<1>3. CASE RoomStep(s) /\ renewed' = renewed
           /\ split' = (split \/ Unheard(s) # {} \/ (~Here(s) /\ KnownElsewhere(s)))
  BY <1>1, <1>3, RoomAgreed
<1>4. CASE RemoteStep(s)
  BY <1>1, <1>4, RemoteAgreed
<1>5. CASE DatabaseStep(s) /\ unsaved' = unsaved \cup Concerned(InVain(s)) /\ renewed' = renewed
  BY <1>1, <1>5, DatabaseAgreed
<1>6. CASE Crash(s) /\ unsaved' = unsaved \cup Concerned(Range(calls[s]))
           /\ renewed' = renewed \cup {s}
  BY <1>1, <1>6, CrashAgreed
<1>7. CASE Load(s) /\ contested' = contested \cup LoadedOtherwise(s) /\ renewed' = renewed
           /\ split' = (split \/ LoadedAnother(s))
  BY <1>1, <1>7, LoadAgreed
<1>8. CASE LocalStep(s) \/ Start(s)
  BY <1>1, <1>8, LocalAgreed, StartAgreed
<1> QED
  BY <1>2, <1>3, <1>4, <1>5, <1>6, <1>7, <1>8 DEF Recorded

LEMMA AgreementKept ==
  ASSUME Agreement, [AgreementNext]_<<vars, history>>
  PROVE  Agreement'
<1>1. ASSUME NEW s \in Server, Recorded(s) PROVE Agreement'
  <2>1. TypeOK' /\ Phases'
    BY <1>1, RecordedTyped, PhasesKept DEF Agreement
  <2>2. ASSUME ~split', NEW p \in Player PROVE Agreed(p)'
    <3>1. ~split
      BY <1>1, <2>2 DEF Recorded, history
    <3>2. TypeOK /\ Phases /\ Agreed(p)
      BY <3>1 DEF Agreement
    <3> QED
      BY <1>1, <2>1, <2>2, <3>2, AgreedKept
  <2> QED
    BY <2>1, <2>2 DEF Agreement
<1>2. ASSUME UNCHANGED <<vars, history>> PROVE Agreement'
  <2>1. TypeOK' /\ Phases'
    BY <1>2 DEF Agreement, TypeOK, Phases, vars, copies, history
  <2>2. /\ calls' = calls /\ db' = db /\ split' = split /\ Grows
        /\ \A t \in Server, p \in Player : Outlook(t, p)' = Outlook(t, p)
    BY <1>2 DEF vars, copies, history, Outlook, Grows
  <2>3. ASSUME ~split', NEW p \in Player PROVE Agreed(p)'
    <3>1. TypeOK /\ Agreed(p)
      BY <2>2, <2>3 DEF Agreement
    <3> QED
      BY <2>1, <2>2, <3>1, SameCalls, Quiet
  <2> QED
    BY <2>1, <2>3 DEF Agreement
<1> QED
  BY <1>1, <1>2 DEF AgreementNext

LEMMA InitAgreed == ASSUME AgreementInit PROVE Agreement
<1>1. TypeOK
  BY InitTyped DEF AgreementInit
<1>2. /\ \A s \in Server : rooms[s] = FromDatabase(db) /\ inbox[s] = <<>> /\ calls[s] = <<>>
      /\ \A s \in Server : phase[s] = "up"
      /\ db # NoRoom => db.banned = {}
  BY DEF AgreementInit, Init
<1>3. Phases
  BY <1>2 DEF Phases
<1>4. ASSUME NEW p \in Player PROVE Agreed(p)
  <2>1. PICK room \in View : room = FromDatabase(db)
    BY <1>1, DatabaseRoom DEF TypeOK, View
  <2>2. PICK v \in View : v = Seen(room, p)
    BY <2>1, SeenTyped
  <2>3. ASSUME NEW s \in Server PROVE Outlook(s, p) = v
    <3>1. Settled(Seen(room, p), p, <<>>) = Seen(room, p)
      BY <1>1, EmptyInbox
    <3> QED
      BY <1>2, <2>1, <2>2, <3>1 DEF Outlook
  <2>4. v # NoRoom => v.members = {} /\ v.banned = {}
    <3>1. v # NoRoom => room # NoRoom
      BY <2>1, <2>2, SeenTyped
    <3>2. room # NoRoom => db # NoRoom /\ room.members = {} /\ room.banned = {}
      BY <1>2, <2>1 DEF FromDatabase
    <3> QED
      BY <2>2, <3>1, <3>2 DEF Seen
  <2>5. \A s \in Server, full \in BOOLEAN : Due(s, p, full) = {}
    BY <1>2 DEF Due, Range
  <2>6. \A full \in BOOLEAN : OneCall(p, full)
    BY <1>2 DEF OneCall
  <2>7. \A full \in BOOLEAN : InStep(p, full)
    BY <2>3, <2>5 DEF InStep, Match
  <2>8. MadeAlone(p)
    BY <2>5 DEF MadeAlone
  <2>9. Apart(p)
    BY <2>3, <2>4 DEF Apart
  <2>10. Kept(p)
    BY <1>2, <2>3, <2>4, <2>5 DEF Kept
  <2> QED
    BY <2>6, <2>7, <2>8, <2>9, <2>10 DEF Agreed
<1> QED
  BY <1>1, <1>3, <1>4 DEF Agreement

-----------------------------------------------------------------------------
(* What it says when all is delivered and saved.                           *)

LEMMA RestOutlook ==
  ASSUME TypeOK, AtRest, NEW s \in Server, NEW p \in Player
  PROVE  /\ Outlook(s, p) = Seen(rooms[s], p) /\ \A full \in BOOLEAN : Due(s, p, full) = {}
         /\ Outlook(s, p) = NoRoom <=> ~Here(s)
         /\ Here(s) => /\ Outlook(s, p).owner = rooms[s].owner
                       /\ Outlook(s, p).members = rooms[s].members \cap {p}
                       /\ Outlook(s, p).banned = rooms[s].banned \cap {p}
                       /\ Outlook(s, p).persistent = rooms[s].persistent
<1>1. rooms[s] \in View /\ inbox[s] = <<>> /\ calls[s] = <<>>
  BY CopyTyped DEF AtRest
<1>2. Outlook(s, p) = Seen(rooms[s], p)
  BY <1>1, EmptyInbox DEF Outlook
<1>3. \A full \in BOOLEAN : Due(s, p, full) = {}
  BY <1>1 DEF Due, Range
<1>4. Seen(rooms[s], p) = NoRoom <=> ~Here(s)
  BY <1>1, SeenTyped DEF Here
<1>5. Here(s) => /\ Seen(rooms[s], p).owner = rooms[s].owner
                 /\ Seen(rooms[s], p).members = rooms[s].members \cap {p}
                 /\ Seen(rooms[s], p).banned = rooms[s].banned \cap {p}
                 /\ Seen(rooms[s], p).persistent = rooms[s].persistent
  BY DEF Seen, Here
<1> QED
  BY <1>2, <1>3, <1>4, <1>5

LEMMA RestMatch ==
  ASSUME TypeOK, AtRest, NEW s \in Server, NEW t \in Server, NEW p \in Player,
         NEW full \in BOOLEAN, InStep(p, full)
  PROVE  Match(s, t, p, full, Outlook(s, p), Outlook(t, p))
<1>1. CASE s = t
  BY <1>1 DEF Match
<1>2. CASE s # t
  BY <1>2, RestOutlook DEF InStep
<1> QED
  BY <1>1, <1>2

LEMMA AgreementAtRest == ASSUME Agreement PROVE AgreeAtRest
<1> SUFFICES ASSUME AtRest, ~split, NEW s \in Server, NEW t \in Server
             PROVE  /\ {s, t} \cap renewed = {} => (Here(s) <=> Here(t))
                    /\ Here(s) /\ Here(t) =>
                         /\ rooms[s].owner = rooms[t].owner
                         /\ rooms[s].members \cap rooms[s].banned \subseteq contested
                         /\ \A p \in Player \ contested : Agree(s, t, p)
  BY DEF AgreeAtRest
<1>1. TypeOK /\ \A p \in Player : Agreed(p)
  BY DEF Agreement
<1>2. \A u \in Server : Here(u) => rooms[u] \in Room /\ rooms[u].owner \in Player
  BY <1>1, Typed, RoomFields
<1>3. ASSUME NEW p \in Player
      PROVE  /\ {s, t} \cap renewed = {} => (Here(s) <=> Here(t))
             /\ Here(s) /\ Here(t) => rooms[s].owner = rooms[t].owner
  <2>1. InStep(p, FALSE)
    BY <1>1 DEF Agreed
  <2>2. Match(s, t, p, FALSE, Outlook(s, p), Outlook(t, p))
    BY <1>1, <2>1, RestMatch
  <2> QED
    BY <1>1, <2>2, RestOutlook DEF Match
<1>4. ASSUME NEW p \in Player \ contested, Here(s), Here(t) PROVE Agree(s, t, p)
  <2>1. InStep(p, TRUE)
    BY <1>1 DEF Agreed
  <2>2. Match(s, t, p, TRUE, Outlook(s, p), Outlook(t, p))
    BY <1>1, <2>1, RestMatch
  <2>3. /\ Outlook(s, p) # NoRoom /\ Outlook(t, p) # NoRoom
        /\ Outlook(s, p).owner = rooms[s].owner
        /\ p \in Outlook(s, p).members <=> p \in rooms[s].members
        /\ p \in Outlook(s, p).banned <=> p \in rooms[s].banned
        /\ p \in Outlook(t, p).members <=> p \in rooms[t].members
        /\ p \in Outlook(t, p).banned <=> p \in rooms[t].banned
    BY <1>1, <1>4, RestOutlook
  <2> QED
    BY <2>2, <2>3 DEF Match, Agree
<1>5. ASSUME Here(s), NEW p \in rooms[s].members, p \in rooms[s].banned PROVE p \in contested
  <2> SUFFICES ASSUME p \notin contested PROVE FALSE
    OBVIOUS
  <2>1. p \in Player
    BY <1>2, <1>5 DEF Room
  <2>2. Apart(p)
    BY <1>1, <2>1 DEF Agreed
  <2>3. /\ Outlook(s, p) # NoRoom
        /\ p \in Outlook(s, p).members /\ p \in Outlook(s, p).banned
    BY <1>1, <1>5, <2>1, RestOutlook
  <2> QED
    BY <2>2, <2>3 DEF Apart
<1> QED
  BY <1>2, <1>3, <1>4, <1>5

LEMMA AgreementKeepsBans == ASSUME Agreement PROVE BansSurvive
<1> SUFFICES ASSUME AtRest, ~split, db # NoRoom, NEW s \in Server, Here(s),
                    rooms[s].persistent, NEW p \in Player \ (contested \cup unsaved)
             PROVE  p \in rooms[s].banned <=> p \in db.banned
  BY DEF BansSurvive
<1>1. TypeOK /\ Kept(p)
  BY DEF Agreement, Agreed
<1>2. /\ Outlook(s, p) # NoRoom /\ Outlook(s, p).persistent
      /\ p \in Outlook(s, p).banned <=> p \in rooms[s].banned
  BY <1>1, RestOutlook
<1>3. \A t \in Server : Due(t, p, TRUE) = {}
  BY <1>1, RestOutlook
<1> QED
  BY <1>1, <1>2, <1>3 DEF Kept

\* When all is delivered and saved, the servers have the same room, with the
\* same bans and members, and nobody is in it who is banned: but for players
\* operated on at two servers at once, for the owner, and for members a crash
\* has lost (chat-room-handler.ts:274, :1275, :1345, :1366).
THEOREM CopiesAgree == AgreementSpec => []AgreeAtRest
<1>1. AgreementInit => Agreement
  BY InitAgreed
<1>2. Agreement /\ [AgreementNext]_<<vars, history>> => Agreement'
  BY AgreementKept
<1>3. Agreement => AgreeAtRest
  BY AgreementAtRest
<1> QED
  BY <1>1, <1>2, <1>3, PTL DEF AgreementSpec

\* The bans of a persistent room are those a restart would load, when its calls
\* of the database have come back and none of them failed
\* (chat-room-handler.ts:768, :845).
THEOREM BansAreKept == AgreementSpec => []BansSurvive
<1>1. AgreementInit => Agreement
  BY InitAgreed
<1>2. Agreement /\ [AgreementNext]_<<vars, history>> => Agreement'
  BY AgreementKept
<1>3. Agreement => BansSurvive
  BY AgreementKeepsBans
<1> QED
  BY <1>1, <1>2, <1>3, PTL DEF AgreementSpec

=============================================================================
