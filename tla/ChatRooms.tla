----------------------------- MODULE ChatRooms -----------------------------
(***************************************************************************)
(* ChatRoomHandler, apps/chat-server/src/handlers/chat-room-handler.ts,    *)
(* on every chat server, for one room path.  A server changes its own copy *)
(* of the room and publishes what it did on 'chat:room'; a change of a     *)
(* persistent room is published when the database has answered.  Redis     *)
(* passes the publications on in one order: a message is in the inboxes of *)
(* the other servers as soon as it is published, and waits there.  A       *)
(* server that crashes loses everything but what the database holds.       *)
(***************************************************************************)
EXTENDS Naturals, Sequences, FiniteSets, SequencesExt

CONSTANTS
  Server,      \* chat servers, config.serverId
  Player,      \* object ids
  NoRoom,      \* what rooms.get gives for a path it does not have
  MaxMembers,  \* config.maxMembersPerRoom
  MaxCalls,    \* bound on the operations of players in a behaviour
  MaxCrashes   \* bound on the crashes of a behaviour

VARIABLES
  rooms,    \* rooms: each server's copy of the room, NoRoom when it has none
  inRoom,   \* userRooms: the players it lists the room for
  mapped,   \* the servers with an entry of the room in localMembers
  local,    \* that entry: the players the server sends the room's messages to
  names,    \* memberNames: the players whose name it knows
  inbox,    \* the messages published that it has not handled yet
  calls,    \* its calls of the database that have not come back
  db,       \* what the database holds of the room
  phase,    \* "up", "down", or "loading": subscribed, and waiting for loadRooms
  loaded,   \* what loadRooms has read
  made,     \* operations of players so far
  crashes   \* crashes so far

copies == <<rooms, inRoom, mapped, local, names>>
vars == <<copies, inbox, calls, db, phase, loaded, made, crashes>>

-----------------------------------------------------------------------------
Stored == [owner : Player, moderators : SUBSET Player, banned : SUBSET Player]

Room ==
  [owner : Player, moderators : SUBSET Player, members : SUBSET Player,
   banned : SUBSET Player, persistent : BOOLEAN]

ASSUME RoomsAssumption ==
  /\ IsFiniteSet(Player)
  /\ NoRoom \notin Room \cup Stored
  /\ MaxMembers \in Nat \ {0}
  /\ {MaxCalls, MaxCrashes} \subseteq Nat

NewRoom(o, members, persistent) ==
  [owner |-> o, moderators |-> {o}, members |-> members, banned |-> {},
   persistent |-> persistent]

\* Mutants: initialize takes the room as it was read; it clears the bans as it
\* does the members.
AsRead(stored) == stored

WithoutBans(stored) ==
  IF stored = NoRoom THEN NoRoom
  ELSE [owner |-> stored.owner, moderators |-> stored.moderators, members |-> {},
        banned |-> {}, persistent |-> TRUE]

\* initialize: a room of the database has no members yet.
FromDatabase(stored) ==
  IF stored = NoRoom THEN NoRoom
  ELSE [owner |-> stored.owner, moderators |-> stored.moderators, members |-> {},
        banned |-> stored.banned, persistent |-> TRUE]

Here(s) == rooms[s] # NoRoom

Message ==
  [kind : {"created", "destroyed", "join", "leave", "kick", "ban", "unban"},
   player : Player]

Call ==
  [op : {"created", "destroyed", "ban", "unban", "mod", "unmod"}, player : Player,
   done : BOOLEAN]

\* A start: the room is nowhere, or in the database and loaded by every server.
Init ==
  /\ db \in {NoRoom} \cup {[owner |-> o, moderators |-> {o}, banned |-> {}] : o \in Player}
  /\ rooms = [s \in Server |-> FromDatabase(db)]
  /\ inRoom = [s \in Server |-> {}]
  /\ mapped = {}
  /\ local = [s \in Server |-> {}]
  /\ names = [s \in Server |-> {}]
  /\ inbox = [s \in Server |-> <<>>]
  /\ calls = [s \in Server |-> <<>>]
  /\ phase = [s \in Server |-> "up"]
  /\ loaded = [s \in Server |-> NoRoom]
  /\ made = 0
  /\ crashes = 0

-----------------------------------------------------------------------------
(* Publications, and calls of the database. *)

Publish(s, kind, p) ==
  inbox' = [t \in Server |->
    IF t = s \/ phase[t] = "down" THEN inbox[t]
    ELSE Append(inbox[t], [kind |-> kind, player |-> p])]

\* The end of an operation: a persistent room is written to first, and the
\* publication follows the answer.
Announce(s, kind, p) ==
  IF rooms[s].persistent
  THEN /\ calls' = [calls EXCEPT ![s] = Append(@, [op |-> kind, player |-> p, done |-> FALSE])]
       /\ UNCHANGED inbox
  ELSE Publish(s, kind, p) /\ UNCHANGED calls

Rest == <<db, phase, loaded, crashes>>

\* addUserToRoom: only who has a name already is among the local members.
AddUser(s, p) ==
  /\ inRoom' = [inRoom EXCEPT ![s] = @ \cup {p}]
  /\ mapped' = mapped \cup {s}
  /\ local' = [local EXCEPT ![s] = @ \cup ({p} \cap names[s])]

\* Mutant: the user stays among the local members.
RemoveListed(s, ps) ==
  /\ inRoom' = [inRoom EXCEPT ![s] = @ \ ps]
  /\ UNCHANGED <<mapped, local>>

\* removeUserFromRoom.
RemoveUsers(s, ps) ==
  /\ inRoom' = [inRoom EXCEPT ![s] = @ \ ps]
  /\ local' = [local EXCEPT ![s] = @ \ ps]
  /\ UNCHANGED mapped

-----------------------------------------------------------------------------
(* The operations of players. *)

\* registerMember, of a player that connects.
Register(s, p) ==
  /\ p \notin names[s] \/ (p \in inRoom[s] /\ s \in mapped /\ p \notin local[s])
  /\ names' = [names EXCEPT ![s] = @ \cup {p}]
  /\ local' = [local EXCEPT ![s] =
                 IF p \in inRoom[s] /\ s \in mapped THEN @ \cup {p} ELSE @]
  /\ UNCHANGED <<rooms, inRoom, mapped, inbox, calls, Rest>>

\* unregisterMember: the player stays in the room.
Unregister(s, p) ==
  /\ p \in names[s] \cup local[s]
  /\ names' = [names EXCEPT ![s] = @ \ {p}]
  /\ local' = [local EXCEPT ![s] = @ \ {p}]
  /\ UNCHANGED <<rooms, inRoom, mapped, inbox, calls, Rest>>

CreateRoom(s, o, persistent) ==
  /\ ~Here(s)
  /\ rooms' = [rooms EXCEPT ![s] = NewRoom(o, {o}, persistent)]
  /\ AddUser(s, o)
  /\ names' = [names EXCEPT ![s] = @ \cup {o}]
  /\ IF persistent
     THEN /\ calls' = [calls EXCEPT ![s] =
                         Append(@, [op |-> "created", player |-> o, done |-> FALSE])]
          /\ UNCHANGED inbox
     ELSE Publish(s, "created", o) /\ UNCHANGED calls
  /\ UNCHANGED Rest

\* What destroyRoom and handleRemoteRoomDestroyed forget.
Forget(s) ==
  /\ rooms' = [rooms EXCEPT ![s] = NoRoom]
  /\ inRoom' = [inRoom EXCEPT ![s] = @ \ rooms[s].members]
  /\ mapped' = mapped \ {s}
  /\ local' = [local EXCEPT ![s] = {}]
  /\ UNCHANGED names

\* destroyRoom, by the owner.
DestroyRoom(s) ==
  /\ Here(s)
  /\ Forget(s)
  /\ Announce(s, "destroyed", rooms[s].owner)
  /\ UNCHANGED Rest

JoinRoom(s, p) ==
  /\ Here(s)
  /\ p \notin rooms[s].members \cup rooms[s].banned
  /\ Cardinality(rooms[s].members) < MaxMembers
  /\ rooms' = [rooms EXCEPT ![s].members = @ \cup {p}]
  /\ AddUser(s, p)
  /\ names' = [names EXCEPT ![s] = @ \cup {p}]
  /\ Publish(s, "join", p)
  /\ UNCHANGED <<calls, Rest>>

LeaveRoom(s, p) ==
  /\ Here(s) /\ p \in rooms[s].members
  /\ rooms' = [rooms EXCEPT ![s].members = @ \ {p}]
  /\ RemoveUsers(s, {p})
  /\ Publish(s, "leave", p)
  /\ UNCHANGED <<names, calls, Rest>>

canModerate(s, actor) == Here(s) /\ actor \in {rooms[s].owner} \cup rooms[s].moderators

\* Whom kickUser and banUser may be used against.
MayRemove(s, actor, p) ==
  /\ canModerate(s, actor)
  /\ p \notin {actor, rooms[s].owner}
  /\ p \in rooms[s].moderators => actor = rooms[s].owner

KickUser(s, actor, p) ==
  /\ MayRemove(s, actor, p) /\ p \in rooms[s].members
  /\ rooms' = [rooms EXCEPT ![s].members = @ \ {p}]
  /\ RemoveUsers(s, {p})
  /\ Publish(s, "kick", p)
  /\ UNCHANGED <<names, calls, Rest>>

BanUser(s, actor, p) ==
  /\ MayRemove(s, actor, p)
  /\ rooms' = [rooms EXCEPT ![s].banned = @ \cup {p}, ![s].members = @ \ {p}]
  /\ RemoveUsers(s, {p} \cap rooms[s].members)
  /\ Announce(s, "ban", p)
  /\ UNCHANGED <<names, Rest>>

\* unbanUser: nothing keeps a moderator who was banned from it.
UnbanUser(s, actor, p) ==
  /\ canModerate(s, actor) /\ p \in rooms[s].banned
  /\ rooms' = [rooms EXCEPT ![s].banned = @ \ {p}]
  /\ Announce(s, "unban", p)
  /\ UNCHANGED <<inRoom, mapped, local, names, Rest>>

\* addModerator and removeModerator, by the owner: no other server hears of them.
SetModerators(s, op, p) ==
  /\ calls' = [calls EXCEPT ![s] =
       IF rooms[s].persistent
       THEN Append(@, [op |-> op, player |-> p, done |-> FALSE]) ELSE @]
  /\ UNCHANGED <<inRoom, mapped, local, names, inbox, Rest>>

AddModerator(s, p) ==
  /\ Here(s) /\ p \in rooms[s].members \ rooms[s].moderators
  /\ rooms' = [rooms EXCEPT ![s].moderators = @ \cup {p}]
  /\ SetModerators(s, "mod", p)

RemoveModerator(s, p) ==
  /\ Here(s) /\ p \in rooms[s].moderators \ {rooms[s].owner}
  /\ rooms' = [rooms EXCEPT ![s].moderators = @ \ {p}]
  /\ SetModerators(s, "unmod", p)

-----------------------------------------------------------------------------
(* The messages of the other servers. *)

Arrival(s, kind) == inbox[s] # <<>> /\ Head(inbox[s]).kind = kind

From(s) == Head(inbox[s]).player

Handled(s) ==
  /\ inbox' = [inbox EXCEPT ![s] = Tail(@)]
  /\ UNCHANGED <<calls, made, Rest>>

\* A message about a room the server does not have.
RemoteUnknown(s) ==
  /\ inbox[s] # <<>> /\ Head(inbox[s]).kind # "created" /\ ~Here(s)
  /\ UNCHANGED copies
  /\ Handled(s)

\* handleRemoteRoomCreated: the copy has no members, not even its owner.
RemoteCreated(s) ==
  /\ Arrival(s, "created")
  /\ rooms' = [rooms EXCEPT ![s] = IF Here(s) THEN @ ELSE NewRoom(From(s), {}, FALSE)]
  /\ UNCHANGED <<inRoom, mapped, local, names>>
  /\ Handled(s)

RemoteDestroyed(s) ==
  Here(s) /\ Arrival(s, "destroyed") /\ Forget(s) /\ Handled(s)

\* handleRemoteRoomJoin does not look at the bans.
RemoteJoin(s) ==
  /\ Here(s) /\ Arrival(s, "join")
  /\ rooms' = [rooms EXCEPT ![s].members = @ \cup {From(s)}]
  /\ names' = [names EXCEPT ![s] = @ \cup {From(s)}]
  /\ UNCHANGED <<inRoom, mapped, local>>
  /\ Handled(s)

\* handleRemoteRoomLeave leaves userRooms and localMembers as they are.
RemoteLeave(s) ==
  /\ Here(s) /\ Arrival(s, "leave")
  /\ rooms' = [rooms EXCEPT ![s].members = @ \ {From(s)}]
  /\ UNCHANGED <<inRoom, mapped, local, names>>
  /\ Handled(s)

RemoteKick(s) ==
  /\ Here(s) /\ Arrival(s, "kick")
  /\ rooms' = [rooms EXCEPT ![s].members = @ \ {From(s)}]
  /\ RemoveUsers(s, {From(s)})
  /\ UNCHANGED names
  /\ Handled(s)

\* Mutant: a ban from another server leaves the member in the room.
RemoteBanOnly(s) ==
  /\ Here(s) /\ Arrival(s, "ban")
  /\ rooms' = [rooms EXCEPT ![s].banned = @ \cup {From(s)}]
  /\ UNCHANGED <<inRoom, mapped, local, names>>
  /\ Handled(s)

\* handleRemoteRoomBan.
RemoteBan(s) ==
  /\ Here(s) /\ Arrival(s, "ban")
  /\ rooms' = [rooms EXCEPT ![s].banned = @ \cup {From(s)}, ![s].members = @ \ {From(s)}]
  /\ RemoveUsers(s, {From(s)})
  /\ UNCHANGED names
  /\ Handled(s)

RemoteUnban(s) ==
  /\ Here(s) /\ Arrival(s, "unban")
  /\ rooms' = [rooms EXCEPT ![s].banned = @ \ {From(s)}]
  /\ UNCHANGED <<inRoom, mapped, local, names>>
  /\ Handled(s)

-----------------------------------------------------------------------------
(* The database, and crashes. *)

\* What a call makes of the stored room; one about a room that is not stored
\* does nothing.
Effect(c) ==
  IF c.op = "created"
  THEN [owner |-> c.player, moderators |-> {c.player}, banned |-> {}]
  ELSE IF c.op = "destroyed" \/ db = NoRoom THEN NoRoom
  ELSE CASE c.op = "ban"   -> [db EXCEPT !.banned = @ \cup {c.player}]
         [] c.op = "unban" -> [db EXCEPT !.banned = @ \ {c.player}]
         [] c.op = "mod"   -> [db EXCEPT !.moderators = @ \cup {c.player}]
         [] OTHER          -> [db EXCEPT !.moderators = @ \ {c.player}]

\* The database carries out a call, or fails to, which is only logged.  Calls
\* are independent of each other.
Execute(s, k, ok) ==
  /\ k \in DOMAIN calls[s] /\ ~calls[s][k].done
  /\ db' = IF ok THEN Effect(calls[s][k]) ELSE db
  /\ calls' = [calls EXCEPT ![s][k].done = TRUE]
  /\ UNCHANGED <<copies, inbox, phase, loaded, made, crashes>>

\* The answer arrives, and the operation goes on to its publication.
Resume(s, k) ==
  /\ k \in DOMAIN calls[s] /\ calls[s][k].done
  /\ calls' = [calls EXCEPT ![s] = RemoveAt(@, k)]
  /\ IF calls[s][k].op \in {"mod", "unmod"} THEN UNCHANGED inbox
     ELSE Publish(s, calls[s][k].op, calls[s][k].player)
  /\ UNCHANGED <<copies, made, Rest>>

Crash(s) ==
  /\ phase[s] = "up" /\ crashes < MaxCrashes
  /\ crashes' = crashes + 1
  /\ phase' = [phase EXCEPT ![s] = "down"]
  /\ rooms' = [rooms EXCEPT ![s] = NoRoom]
  /\ inRoom' = [inRoom EXCEPT ![s] = {}]
  /\ mapped' = mapped \ {s}
  /\ local' = [local EXCEPT ![s] = {}]
  /\ names' = [names EXCEPT ![s] = {}]
  /\ inbox' = [inbox EXCEPT ![s] = <<>>]
  /\ calls' = [calls EXCEPT ![s] = <<>>]
  /\ UNCHANGED <<db, loaded, made>>

\* initialize: the server subscribes and reads the rooms, or fails to.
Start(s) ==
  /\ phase[s] = "down"
  /\ phase' = [phase EXCEPT ![s] = "loading"]
  /\ loaded' \in {[loaded EXCEPT ![s] = room] : room \in {db, NoRoom}}
  /\ UNCHANGED <<copies, inbox, calls, db, made, crashes>>

\* The rooms read take the place of what messages have made since.
Load(s) ==
  /\ phase[s] = "loading"
  /\ phase' = [phase EXCEPT ![s] = "up"]
  /\ rooms' = [rooms EXCEPT ![s] = IF loaded[s] = NoRoom THEN @ ELSE FromDatabase(loaded[s])]
  /\ loaded' = [loaded EXCEPT ![s] = NoRoom]
  /\ UNCHANGED <<inRoom, mapped, local, names, inbox, calls, db, made, crashes>>

-----------------------------------------------------------------------------
\* An operation is carried out at once, up to its first await.
Operation(s, A) == phase[s] = "up" /\ made < MaxCalls /\ made' = made + 1 /\ A

\* The operations on the membership and the bans of one player.
MemberStep(s, p) ==
  Operation(s,
    \/ JoinRoom(s, p) \/ LeaveRoom(s, p)
    \/ \E actor \in Player :
         KickUser(s, actor, p) \/ BanUser(s, actor, p) \/ UnbanUser(s, actor, p))

\* The operations on the room.
RoomStep(s) ==
  Operation(s,
    \/ \E o \in Player, persistent \in BOOLEAN : CreateRoom(s, o, persistent)
    \/ DestroyRoom(s))

\* The operations of which other servers do not hear.
LocalStep(s) ==
  \E p \in Player :
    Operation(s, Register(s, p) \/ Unregister(s, p) \/ AddModerator(s, p) \/ RemoveModerator(s, p))

RemoteStep(s) ==
  \/ RemoteUnknown(s) \/ RemoteCreated(s) \/ RemoteDestroyed(s)
  \/ RemoteJoin(s) \/ RemoteLeave(s) \/ RemoteKick(s) \/ RemoteBan(s) \/ RemoteUnban(s)

DatabaseStep(s) ==
  \E k \in DOMAIN calls[s] : Resume(s, k) \/ \E ok \in BOOLEAN : Execute(s, k, ok)

ServerStep(s) == Crash(s) \/ Start(s) \/ Load(s)

Next ==
  \E s \in Server :
    \/ RoomStep(s) \/ LocalStep(s) \/ \E p \in Player : MemberStep(s, p)
    \/ RemoteStep(s) \/ DatabaseStep(s) \/ ServerStep(s)

Spec == Init /\ [][Next]_vars

-----------------------------------------------------------------------------
(* Properties. *)

\* The servers' tables, the messages and calls under way and the database hold
\* what the code can put there.
TypeOK ==
  /\ rooms \in [Server -> Room \cup {NoRoom}]
  /\ inRoom \in [Server -> SUBSET Player]
  /\ mapped \subseteq Server
  /\ local \in [Server -> SUBSET Player]
  /\ names \in [Server -> SUBSET Player]
  /\ inbox \in [Server -> Seq(Message)]
  /\ calls \in [Server -> Seq(Call)]
  /\ db \in Stored \cup {NoRoom}
  /\ phase \in [Server -> {"up", "down", "loading"}]
  /\ loaded \in [Server -> Stored \cup {NoRoom}]
  /\ made \in Nat /\ crashes \in Nat
=============================================================================
