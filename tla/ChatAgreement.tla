--------------------------- MODULE ChatAgreement ---------------------------
(***************************************************************************)
(* ChatRooms with a record of what the servers cannot agree about, since   *)
(* nothing orders their operations, and members and bans are not all       *)
(* passed on or saved.                                                     *)
(***************************************************************************)
EXTENDS ChatRooms

VARIABLES
  contested, \* players operated on while news of them or of the room was under way
  split,     \* the room was made or destroyed while news, or another copy, was about
  unsaved,   \* players whose ban or unban the database did not get
  renewed,   \* the servers that have crashed: they have lost the members
  strays     \* the servers and players of RemoteLeave that are still in userRooms

history == <<contested, split, unsaved, renewed, strays>>

RoomWide == {"created", "destroyed"}

\* News that server s has yet to hear, or that some server has yet to publish.
Unheard(s) ==
  {<<m.kind, m.player>> : m \in Range(inbox[s])}
    \cup {<<c.op, c.player>> : c \in UNION {Range(calls[t]) : t \in Server}}

About(news) == IF \E n \in news : n[1] \in RoomWide THEN Player ELSE {n[2] : n \in news}

Raced(s, p) == {p} \cap About(Unheard(s))

\* Another server has the room, or will hear of one.
KnownElsewhere(s) ==
  \E t \in Server \ {s} : Here(t) \/ \E m \in Range(inbox[t]) : m.kind \in RoomWide

\* A player whose ban has changed without a call of the database.
BannedUnsaved(s) ==
  {p \in Player :
     /\ Here(s) /\ calls'[s] = calls[s]
     /\ (p \in rooms[s].banned) # (p \in rooms'[s].banned)}

\* Whom calls of the database are about, but for those on moderators.
Concerned(cs) ==
  About({<<c.op, c.player>> : c \in {d \in cs : d.op \notin {"mod", "unmod"}}})

\* The call that was carried out, if the database is as it was before.
InVain(s) ==
  {calls[s][k] : k \in {k \in DOMAIN calls[s] :
     Len(calls'[s]) = Len(calls[s]) /\ calls'[s][k] # calls[s][k] /\ db' = db}}

\* Whose bans a server that has loaded the room and the others differ about,
\* or it and the database, which may have changed since it was read.
LoadedOtherwise(s) ==
  IF loaded[s] = NoRoom THEN {}
  ELSE About(UNION {Unheard(t) : t \in Server}) \cup
       {p \in Player :
          \/ \E t \in Server \ {s} :
               Here(t) /\ (p \in rooms[t].banned) # (p \in loaded[s].banned)
          \/ db # NoRoom /\ (p \in db.banned) # (p \in loaded[s].banned)}

LoadedAnother(s) ==
  /\ loaded[s] # NoRoom
  /\ \/ \E t \in Server \ {s} : Here(t) /\ rooms[t].owner # loaded[s].owner
     \/ \E t \in Server : \E n \in Unheard(t) : n[1] \in RoomWide

StraysNow(new) ==
  {x \in strays \cup new :
     /\ x[2] \in inRoom'[x[1]]
     /\ rooms'[x[1]] # NoRoom => x[2] \notin rooms'[x[1]].members}

LeftElsewhere(s) == IF Here(s) /\ Arrival(s, "leave") THEN {<<s, From(s)>>} ELSE {}

AgreementInit ==
  /\ Init
  /\ contested = {} /\ split = FALSE /\ unsaved = {} /\ renewed = {} /\ strays = {}

Recorded(s) ==
  \/ /\ \E p \in Player : MemberStep(s, p) /\ contested' = contested \cup Raced(s, p)
     /\ unsaved' = unsaved \cup BannedUnsaved(s)
     /\ strays' = StraysNow({})
     /\ UNCHANGED <<split, renewed>>
  \/ /\ RoomStep(s)
     /\ split' = (split \/ Unheard(s) # {} \/ (~Here(s) /\ KnownElsewhere(s)))
     /\ strays' = StraysNow({})
     /\ UNCHANGED <<contested, unsaved, renewed>>
  \/ /\ RemoteStep(s)
     /\ strays' = StraysNow(LeftElsewhere(s))
     /\ UNCHANGED <<contested, split, unsaved, renewed>>
  \/ /\ DatabaseStep(s)
     /\ unsaved' = unsaved \cup Concerned(InVain(s))
     /\ UNCHANGED <<contested, split, renewed, strays>>
  \/ /\ Crash(s)
     /\ unsaved' = unsaved \cup Concerned(Range(calls[s]))
     /\ renewed' = renewed \cup {s}
     /\ strays' = StraysNow({})
     /\ UNCHANGED <<contested, split>>
  \/ /\ Load(s)
     /\ contested' = contested \cup LoadedOtherwise(s)
     /\ split' = (split \/ LoadedAnother(s))
     /\ strays' = StraysNow({})
     /\ UNCHANGED <<unsaved, renewed>>
  \/ (LocalStep(s) \/ Start(s)) /\ UNCHANGED history

AgreementNext == \E s \in Server : Recorded(s)

AgreementSpec == AgreementInit /\ [][AgreementNext]_<<vars, history>>

-----------------------------------------------------------------------------
(* Properties. *)

AtRest == \A s \in Server : inbox[s] = <<>> /\ calls[s] = <<>> /\ phase[s] = "up"

Agree(s, t, p) ==
  /\ p \in rooms[s].banned <=> p \in rooms[t].banned
  /\ {s, t} \cap renewed = {} /\ p # rooms[s].owner
       => (p \in rooms[s].members <=> p \in rooms[t].members)

\* When all is delivered and saved, the servers have the same room, with the
\* same bans and members, and nobody is in it who is banned: but for players
\* who were operated on at two servers at once, for the owner, whom the copies
\* do not list before he joins, and for members a crash has lost
\* (chat-room-handler.ts:274, :1275, :1345, :1366).
AgreeAtRest ==
  AtRest /\ ~split =>
    \A s, t \in Server :
      /\ {s, t} \cap renewed = {} => (Here(s) <=> Here(t))
      /\ Here(s) /\ Here(t) =>
           /\ rooms[s].owner = rooms[t].owner
           /\ rooms[s].members \cap rooms[s].banned \subseteq contested
           /\ \A p \in Player \ contested : Agree(s, t, p)

\* The bans of a persistent room are those a restart would load: what was
\* decided on the server that keeps the room is in the database when its calls
\* have come back, unless one of them failed (chat-room-handler.ts:768, :845).
BansSurvive ==
  AtRest /\ ~split /\ db # NoRoom =>
    \A s \in Server : Here(s) /\ rooms[s].persistent =>
      \A p \in Player \ (contested \cup unsaved) :
        p \in rooms[s].banned <=> p \in db.banned

\* Who is sent the messages of a room, or is listed for it, is a member of it,
\* on every server and at every moment, but for who has left it through another
\* server (chat-room-handler.ts:1294, :1461, :1489).
HearersBelong ==
  \A s \in Server :
    /\ local[s] \subseteq inRoom[s]
    /\ s \notin mapped => local[s] = {}
    /\ \A p \in inRoom[s] :
         <<s, p>> \in strays \/ (Here(s) /\ p \in rooms[s].members)
=============================================================================
