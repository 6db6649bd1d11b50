--------------------------- MODULE MovementHandler ---------------------------
(***************************************************************************)
(* The player tables of MovementHandler, apps/game-server/src/handlers/    *)
(* movement-handler.ts: registerPlayer, unregisterPlayer and the spatial   *)
(* index that updatePlayerPosition keeps, from which broadcastMovement     *)
(* picks who sees a move.  A PlayerObject is made by every zone-in, so one *)
(* character may have several; the tables know only its object id.         *)
(***************************************************************************)
EXTENDS Naturals, Sequences

CONSTANTS
  Character,  \* characters, which are also the object ids
  Cell        \* cells of the 64 m grid

VARIABLES
  objects,      \* every PlayerObject made so far, with the cell it stands in
  players,      \* playersByObjectId (and sessionsByObjectId, playerObjects)
  spatialIndex  \* the characters listed in each cell

movementVars == <<objects, players, spatialIndex>>

-----------------------------------------------------------------------------
NoPlayer == 0

PlayerObject == [character : Character, cell : Cell]

MovementInit ==
  /\ objects = <<>>
  /\ players = [c \in Character |-> NoPlayer]
  /\ spatialIndex = [x \in Cell |-> {}]

addToSpatialIndex(index, c, x) == [index EXCEPT ![x] = @ \cup {c}]
removeFromSpatialIndex(index, c, x) == [index EXCEPT ![x] = @ \ {c}]

\* Mutants: the PlayerObject is not kept; the player is only put in the index.
RegisterUnbuilt(c, x) ==
  /\ players' = [players EXCEPT ![c] = Len(objects) + 1]
  /\ spatialIndex' = addToSpatialIndex(spatialIndex, c, x)
  /\ UNCHANGED objects

RegisterIndexOnly(c, x) ==
  /\ objects' = Append(objects, [character |-> c, cell |-> x])
  /\ spatialIndex' = addToSpatialIndex(spatialIndex, c, x)
  /\ UNCHANGED players

\* registerPlayer of a PlayerObject just built for c, standing in x.
registerPlayer(c, x) ==
  /\ objects' = Append(objects, [character |-> c, cell |-> x])
  /\ players' = [players EXCEPT ![c] = Len(objects) + 1]
  /\ spatialIndex' = addToSpatialIndex(spatialIndex, c, x)

\* Mutant: the spatial index is not told.
ForgetIndex(c) ==
  /\ players' = [players EXCEPT ![c] = NoPlayer]
  /\ UNCHANGED <<objects, spatialIndex>>

unregisterPlayer(c) ==
  /\ players' = [players EXCEPT ![c] = NoPlayer]
  /\ spatialIndex' = IF players[c] = NoPlayer THEN spatialIndex
                     ELSE removeFromSpatialIndex(spatialIndex, c, objects[players[c]].cell)
  /\ UNCHANGED objects

\* updatePlayerPosition, for a move that handleDataTransform or
\* handleDataTransformWithParent has found valid.
updatePlayerPosition(o, x) ==
  LET c == objects[o].character
      from == objects[o].cell
  IN  /\ objects' = [objects EXCEPT ![o].cell = x]
      /\ spatialIndex' = IF x = from THEN spatialIndex
           ELSE addToSpatialIndex(removeFromSpatialIndex(spatialIndex, c, from), c, x)
      /\ UNCHANGED players

-----------------------------------------------------------------------------
MovementTypeOK ==
  /\ objects \in Seq(PlayerObject)
  /\ players \in [Character -> {NoPlayer} \cup DOMAIN objects]
  /\ spatialIndex \in [Cell -> SUBSET Character]

\* A character is listed in the cell its registered PlayerObject stands in
\* and nowhere else, and not at all once unregistered: getNearbyPlayers finds
\* whoever is in view, once.
IndexExact ==
  \A x \in Cell : spatialIndex[x] =
    {c \in Character : players[c] # NoPlayer /\ objects[players[c]].cell = x}
=============================================================================
