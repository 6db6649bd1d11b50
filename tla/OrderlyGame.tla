----------------------------- MODULE OrderlyGame -----------------------------
(***************************************************************************)
(* GameServer with a history variable: whether every Session has come and  *)
(* gone in good order so far, none replaced while it was live and none     *)
(* ended while an answer for it was awaited.                               *)
(***************************************************************************)
EXTENDS GameServer

VARIABLE orderly

orderlyVars == <<vars, orderly>>

Replaced == \E a \in Address : None \notin {sessions[a], sessions'[a]} /\ sessions'[a] # sessions[a]

EndsAwaited ==
  \E s \in SessionIds : Connected(s) /\ ~Connected(s)' /\ \E h \in Handler : op'[h].session = s

OrderlyInit == Init /\ orderly = TRUE

OrderlyNext == Next /\ orderly' = (orderly /\ ~Replaced /\ ~EndsAwaited)

OrderlySpec == OrderlyInit /\ [][OrderlyNext]_orderlyVars

\* Until a Session is replaced or ends in mid-call, nobody is left standing
\* in the world when its client has gone.
GoneWhenGone == orderly => RegisteredIsPlaying

\* Until a Session is replaced or ends in mid-call, what a client sends is
\* handled in the name of the Session it was sent on.
OwnIdentityInOrder == orderly => OwnIdentity
=============================================================================
