------------------------- MODULE ConnectionPresence -------------------------
(***************************************************************************)
(* ConnectionServer with history variables: who has presented a token, and *)
(* the addresses whose clients have got into one of the races the server   *)
(* does not guard against.  For all the others, what the bus and Redis say *)
(* of a client must agree with whether it is there, whatever happens to    *)
(* the troubled ones meanwhile.                                            *)
(***************************************************************************)
EXTENDS ConnectionServer

VARIABLES holders, troubled

presenceVars == <<vars, holders, troubled>>

Handling == {"getSession", "deleteExpired", "updateSession", "publishConnected",
             "select", "publishRouted", "publishZoneRequest"}

Cleaning == {"publishGone", "deleteGone"}

\* The calls that work on the entries of an address.
CallsOf(a, pcs) ==
  {h \in Handler : op[h].pc \in pcs /\ op[h].entry # None /\ AddressOf(op[h].entry) = a}

Presenters(t) ==
  {AddressOf(op[h].entry) : h \in {g \in Handler : At(g, "getSession") /\ op[g].token = t}}

\* A Session ended while a handler was working for it.
EndedInCall(a) ==
  \E h \in CallsOf(a, Handling) : ~Connected(entries[op[h].entry].session)

\* Two calls authenticate one entry, or one an entry that is authenticated.
AuthenticatedTwice(a) ==
  \E h \in CallsOf(a, Handling) : At(h, "getSession") /\
    \/ entries[op[h].entry].token # NoToken
    \/ \E g \in CallsOf(a, Handling) : g # h /\ op[g].entry = op[h].entry

\* Its client was found idle, although it may be connected.
FoundIdle(a) ==
  \E h \in Handler : op[h].pc = "nextIdle" /\ \E e \in op[h].idle : AddressOf(e) = a

\* Another address has presented the same token.
TokenShared(a) == \E t \in Token : a \in holders[t] /\ holders[t] # {a}

Trouble(a) == EndedInCall(a) \/ AuthenticatedTwice(a) \/ FoundIdle(a) \/ TokenShared(a)

\* The Session of the address was replaced, a new one came before the last
\* one's cleanup was over, or Redis failed a call for it.
TroubleInStep(a) ==
  \/ sessions[a] # sessions'[a] /\ sessions'[a] # None /\
       (sessions[a] # None \/ CallsOf(a, Cleaning) # {})
  \/ \E h \in CallsOf(a, Handling \cup Cleaning) : Failed(h)

PresenceInit == Init /\ holders = [t \in Token |-> {}] /\ troubled = {}

PresenceNext ==
  /\ Next
  /\ holders' = [t \in Token |-> holders[t] \cup Presenters(t)']
  /\ troubled' = troubled \cup {a \in Address : TroubleInStep(a) \/ Trouble(a)'}

PresenceSpec == PresenceInit /\ [][PresenceNext]_presenceVars

-----------------------------------------------------------------------------
(* Properties. *)

\* A client that is connected has the entry that was made for its own Session:
\* it is never taken for the client its address belonged to before.
OwnEntry ==
  \A a \in Address \ troubled : sessions[a] # None =>
    /\ connectionSessions[a] # None
    /\ entries[connectionSessions[a]].session = sessions[a]

Quiet(a) == CallsOf(a, Handling \cup Cleaning) = {}

OwnersOf(t) == {e \in Entries : entries[e].token = t}

\* Whenever no call for it is under way, an authenticated client that is
\* connected has been announced last as connected or in the game, and one
\* that has gone as disconnected: whoever follows the bus knows who is there.
PresenceKnown ==
  \A e \in Entries :
    LET a == AddressOf(e)
        heard == bus[entries[e].token]
    IN  a \notin troubled /\ Quiet(a) /\ entries[e].token # NoToken =>
          /\ heard # <<>>
          /\ (heard[Len(heard)] = "disconnected") <=>
               \A f \in OwnersOf(entries[e].token) : ~Connected(entries[f].session)

\* A client that has gone leaves no token behind that would still be good.
GoneIsRevoked ==
  \A e \in Entries :
    LET a == AddressOf(e)
    IN  a \notin troubled /\ Quiet(a) /\ ~Connected(entries[e].session)
          => entries[e].token \notin redis

\* What is published of a client comes in order: it is connected before it is
\* routed anywhere, and nothing follows its disconnection.
BusInOrder ==
  \A e \in Entries :
    LET heard == bus[entries[e].token]
    IN  AddressOf(e) \notin troubled /\ entries[e].token # NoToken =>
          \A i \in DOMAIN heard :
            /\ (heard[i] = "connected") <=> (i = 1)
            /\ heard[i] = "disconnected" => i = Len(heard)
=============================================================================
