----------------------------- MODULE SoeSessions -----------------------------
(***************************************************************************)
(* The session table of SessionManager, packages/protocol/src/soe/         *)
(* session-manager.ts: which Session object each client address is bound   *)
(* to, and when a Session lives and dies.  A server module composes these  *)
(* steps with what its own handlers of 'session:connected',                *)
(* 'session:disconnected' and 'data' do.                                   *)
(***************************************************************************)
EXTENDS Naturals, Sequences

CONSTANTS
  Address,     \* client addresses, "ip:port"
  MaxSessions  \* bound on the Session objects of a behaviour

ASSUME SessionsAssumption == MaxSessions \in Nat

VARIABLES
  soe,      \* every Session object made so far
  sessions  \* SessionManager.sessions: the Session of an address, or None

sessionVars == <<soe, sessions>>

-----------------------------------------------------------------------------
None == 0

Session == [address : Address, state : {"Connected", "Disconnected"}]

SessionIds == 1 .. Len(soe)

Connected(s) == soe[s].state = "Connected"

SessionsInit ==
  /\ soe = <<>>
  /\ sessions = [a \in Address |-> None]

Closed(s) == IF s = None THEN soe ELSE [soe EXCEPT ![s].state = "Disconnected"]

\* Mutant: the Session that is replaced stays as it was.
KeepReplaced(a) ==
  /\ Len(soe) < MaxSessions
  /\ soe' = Append(soe, [address |-> a, state |-> "Connected"])
  /\ sessions' = [sessions EXCEPT ![a] = Len(soe) + 1]

\* processSessionRequest and createSession: whatever Session the address had
\* is removed without an event; the new one is Connected at once, before the
\* client has answered.
ProcessSessionRequest(a) ==
  /\ Len(soe) < MaxSessions
  /\ soe' = Append(Closed(sessions[a]), [address |-> a, state |-> "Connected"])
  /\ sessions' = [sessions EXCEPT ![a] = Len(soe) + 1]

\* removeSession, at the end of processDisconnect and of disconnectSession,
\* which tick calls on a timeout: it removes the Session its address is bound
\* to.  Both have set the state to Terminating and emitted
\* 'session:disconnected' by then.
RemoveSession(s) ==
  LET a == soe[s].address IN
  /\ soe' = Closed(sessions[a])
  /\ sessions' = [sessions EXCEPT ![a] = None]

-----------------------------------------------------------------------------
SessionsTypeOK ==
  /\ soe \in Seq(Session)
  /\ sessions \in [Address -> {None} \cup SessionIds]

\* The table and the Session objects agree: a Session is in the table, under
\* its own address, as long as it is connected and no longer.  Handlers keep
\* Session objects across awaits, so their state is all they have to go by.
LiveIffMapped ==
  /\ \A s \in SessionIds : Connected(s) <=> sessions[soe[s].address] = s
  /\ \A a \in Address : sessions[a] # None => soe[sessions[a]].address = a
=============================================================================
