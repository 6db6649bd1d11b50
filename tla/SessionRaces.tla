---------------------------- MODULE SessionRaces ----------------------------
(***************************************************************************)
(* SessionStore with a history variable: the accounts for which the        *)
(* pipeline of a createSession ran while another call stood between what   *)
(* it read of the account and what it was about to write.  Whatever else   *)
(* overlaps (logins up to their pipelines, deletions, updates, refreshes,  *)
(* TTLs that run out), the account's session and its index entry agree.    *)
(***************************************************************************)
EXTENDS SessionStore

VARIABLE raced

raceVars == <<vars, raced>>

\* The call has read of the account what its next command relies on: the session
\* createSession replaces, or the one deleteSession has found.
Decided(h, a) ==
  \/ At(h, "store") /\ op[h].account = a
  \/ At(h, "deleteBoth") /\ owner[op[h].token] = a

\* This step is the pipeline of a login, under the feet of another call.
Clashing ==
  {a \in Account : \E g, h \in Handler :
     g # h /\ CreateStore(g) /\ op[g].account = a /\ Decided(h, a)}

RaceInit == Init /\ raced = {}

RaceNext == Next /\ raced' = raced \cup Clashing

RaceSpec == RaceInit /\ [][RaceNext]_raceVars

\* Unless a createSession stored under the feet of another call, an account has
\* one session at most, however its logins, deletions, updates and refreshes
\* overlap otherwise and wherever TTLs run out between their commands.
OneUnlessRaced ==
  \A a \in Account \ raced : \A t, u \in Live(a) : t = u

\* Unless a createSession stored under the feet of another call, a session that
\* exists is the one the index leads to: no late deletion and no expiry takes
\* the entry away from under it, and the next login finds and invalidates it.
ReachableUnlessRaced ==
  \A a \in Account \ raced : \A t \in Live(a) : index[a] = t
=============================================================================
