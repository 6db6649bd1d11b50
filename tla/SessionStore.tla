---------------------------- MODULE SessionStore ----------------------------
(***************************************************************************)
(* Player sessions in Redis: packages/redis/src/session-store.ts, used by  *)
(* the login flow of apps/login-server/src/handlers/login-handler.ts and   *)
(* by the connection and game servers.  Several handlers run at once, on   *)
(* one server or on several; each await of a Redis command is a point      *)
(* where the others move.  Redis itself is external: a command, and a      *)
(* pipeline sent in one write, takes effect as a whole; a key with a TTL   *)
(* may expire at any moment.                                               *)
(***************************************************************************)
EXTENDS Naturals, FiniteSets

CONSTANTS
  Account,   \* accounts
  Handler,   \* the handlers in flight
  MaxTokens  \* bound on the sessions a behaviour creates

ASSUME StoreAssumption == MaxTokens \in Nat /\ Account # {}

VARIABLES
  hash,     \* session:<token>: "none", "live" (a whole session) or "partial"
  index,    \* session:account:<id>: a token, or NoToken
  owner,    \* the account every issued token was made for (not in Redis)
  issued,   \* how many tokens were generated
  born,     \* tokens whose session has been stored (not in Redis)
  op        \* what each handler is doing, between two awaits

store == <<hash, index>>
vars == <<hash, index, owner, issued, born, op>>

-----------------------------------------------------------------------------
Token == 1 .. MaxTokens
NoToken == 0

\* pc names the Redis command the handler is about to send; token is the one
\* it works on and existing the one createSession is to replace; a login goes
\* on to createSession after its deleteSession.
Call(pc, account, token, login) ==
  [pc |-> pc, account |-> account, token |-> token, existing |-> NoToken,
   login |-> login]

Idle == Call("idle", CHOOSE a \in Account : TRUE, NoToken, FALSE)

Init ==
  /\ hash = [t \in Token |-> "none"]
  /\ index = [a \in Account |-> NoToken]
  /\ owner = [t \in Token |-> CHOOSE a \in Account : TRUE]
  /\ issued = 0 /\ born = {}
  /\ op = [h \in Handler |-> Idle]

At(h, pc) == op[h].pc = pc
Goto(h, pc) == op' = [op EXCEPT ![h].pc = pc]
Return(h) == op' = [op EXCEPT ![h] = Idle]
Local == UNCHANGED <<owner, issued, born>>

\* Mutant of deserialize: the mandatory fields are not required.
AnyHash(value) == value # "none"

\* deserialize: a hash without its mandatory fields is no session.
deserialize(value) == value = "live"

\* HSET of single fields creates the key if it has gone meanwhile.
HSetFields(value) == IF value = "none" THEN "partial" ELSE value

-----------------------------------------------------------------------------
(* getSessionByAccountId and getTokenByAccountId, as validateCredentials   *)
(* calls them to find a session to invalidate.                             *)

\* Bound: every login under way still has a token to generate.
TokenLeft ==
  issued + Cardinality({h \in Handler : op[h].login /\ op[h].pc # "store"}) < MaxTokens

LoginClientId(h, a) ==
  /\ At(h, "idle") /\ TokenLeft
  /\ op' = [op EXCEPT ![h] = Call("findIndex", a, NoToken, TRUE)]
  /\ Local /\ UNCHANGED store

FindIndex(h) ==
  LET t == index[op[h].account] IN
  /\ At(h, "findIndex")
  /\ op' = [op EXCEPT ![h].token = t,
                      ![h].pc = IF t = NoToken THEN "readExisting" ELSE "findSession"]
  /\ Local /\ UNCHANGED store

FindSession(h) ==
  /\ At(h, "findSession")
  /\ Goto(h, IF deserialize(hash[op[h].token]) THEN "findToken" ELSE "readExisting")
  /\ Local /\ UNCHANGED store

\* Mutant of FindToken: validateCredentials does not test the token it found.
FindTokenUnchecked(h) ==
  /\ At(h, "findToken")
  /\ op' = [op EXCEPT ![h].token = index[op[h].account], ![h].pc = "readDoomed"]
  /\ Local /\ UNCHANGED store

FindToken(h) ==
  LET t == index[op[h].account] IN
  /\ At(h, "findToken")
  /\ op' = [op EXCEPT ![h].token = t,
                      ![h].pc = IF t = NoToken THEN "readExisting" ELSE "readDoomed"]
  /\ Local /\ UNCHANGED store

-----------------------------------------------------------------------------
(* createSession *)

\* A token is generated and the account's present one is read.
CreateRead(h) ==
  /\ At(h, "readExisting")
  /\ issued < MaxTokens
  /\ issued' = issued + 1
  /\ owner' = [owner EXCEPT ![issued + 1] = op[h].account]
  /\ op' = [op EXCEPT ![h] = [Call("store", op[h].account, issued + 1, TRUE)
                              EXCEPT !.existing = index[op[h].account]]]
  /\ UNCHANGED <<store, born>>

\* Mutant of CreateStore: the account index is not written.
StoreNoIndex(h) ==
  /\ At(h, "store")
  /\ hash' = [u \in Token |-> IF u = op[h].existing THEN "none"
                              ELSE IF u = op[h].token THEN "live" ELSE hash[u]]
  /\ born' = born \cup {op[h].token}
  /\ Return(h)
  /\ UNCHANGED <<index, owner, issued>>

\* The pipeline: hset, expire, del of the existing session, set of the index.
CreateStore(h) ==
  LET t == op[h].token IN
  /\ At(h, "store")
  /\ hash' = [u \in Token |-> IF u = op[h].existing THEN "none"
                              ELSE IF u = t THEN "live" ELSE hash[u]]
  /\ index' = [index EXCEPT ![op[h].account] = t]
  /\ born' = born \cup {t}
  /\ Return(h)
  /\ UNCHANGED <<owner, issued>>

-----------------------------------------------------------------------------
(* deleteSession: an account is read from the session, then the session    *)
(* and the account's index entry are deleted.                              *)

DeleteSession(h, t) ==
  /\ At(h, "idle")
  /\ op' = [op EXCEPT ![h] = Call("readDoomed", op[h].account, t, FALSE)]
  /\ Local /\ UNCHANGED store

AfterDelete(h) ==
  IF op[h].login THEN Goto(h, "readExisting") ELSE Return(h)

DeleteRead(h) ==
  /\ At(h, "readDoomed")
  /\ IF deserialize(hash[op[h].token]) THEN Goto(h, "deleteBoth") ELSE AfterDelete(h)
  /\ Local /\ UNCHANGED store

\* Mutant of DeleteBoth: only the index is deleted.
DeleteIndexOnly(h) ==
  /\ At(h, "deleteBoth")
  /\ index' = [index EXCEPT ![owner[op[h].token]] = NoToken]
  /\ AfterDelete(h)
  /\ Local /\ UNCHANGED hash

DeleteBoth(h) ==
  LET t == op[h].token IN
  /\ At(h, "deleteBoth")
  /\ hash' = [hash EXCEPT ![t] = "none"]
  /\ index' = [index EXCEPT ![owner[t]] = NoToken]
  /\ AfterDelete(h)
  /\ Local

-----------------------------------------------------------------------------
(* updateSession and refreshSession *)

UpdateSession(h, t) ==
  /\ At(h, "idle")
  /\ op' = [op EXCEPT ![h] = Call("exists", op[h].account, t, FALSE)]
  /\ Local /\ UNCHANGED store

UpdateExists(h) ==
  /\ At(h, "exists")
  /\ IF hash[op[h].token] # "none" THEN Goto(h, "hset") ELSE Return(h)
  /\ Local /\ UNCHANGED store

\* The HSET that ends updateSession and the pipeline of refreshSession (its
\* EXPIREs find nothing to extend on a key that has gone).
WriteFields(h) ==
  /\ At(h, "hset")
  /\ hash' = [hash EXCEPT ![op[h].token] = HSetFields(@)]
  /\ Return(h)
  /\ Local /\ UNCHANGED index

RefreshSession(h, t) ==
  /\ At(h, "idle")
  /\ op' = [op EXCEPT ![h] = Call("refreshExists", op[h].account, t, FALSE)]
  /\ Local /\ UNCHANGED store

RefreshExists(h) ==
  /\ At(h, "refreshExists")
  /\ IF hash[op[h].token] # "none" THEN Goto(h, "refreshRead") ELSE Return(h)
  /\ Local /\ UNCHANGED store

RefreshRead(h) ==
  /\ At(h, "refreshRead")
  /\ IF deserialize(hash[op[h].token]) THEN Goto(h, "hset") ELSE Return(h)
  /\ Local /\ UNCHANGED store

-----------------------------------------------------------------------------
(* Redis: the TTL of a session runs out, then that of its index entry.  A  *)
(* key that HSET brought back has no TTL.                                  *)

ExpireSession(t) ==
  /\ hash[t] = "live"
  /\ hash' = [hash EXCEPT ![t] = "none"]
  /\ UNCHANGED <<index, op>> /\ Local

ExpireIndex(a) ==
  /\ index[a] # NoToken
  /\ hash[index[a]] # "live"
  /\ index' = [index EXCEPT ![a] = NoToken]
  /\ UNCHANGED <<hash, op>> /\ Local

-----------------------------------------------------------------------------
\* The steps of one handler; servers hold only tokens of sessions that were
\* stored.
Step(h) ==
  \/ \E a \in Account : LoginClientId(h, a)
  \/ FindIndex(h) \/ FindSession(h) \/ FindToken(h)
  \/ CreateRead(h) \/ CreateStore(h)
  \/ \E t \in born : DeleteSession(h, t) \/ UpdateSession(h, t) \/ RefreshSession(h, t)
  \/ DeleteRead(h) \/ DeleteBoth(h)
  \/ UpdateExists(h) \/ WriteFields(h)
  \/ RefreshExists(h) \/ RefreshRead(h)

Next ==
  \/ \E h \in Handler : Step(h)
  \/ \E t \in Token : ExpireSession(t)
  \/ \E a \in Account : ExpireIndex(a)

Spec == Init /\ [][Next]_vars

-----------------------------------------------------------------------------
(* Properties. *)

PCs == {"idle", "findIndex", "findSession", "findToken", "readExisting", "store",
        "readDoomed", "deleteBoth", "exists", "hset", "refreshExists", "refreshRead"}

\* The commands on a session's key.
OnSession == {"findSession", "store", "readDoomed", "deleteBoth",
              "exists", "hset", "refreshExists", "refreshRead"}

\* Redis and the handlers hold what the code can put there, and a command on a
\* session's key is never sent without a token, though the index entry it came
\* from may have gone between the two reads of it.
TypeOK ==
  /\ hash \in [Token -> {"none", "live", "partial"}]
  /\ index \in [Account -> Token \cup {NoToken}]
  /\ owner \in [Token -> Account]
  /\ issued \in 0 .. MaxTokens
  /\ born \subseteq 1 .. issued
  /\ op \in [Handler -> [pc : PCs, account : Account, token : Token \cup {NoToken},
                         existing : Token \cup {NoToken}, login : BOOLEAN]]
  /\ \A h \in Handler : op[h].pc \in OnSession => op[h].token # NoToken

\* A session that was deleted, replaced or expired never comes back, although
\* updateSession and refreshSession may still write to its key: deserialize
\* refuses what they leave there, so a revoked token stays revoked.
RevokedForGood ==
  [][\A t \in born : ~deserialize(hash[t]) => ~deserialize(hash'[t])]_vars

Live(a) == {t \in Token : owner[t] = a /\ deserialize(hash[t])}

\* "Delete any existing session for this account first": an account has one
\* session at most.
OneSessionPerAccount == \A a \in Account, t, u \in Token : {t, u} \subseteq Live(a) => t = u

\* A session that exists is the one the account index leads to, so the next
\* login finds and invalidates it ("prevent double login").
ReachableByAccount == \A a \in Account : \A t \in Live(a) : index[a] = t
=============================================================================
