------------------------- MODULE SessionStoreProofs -------------------------
(***************************************************************************)
(* The session store keeps revocations final, for any number of accounts,  *)
(* handlers and tokens and any interleaving of their                       *)
(* Redis commands; and an account has one session, to which its index      *)
(* leads, unless the pipeline of a createSession ran between the read and  *)
(* the write of another call for the account, however the calls overlap    *)
(* otherwise and wherever TTLs run out between their commands.             *)
(***************************************************************************)
EXTENDS SessionRaces, TLAPS

\* The inductive invariant.  Its heart is the freshness of a token between its
\* generation and the pipeline that stores it: no index entry, no stored session
\* and no other handler knows it.
IndexBorn ==
  \A a \in Account : index[a] # NoToken => index[a] \in born /\ owner[index[a]] = a

LiveBorn == \A t \in Token : deserialize(hash[t]) => t \in born

PendingFresh ==
  \A h \in Handler : At(h, "store") =>
    /\ op[h].token \in 1 .. issued
    /\ op[h].token \notin born
    /\ owner[op[h].token] = op[h].account

PendingApart ==
  \A g, h \in Handler :
    At(g, "store") /\ At(h, "store") /\ op[g].token = op[h].token => g = h

IInv == TypeOK /\ IndexBorn /\ LiveBorn /\ PendingFresh /\ PendingApart

-----------------------------------------------------------------------------
\* What one handler's record holds, as TypeOK has it.
OpRecord == [pc : PCs, account : Account, token : Token \cup {NoToken},
             existing : Token \cup {NoToken}, login : BOOLEAN]

\* A handler at rest is well typed and has nothing to store.
LEMMA IdleType == Idle \in OpRecord /\ Idle.pc = "idle"
<1>1. (CHOOSE a \in Account : TRUE) \in Account
  BY StoreAssumption
<1> QED
  BY <1>1 DEF Idle, Call, OpRecord, PCs

\* The empty store satisfies the invariant.
LEMMA InitInvariant == Init => IInv
<1> SUFFICES ASSUME Init PROVE IInv
  OBVIOUS
<1>1. (CHOOSE a \in Account : TRUE) \in Account
  BY StoreAssumption
<1>2. TypeOK
  BY <1>1, StoreAssumption, IdleType DEF Init, TypeOK, OpRecord, Token, NoToken, OnSession
<1>3. IndexBorn /\ LiveBorn
  BY DEF Init, IndexBorn, LiveBorn, deserialize
<1>4. PendingFresh /\ PendingApart
  BY IdleType DEF Init, PendingFresh, PendingApart, At
<1> QED
  BY <1>2, <1>3, <1>4 DEF IInv

\* A step that touches only one handler's record, leaves it well typed and
\* does not bring it to the pipeline keeps the invariant.
LEMMA CallStep ==
  ASSUME IInv, NEW h \in Handler, NEW r \in OpRecord, r.pc # "store",
         r.pc \in OnSession => r.token # NoToken,
         op' = [op EXCEPT ![h] = r],
         UNCHANGED <<hash, index, owner, issued, born>>
  PROVE  IInv'
<1> USE DEF IInv
<1>1. TypeOK'
  BY DEF TypeOK, OpRecord
<1>2. IndexBorn' /\ LiveBorn'
  BY DEF IndexBorn, LiveBorn
<1>3. \A g \in Handler : op'[g].pc = "store" => g # h /\ op'[g] = op[g]
  BY DEF TypeOK
<1>4. PendingFresh' /\ PendingApart'
  BY <1>3 DEF PendingFresh, PendingApart, At
<1> QED
  BY <1>1, <1>2, <1>4

\* Between two commands a handler only changes its own record.
LEMMA LocalStep ==
  ASSUME IInv, NEW h \in Handler,
         \/ \E a \in Account : LoginClientId(h, a)
         \/ FindIndex(h) \/ FindSession(h) \/ FindToken(h)
         \/ \E t \in born : DeleteSession(h, t) \/ UpdateSession(h, t) \/ RefreshSession(h, t)
         \/ DeleteRead(h) \/ UpdateExists(h) \/ RefreshExists(h) \/ RefreshRead(h)
  PROVE  IInv'
<1>1. op[h] \in OpRecord /\ op \in [Handler -> OpRecord]
  BY DEF IInv, TypeOK, OpRecord
<1>2. born \subseteq Token /\ index \in [Account -> Token \cup {NoToken}]
  BY StoreAssumption DEF IInv, TypeOK, Token
<1>9. op[h].pc \in OnSession => op[h].token # NoToken
  BY DEF IInv, TypeOK
<1>10. NoToken \notin born
  BY DEF IInv, TypeOK, NoToken
<1> SUFFICES \E r \in OpRecord :
      /\ r.pc # "store" /\ op' = [op EXCEPT ![h] = r]
      /\ r.pc \in OnSession => r.token # NoToken
      /\ UNCHANGED <<hash, index, owner, issued, born>>
  BY CallStep
<1> USE DEF Local, store, Goto, Return, OpRecord, PCs, NoToken, OnSession
<1>3. CASE \E a \in Account : LoginClientId(h, a)
  <2>1. PICK a \in Account : LoginClientId(h, a)
    BY <1>3
  <2>2. /\ Call("findIndex", a, NoToken, TRUE) \in OpRecord
        /\ Call("findIndex", a, NoToken, TRUE).pc = "findIndex"
    BY DEF Call
  <2>3. /\ op' = [op EXCEPT ![h] = Call("findIndex", a, NoToken, TRUE)]
        /\ UNCHANGED <<hash, index, owner, issued, born>>
    BY <2>1 DEF LoginClientId
  <2> QED
    BY <2>2, <2>3
<1>4. CASE FindIndex(h)
  <2> DEFINE t == index[op[h].account]
             r == [op[h] EXCEPT !.token = t,
                     !.pc = IF t = NoToken THEN "readExisting" ELSE "findSession"]
  <2>1. /\ r \in OpRecord /\ r.pc # "store"
        /\ r.pc \in OnSession => r.token # NoToken
    BY <1>1, <1>2
  <2>2. op' = [op EXCEPT ![h] = r]
    BY <1>1, <1>4 DEF FindIndex
  <2> QED
    BY <2>1, <2>2, <1>4 DEF FindIndex
<1>5. CASE FindToken(h)
  <2> DEFINE t == index[op[h].account]
             r == [op[h] EXCEPT !.token = t,
                     !.pc = IF t = NoToken THEN "readExisting" ELSE "readDoomed"]
  <2>1. /\ r \in OpRecord /\ r.pc # "store"
        /\ r.pc \in OnSession => r.token # NoToken
    BY <1>1, <1>2
  <2>2. op' = [op EXCEPT ![h] = r]
    BY <1>1, <1>5 DEF FindToken
  <2> QED
    BY <2>1, <2>2, <1>5 DEF FindToken
<1>6. CASE \E t \in born : DeleteSession(h, t) \/ UpdateSession(h, t) \/ RefreshSession(h, t)
  <2>1. PICK t \in born : DeleteSession(h, t) \/ UpdateSession(h, t) \/ RefreshSession(h, t)
    BY <1>6
  <2>2. PICK pc \in {"readDoomed", "exists", "refreshExists"} :
          /\ op' = [op EXCEPT ![h] = Call(pc, op[h].account, t, FALSE)]
          /\ UNCHANGED <<hash, index, owner, issued, born>>
    BY <2>1 DEF DeleteSession, UpdateSession, RefreshSession
  <2>3. /\ Call(pc, op[h].account, t, FALSE) \in OpRecord
        /\ Call(pc, op[h].account, t, FALSE).pc # "store"
        /\ Call(pc, op[h].account, t, FALSE).token # NoToken
    BY <1>1, <1>2, <1>10, <2>2 DEF Call
  <2> QED
    BY <2>2, <2>3
<1>7. CASE FindSession(h) \/ DeleteRead(h) \/ UpdateExists(h) \/ RefreshExists(h)
           \/ RefreshRead(h)
  <2>1. /\ UNCHANGED <<hash, index, owner, issued, born>>
        /\ \/ op' = [op EXCEPT ![h] = Idle]
           \/ \E pc \in PCs \ {"store"} :
                /\ op' = [op EXCEPT ![h].pc = pc]
                /\ pc \in OnSession => op[h].pc \in OnSession
    BY <1>7 DEF FindSession, DeleteRead, UpdateExists, RefreshExists, RefreshRead,
                AfterDelete, At
  <2>2. CASE op' = [op EXCEPT ![h] = Idle]
    BY <2>1, <2>2, IdleType
  <2>3. CASE \E pc \in PCs \ {"store"} :
               /\ op' = [op EXCEPT ![h].pc = pc]
               /\ pc \in OnSession => op[h].pc \in OnSession
    <3>1. PICK pc \in PCs \ {"store"} :
            /\ op' = [op EXCEPT ![h].pc = pc]
            /\ pc \in OnSession => op[h].pc \in OnSession
      BY <2>3
    <3> DEFINE r == [op[h] EXCEPT !.pc = pc]
    <3>2. /\ r \in OpRecord /\ r.pc # "store"
          /\ r.pc \in OnSession => r.token # NoToken
      BY <1>1, <1>9, <3>1
    <3>3. op' = [op EXCEPT ![h] = r]
      BY <1>1, <3>1
    <3> QED
      BY <2>1, <3>2, <3>3
  <2> QED
    BY <2>1, <2>2, <2>3
<1> QED
  BY <1>3, <1>4, <1>5, <1>6, <1>7

\* createSession generates a token nobody knows yet.
LEMMA CreateReadStep ==
  ASSUME IInv, NEW h \in Handler, CreateRead(h)
  PROVE  IInv'
<1> USE DEF IInv
<1> DEFINE t == issued + 1
           r == [Call("store", op[h].account, t, TRUE)
                   EXCEPT !.existing = index[op[h].account]]
<1>1. /\ op[h] \in OpRecord /\ op \in [Handler -> OpRecord]
      /\ issued \in Nat /\ born \subseteq 1 .. issued /\ MaxTokens \in Nat
      /\ index \in [Account -> Token \cup {NoToken}]
      /\ owner \in [Token -> Account]
  BY StoreAssumption DEF TypeOK, OpRecord
<1>2. t \in Token /\ t \notin 1 .. issued /\ issued' = t
  BY <1>1 DEF CreateRead, Token
<1>3. r \in OpRecord /\ r.pc = "store" /\ r.token = t /\ r.account = op[h].account
  BY <1>1, <1>2 DEF Call, OpRecord, PCs, NoToken
<1>4. /\ op' = [op EXCEPT ![h] = r]
      /\ owner' = [owner EXCEPT ![t] = op[h].account]
      /\ UNCHANGED <<hash, index, born>>
  BY DEF CreateRead, store
<1> HIDE DEF r
<1>5. TypeOK'
  <2>1. issued' \in 0 .. MaxTokens /\ born' \subseteq 1 .. issued'
    BY <1>1, <1>2, <1>4 DEF Token
  <2>2. op' \in [Handler -> OpRecord]
    BY <1>1, <1>3, <1>4
  <2>3. owner' \in [Token -> Account]
    BY <1>1, <1>2, <1>4 DEF OpRecord
  <2>4. \A g \in Handler : op'[g].pc \in OnSession => op'[g].token # NoToken
    BY <1>1, <1>3, <1>4 DEF TypeOK, NoToken, OnSession
  <2> QED
    BY <2>1, <2>2, <2>3, <2>4, <1>4 DEF TypeOK, OpRecord
<1>6. \A u \in 1 .. issued : owner'[u] = owner[u]
  BY <1>1, <1>2, <1>4 DEF Token
<1>7. IndexBorn'
  BY <1>1, <1>4, <1>6 DEF IndexBorn
<1>8. LiveBorn'
  BY <1>4 DEF LiveBorn
<1>9. \A g \in Handler : g # h => op'[g] = op[g]
  BY <1>1, <1>4
<1>10. op'[h] = r
  BY <1>1, <1>4
<1>11. PendingFresh'
  <2> SUFFICES ASSUME NEW g \in Handler, op'[g].pc = "store"
               PROVE  /\ op'[g].token \in 1 .. issued' /\ op'[g].token \notin born'
                      /\ owner'[op'[g].token] = op'[g].account
    BY DEF PendingFresh, At
  <2>1. CASE g = h
    BY <2>1, <1>1, <1>2, <1>3, <1>4, <1>10 DEF Token
  <2>2. CASE g # h
    <3>1. /\ op[g].token \in 1 .. issued /\ op[g].token \notin born
          /\ owner[op[g].token] = op[g].account
      BY <2>2, <1>9 DEF PendingFresh, At
    <3> QED
      BY <3>1, <2>2, <1>1, <1>2, <1>4, <1>6, <1>9
  <2> QED
    BY <2>1, <2>2
<1>12. PendingApart'
  <2>1. \A g \in Handler : g # h /\ op'[g].pc = "store" => op'[g].token # t
    BY <1>2, <1>9 DEF PendingFresh, At
  <2> QED
    BY <2>1, <1>3, <1>9, <1>10 DEF PendingApart, At
<1> QED
  BY <1>5, <1>7, <1>8, <1>11, <1>12

\* The pipeline stores the fresh token under the account it was made for.
LEMMA CreateStoreStep ==
  ASSUME IInv, NEW h \in Handler, CreateStore(h)
  PROVE  IInv'
<1> USE DEF IInv
<1> DEFINE t == op[h].token
<1>1. /\ op \in [Handler -> OpRecord] /\ op[h] \in OpRecord
      /\ hash \in [Token -> {"none", "live", "partial"}]
      /\ index \in [Account -> Token \cup {NoToken}]
      /\ issued \in 0 .. MaxTokens /\ MaxTokens \in Nat /\ born \subseteq 1 .. issued
  BY StoreAssumption DEF TypeOK, OpRecord
<1>2. t \in 1 .. issued /\ t \notin born /\ owner[t] = op[h].account
  BY DEF PendingFresh, CreateStore
<1>3. t \in Token
  BY <1>1, <1>2 DEF Token
<1>4. /\ index' = [index EXCEPT ![op[h].account] = t]
      /\ born' = born \cup {t}
      /\ op' = [op EXCEPT ![h] = Idle]
      /\ UNCHANGED <<owner, issued>>
      /\ hash' = [u \in Token |-> IF u = op[h].existing THEN "none"
                                  ELSE IF u = t THEN "live" ELSE hash[u]]
  BY DEF CreateStore, Return
<1>5. TypeOK'
  BY <1>1, <1>2, <1>3, <1>4, IdleType DEF TypeOK, OpRecord, OnSession
<1>6. IndexBorn'
  BY <1>1, <1>2, <1>3, <1>4 DEF IndexBorn
<1>7. LiveBorn'
  BY <1>1, <1>4 DEF LiveBorn, deserialize
<1>8. \A g \in Handler : op'[g].pc = "store" =>
        g # h /\ op'[g] = op[g] /\ op[g].token # t
  BY <1>1, <1>4, IdleType DEF PendingApart, At, CreateStore
<1>9. PendingFresh' /\ PendingApart'
  BY <1>4, <1>8 DEF PendingFresh, PendingApart, At
<1> QED
  BY <1>5, <1>6, <1>7, <1>9

\* Deleting, writing single fields and expiring make no session of a key that
\* holds none, and point no index entry anywhere new.
LEMMA KeyStep ==
  ASSUME IInv,
         \/ \E h \in Handler : DeleteBoth(h) \/ WriteFields(h)
         \/ \E t \in Token : ExpireSession(t)
         \/ \E a \in Account : ExpireIndex(a)
  PROVE  IInv'
<1> USE DEF IInv, Local
<1>1. /\ op \in [Handler -> OpRecord]
      /\ hash \in [Token -> {"none", "live", "partial"}]
      /\ index \in [Account -> Token \cup {NoToken}]
  BY DEF TypeOK, OpRecord
<1>2. /\ UNCHANGED <<owner, issued, born>>
      /\ hash' \in [Token -> {"none", "live", "partial"}]
      /\ \A t \in Token : deserialize(hash'[t]) => deserialize(hash[t])
  <2>1. CASE \E h \in Handler : DeleteBoth(h)
    BY <2>1, <1>1 DEF DeleteBoth, deserialize
  <2>2. CASE \E h \in Handler : WriteFields(h)
    BY <2>2, <1>1 DEF WriteFields, HSetFields, deserialize
  <2>3. CASE \E t \in Token : ExpireSession(t)
    BY <2>3, <1>1 DEF ExpireSession, deserialize
  <2>4. CASE \E a \in Account : ExpireIndex(a)
    BY <2>4, <1>1 DEF ExpireIndex
  <2> QED
    BY <2>1, <2>2, <2>3, <2>4
<1>3. /\ index' \in [Account -> Token \cup {NoToken}]
      /\ \A a \in Account : index'[a] \in {NoToken, index[a]}
  BY <1>1 DEF DeleteBoth, WriteFields, ExpireSession, ExpireIndex
<1>4. /\ op' \in [Handler -> OpRecord]
      /\ \A g \in Handler : op'[g].pc \in OnSession => op'[g] = op[g]
  <2> USE DEF OnSession
  <2>1. CASE UNCHANGED op
    BY <2>1, <1>1
  <2>2. CASE \E h \in Handler : DeleteBoth(h) \/ WriteFields(h)
    <3>1. PICK h \in Handler : DeleteBoth(h) \/ WriteFields(h)
      BY <2>2
    <3>2. \/ op' = [op EXCEPT ![h] = Idle]
          \/ op' = [op EXCEPT ![h] = [op[h] EXCEPT !.pc = "readExisting"]]
      BY <3>1, <1>1 DEF DeleteBoth, WriteFields, AfterDelete, Return, Goto
    <3>3. [op[h] EXCEPT !.pc = "readExisting"] \in OpRecord
      BY <1>1 DEF OpRecord, PCs
    <3>4. [op[h] EXCEPT !.pc = "readExisting"].pc = "readExisting"
      BY <1>1 DEF OpRecord
    <3> QED
      BY <3>2, <3>3, <3>4, <1>1, IdleType
  <2> QED
    BY <2>1, <2>2 DEF ExpireSession, ExpireIndex
<1>5. TypeOK'
  <2>1. \A g \in Handler : op'[g].pc \in OnSession => op'[g].token # NoToken
    BY <1>4 DEF TypeOK
  <2> QED
    BY <2>1, <1>2, <1>3, <1>4 DEF TypeOK, OpRecord
<1>6. IndexBorn'
  BY <1>2, <1>3 DEF IndexBorn
<1>7. LiveBorn'
  BY <1>2 DEF LiveBorn
<1>8. PendingFresh' /\ PendingApart'
  BY <1>2, <1>4 DEF PendingFresh, PendingApart, At, OnSession
<1> QED
  BY <1>5, <1>6, <1>7, <1>8

\* Every step keeps the invariant.
LEMMA NextInvariant ==
  ASSUME IInv, [Next]_vars
  PROVE  IInv'
<1>1. CASE Next
  BY <1>1, LocalStep, CreateReadStep, CreateStoreStep, KeyStep DEF Next, Step
<1>2. CASE UNCHANGED vars
  BY <1>2 DEF vars, store, IInv, TypeOK, IndexBorn, LiveBorn, PendingFresh,
              PendingApart, At, deserialize
<1> QED
  BY <1>1, <1>2

\* Redis and the handlers hold what the code can put there.
THEOREM StoreTypeOK == Spec => []TypeOK
<1>1. IInv => TypeOK
  BY DEF IInv
<1> QED
  BY <1>1, InitInvariant, NextInvariant, PTL DEF Spec

\* A session that was deleted, replaced or has expired is never found again by
\* its token, whatever updates and refreshes of it are still under way.
THEOREM StoreRevokedForGood == Spec => RevokedForGood
<1>1. ASSUME IInv, [Next]_vars, NEW t \in born, ~deserialize(hash[t])
      PROVE  ~deserialize(hash'[t])
  <2>1. /\ hash \in [Token -> {"none", "live", "partial"}] /\ t \in Token
        /\ op \in [Handler -> OpRecord]
    BY <1>1, StoreAssumption DEF IInv, TypeOK, OpRecord, Token
  <2>2. CASE UNCHANGED hash
    BY <2>2, <1>1
  <2>3. CASE \E h \in Handler : CreateStore(h)
    BY <2>3, <2>1, <1>1 DEF CreateStore, IInv, PendingFresh, deserialize
  <2>4. CASE \E h \in Handler : DeleteBoth(h)
    BY <2>4, <2>1, <1>1 DEF DeleteBoth, deserialize
  <2>5. CASE \E h \in Handler : WriteFields(h)
    BY <2>5, <2>1, <1>1 DEF WriteFields, HSetFields, deserialize
  <2>6. CASE \E u \in Token : ExpireSession(u)
    BY <2>6, <2>1, <1>1 DEF ExpireSession, deserialize
  <2> QED
    BY <1>1, <2>2, <2>3, <2>4, <2>5, <2>6 DEF Next, Step, vars, store, LoginClientId,
       FindIndex, FindSession, FindToken, CreateRead, DeleteSession, UpdateSession,
       RefreshSession, DeleteRead, UpdateExists, RefreshExists, RefreshRead, ExpireIndex
<1>2. IInv /\ [Next]_vars => [\A t \in born : ~deserialize(hash[t]) => ~deserialize(hash'[t])]_vars
  BY <1>1
<1> QED
  BY <1>2, InitInvariant, NextInvariant, PTL DEF Spec, RevokedForGood

-----------------------------------------------------------------------------
(* Accounts for which no createSession stored under another call's feet. *)

\* Both properties at once.
IndexSole == \A a \in Account \ raced : Live(a) \subseteq {index[a]}

\* What createSession is about to replace and what deleteSession has found is the
\* only session of the account the call is about.
Sole(h) ==
  \A a \in Account \ raced :
    /\ At(h, "store") /\ op[h].account = a => Live(a) \subseteq {op[h].existing}
    /\ At(h, "deleteBoth") /\ owner[op[h].token] = a => Live(a) \subseteq {op[h].token}

\* What deleteSession works on is a session that was stored.
Doing(h) == op[h].pc \in {"readDoomed", "deleteBoth"} => op[h].token \in born

RInv == IInv /\ IndexSole /\ \A h \in Handler : Sole(h) /\ Doing(h)

-----------------------------------------------------------------------------
LEMMA RaceInitInvariant == RaceInit => RInv
<1> SUFFICES ASSUME RaceInit PROVE RInv
  OBVIOUS
<1>1. IInv
  BY InitInvariant DEF RaceInit
<1>2. \A h \in Handler : op[h].pc = "idle"
  BY IdleType DEF RaceInit, Init
<1>3. \A a \in Account : Live(a) = {}
  BY DEF RaceInit, Init, Live, deserialize
<1> QED
  BY <1>1, <1>2, <1>3 DEF RInv, At, IndexSole, Sole, Doing

\* The types the steps below rely on.
LEMMA Types ==
  ASSUME IInv
  PROVE  /\ op \in [Handler -> OpRecord]
         /\ hash \in [Token -> {"none", "live", "partial"}]
         /\ index \in [Account -> Token \cup {NoToken}]
         /\ owner \in [Token -> Account]
         /\ issued \in Nat /\ MaxTokens \in Nat /\ issued <= MaxTokens
         /\ born \subseteq 1 .. issued /\ born \subseteq Token
BY StoreAssumption DEF IInv, TypeOK, OpRecord, Token

\* A step in which a handler takes no part leaves what is known of the handler
\* true, if it makes no session for the account the handler has read.
LEMMA Bystander ==
  ASSUME RInv, raced \subseteq raced', born \subseteq born',
         \A t \in born : owner'[t] = owner[t],
         NEW g \in Handler, op'[g] = op[g],
         \A a \in Account \ raced' : Decided(g, a) => Live(a)' \subseteq Live(a)
  PROVE  Sole(g)' /\ Doing(g)'
<1>1. op[g] \in OpRecord /\ born \subseteq Token
  BY Types DEF RInv
<1>2. Sole(g) /\ Doing(g)
  BY DEF RInv
<1>3. Doing(g)'
  BY <1>2 DEF Doing
<1>4. Sole(g)'
  <2> SUFFICES ASSUME NEW a \in Account \ raced'
               PROVE  /\ op[g].pc = "store" /\ op[g].account = a
                           => Live(a)' \subseteq {op[g].existing}
                      /\ op[g].pc = "deleteBoth" /\ owner'[op[g].token] = a
                           => Live(a)' \subseteq {op[g].token}
    BY DEF Sole, At
  <2>1. CASE op[g].pc = "store" /\ op[g].account = a
    <3>1. Live(a)' \subseteq Live(a) /\ Live(a) \subseteq {op[g].existing}
      BY <2>1, <1>2 DEF Decided, Sole, At
    <3> QED
      BY <2>1, <3>1
  <2>2. CASE op[g].pc = "deleteBoth" /\ owner'[op[g].token] = a
    <3>1. owner[op[g].token] = a
      BY <2>2, <1>2 DEF Doing
    <3>2. Live(a)' \subseteq Live(a) /\ Live(a) \subseteq {op[g].token}
      BY <2>2, <3>1, <1>2 DEF Decided, Sole, At
    <3> QED
      BY <2>2, <3>2
  <2> QED
    BY <2>1, <2>2
<1> QED
  BY <1>3, <1>4

\* Nothing recorded is lost.
LEMMA RacedGrows ==
  ASSUME RaceNext
  PROVE  raced \subseteq raced'
BY DEF RaceNext

\* A step that leaves the store alone and one handler's record well typed and
\* off the pipeline keeps the invariant, if what that handler is about to
\* delete is a session that was stored.
LEMMA QuietStep ==
  ASSUME RInv, RaceNext, NEW h \in Handler, NEW r \in OpRecord, r.pc # "store",
         op' = [op EXCEPT ![h] = r],
         UNCHANGED <<hash, index, owner, issued, born>>,
         r.pc \in {"readDoomed", "deleteBoth"} => r.token \in born,
         r.pc = "deleteBoth" => deserialize(hash[r.token])
  PROVE  RInv'
<1>1. IInv'
  BY NextInvariant DEF RaceNext, RInv
<1>2. raced \subseteq raced'
  BY RacedGrows
<1>3. op \in [Handler -> OpRecord] /\ born \subseteq Token /\ owner \in [Token -> Account]
  BY Types DEF RInv
<1>4. op'[h] = r /\ \A g \in Handler \ {h} : op'[g] = op[g]
  BY <1>3
<1>5. \A a \in Account : Live(a)' = Live(a)
  BY DEF Live
<1>6. IndexSole'
  BY <1>2, <1>5 DEF IndexSole, RInv
<1>7. \A g \in Handler \ {h} : Sole(g)' /\ Doing(g)'
  BY <1>2, <1>4, <1>5, Bystander
<1>8. Doing(h)'
  BY <1>4 DEF Doing
<1>9. Sole(h)'
  <2> SUFFICES ASSUME NEW a \in Account \ raced', owner[r.token] = a, r.pc = "deleteBoth"
               PROVE  Live(a)' \subseteq {r.token}
    BY <1>4 DEF Sole, At
  <2>1. owner[r.token] = a /\ r.token \in Token
    BY <1>3
  <2>2. r.token \in Live(a)
    BY <2>1 DEF Live
  <2>3. Live(a) \subseteq {index[a]}
    BY <1>2 DEF IndexSole, RInv
  <2> QED
    BY <2>2, <2>3, <1>5
<1> QED
  BY <1>1, <1>6, <1>7, <1>8, <1>9 DEF RInv

\* A call that begins, or goes on to its next command without changing the store.
LEMMA QuietSteps ==
  ASSUME RInv, RaceNext, NEW h \in Handler,
         \/ \E a \in Account : LoginClientId(h, a)
         \/ FindIndex(h) \/ FindSession(h) \/ FindToken(h)
         \/ \E t \in born : DeleteSession(h, t) \/ UpdateSession(h, t) \/ RefreshSession(h, t)
         \/ DeleteRead(h) \/ UpdateExists(h) \/ RefreshExists(h) \/ RefreshRead(h)
  PROVE  RInv'
<1>1. op[h] \in OpRecord /\ op \in [Handler -> OpRecord]
  BY Types DEF RInv
<1>2. born \subseteq Token /\ index \in [Account -> Token \cup {NoToken}]
  BY Types DEF RInv
<1>3. IndexBorn /\ Doing(h)
  BY DEF RInv, IInv
<1> SUFFICES \E r \in OpRecord :
      /\ r.pc # "store" /\ op' = [op EXCEPT ![h] = r]
      /\ UNCHANGED <<hash, index, owner, issued, born>>
      /\ r.pc \in {"readDoomed", "deleteBoth"} => r.token \in born
      /\ r.pc = "deleteBoth" => deserialize(hash[r.token])
  BY QuietStep
<1> USE DEF Local, store, Goto, Return, OpRecord, PCs, NoToken
<1>4. CASE \E a \in Account : LoginClientId(h, a)
  <2>1. PICK a \in Account : LoginClientId(h, a)
    BY <1>4
  <2> DEFINE r == Call("findIndex", a, NoToken, TRUE)
  <2>2. r \in OpRecord /\ r.pc = "findIndex"
    BY DEF Call
  <2>3. op' = [op EXCEPT ![h] = r] /\ UNCHANGED <<hash, index, owner, issued, born>>
    BY <2>1 DEF LoginClientId
  <2> HIDE DEF r
  <2> QED
    BY <2>2, <2>3
<1>5. CASE FindIndex(h) \/ FindToken(h)
  <2> DEFINE t == index[op[h].account]
  <2>1. PICK pc \in {"readExisting", "findSession", "readDoomed"} :
          /\ op' = [op EXCEPT ![h].token = t, ![h].pc = pc]
          /\ pc = "readDoomed" => t # NoToken
    BY <1>5 DEF FindIndex, FindToken
  <2> DEFINE r == [op[h] EXCEPT !.token = t, !.pc = pc]
  <2>2. /\ r \in OpRecord /\ r.pc = pc /\ r.token = t /\ op[h].account \in Account
    BY <1>1, <1>2, <2>1
  <2>3. op' = [op EXCEPT ![h] = r] /\ UNCHANGED <<hash, index, owner, issued, born>>
    BY <1>1, <1>5, <2>1 DEF FindIndex, FindToken
  <2>4. pc = "readDoomed" => r.token \in born
    BY <1>3, <2>1, <2>2 DEF IndexBorn
  <2> HIDE DEF r
  <2> QED
    BY <2>1, <2>2, <2>3, <2>4
<1>6. CASE \E t \in born : DeleteSession(h, t) \/ UpdateSession(h, t) \/ RefreshSession(h, t)
  <2>1. PICK t \in born : DeleteSession(h, t) \/ UpdateSession(h, t) \/ RefreshSession(h, t)
    BY <1>6
  <2>2. PICK pc \in {"readDoomed", "exists", "refreshExists"} :
          /\ op' = [op EXCEPT ![h] = Call(pc, op[h].account, t, FALSE)]
          /\ UNCHANGED <<hash, index, owner, issued, born>>
    BY <2>1 DEF DeleteSession, UpdateSession, RefreshSession
  <2> DEFINE r == Call(pc, op[h].account, t, FALSE)
  <2>3. r \in OpRecord /\ r.pc = pc /\ r.token = t
    BY <1>1, <1>2, <2>2 DEF Call
  <2> HIDE DEF r
  <2> QED
    BY <2>2, <2>3 DEF r
<1>7. CASE FindSession(h) \/ DeleteRead(h) \/ UpdateExists(h) \/ RefreshExists(h)
           \/ RefreshRead(h)
  <2>1. /\ UNCHANGED <<hash, index, owner, issued, born>>
        /\ \/ op' = [op EXCEPT ![h] = Idle]
           \/ \E pc \in PCs \ {"store", "readDoomed"} :
                /\ op' = [op EXCEPT ![h].pc = pc]
                /\ pc = "deleteBoth" =>
                     op[h].pc = "readDoomed" /\ deserialize(hash[op[h].token])
    BY <1>7 DEF FindSession, DeleteRead, UpdateExists, RefreshExists, RefreshRead,
                AfterDelete, At
  <2>2. CASE op' = [op EXCEPT ![h] = Idle]
    BY <2>1, <2>2, IdleType
  <2>3. CASE \E pc \in PCs \ {"store", "readDoomed"} :
               /\ op' = [op EXCEPT ![h].pc = pc]
               /\ pc = "deleteBoth" =>
                    op[h].pc = "readDoomed" /\ deserialize(hash[op[h].token])
    <3>1. PICK pc \in PCs \ {"store", "readDoomed"} :
            /\ op' = [op EXCEPT ![h].pc = pc]
            /\ pc = "deleteBoth" =>
                 op[h].pc = "readDoomed" /\ deserialize(hash[op[h].token])
      BY <2>3
    <3> DEFINE r == [op[h] EXCEPT !.pc = pc]
    <3>2. r \in OpRecord /\ r.pc = pc /\ r.token = op[h].token
      BY <1>1, <3>1
    <3>3. op' = [op EXCEPT ![h] = r]
      BY <1>1, <3>1
    <3>4. pc = "deleteBoth" => r.token \in born
      BY <3>1, <3>2, <1>3 DEF Doing
    <3> HIDE DEF r
    <3> QED
      BY <2>1, <3>1, <3>2, <3>3, <3>4
  <2> QED
    BY <2>1, <2>2, <2>3
<1> QED
  BY <1>4, <1>5, <1>6, <1>7

\* createSession reads the one session its account can have, and its fresh
\* token is nobody's yet.
LEMMA RacedCreateRead ==
  ASSUME RInv, RaceNext, NEW h \in Handler, CreateRead(h)
  PROVE  RInv'
<1> DEFINE t == issued + 1
<1>1. IInv'
  BY NextInvariant DEF RaceNext, RInv
<1>2. raced \subseteq raced'
  BY RacedGrows
<1>3. /\ op \in [Handler -> OpRecord] /\ op[h] \in OpRecord /\ born \subseteq Token
      /\ issued \in Nat /\ born \subseteq 1 .. issued /\ t \in Nat /\ MaxTokens \in Nat
      /\ owner \in [Token -> Account] /\ index \in [Account -> Token \cup {NoToken}]
  BY Types DEF RInv
<1>4. t \notin born /\ t \in Token
  BY <1>3 DEF CreateRead, Token
<1>5. \A u \in Token : u # t => owner'[u] = owner[u]
  BY <1>3 DEF CreateRead
<1>6. \A a \in Account : Live(a)' = Live(a)
  <2>1. ~deserialize(hash[t]) /\ hash' = hash
    BY <1>4 DEF RInv, IInv, LiveBorn, CreateRead, store
  <2> QED
    BY <2>1, <1>5 DEF Live
<1>7. IndexSole'
  BY <1>2, <1>6 DEF IndexSole, RInv, CreateRead, store
<1> DEFINE r == [Call("store", op[h].account, t, TRUE)
                   EXCEPT !.existing = index[op[h].account]]
<1>8. /\ r.pc = "store" /\ r.account = op[h].account
      /\ r.existing = index[op[h].account] /\ op[h].account \in Account
  BY <1>3 DEF Call, OpRecord
<1>9. op' = [op EXCEPT ![h] = r]
  BY DEF CreateRead
<1> HIDE DEF r
<1>10. op'[h] = r /\ \A g \in Handler \ {h} : op'[g] = op[g]
  BY <1>3, <1>9
<1>11. \A g \in Handler \ {h} : Sole(g)' /\ Doing(g)'
  <2>1. \A u \in born : owner'[u] = owner[u]
    BY <1>3, <1>4, <1>5
  <2>2. born' = born
    BY DEF CreateRead
  <2> QED
    BY <2>1, <2>2, <1>2, <1>6, <1>10, Bystander
<1>12. Doing(h)'
  BY <1>8, <1>10 DEF Doing
<1>13. Sole(h)'
  <2> SUFFICES ASSUME NEW a \in Account \ raced', a = op[h].account
               PROVE  Live(a)' \subseteq {r.existing}
    BY <1>8, <1>10 DEF Sole, At
  <2>2. Live(a) \subseteq {index[a]}
    BY <1>2 DEF IndexSole, RInv
  <2> QED
    BY <2>2, <1>6, <1>8
<1> QED
  BY <1>1, <1>7, <1>11, <1>12, <1>13 DEF RInv

\* The pipeline leaves the account the new session and nothing else, and is
\* recorded as a race if another call was about to delete or replace there.
LEMMA RacedCreateStore ==
  ASSUME RInv, RaceNext, NEW h \in Handler, CreateStore(h)
  PROVE  RInv'
<1> DEFINE t == op[h].token
<1>1. IInv'
  BY NextInvariant DEF RaceNext, RInv
<1>2. raced \subseteq raced'
  BY RacedGrows
<1>3. /\ op \in [Handler -> OpRecord] /\ op[h] \in OpRecord
      /\ hash \in [Token -> {"none", "live", "partial"}]
      /\ owner \in [Token -> Account] /\ index \in [Account -> Token \cup {NoToken}]
      /\ op[h].account \in Account
  BY Types DEF RInv, OpRecord
<1> PICK b \in Account : b = op[h].account
  BY <1>3
<1>4. Sole(h) /\ Doing(h) /\ At(h, "store")
  BY DEF RInv, CreateStore
<1>5. owner[t] = b
  BY <1>4 DEF RInv, IInv, PendingFresh
<1>6. /\ \A u \in Token : deserialize(hash'[u]) =>
           u # op[h].existing /\ (u = t \/ deserialize(hash[u]))
      /\ owner' = owner /\ index' = [index EXCEPT ![b] = t]
      /\ born' = born \cup {t} /\ op' = [op EXCEPT ![h] = Idle]
  BY DEF CreateStore, Return, deserialize
<1>7. \A a \in Account : a # b => Live(a)' \subseteq Live(a)
  BY <1>5, <1>6 DEF Live
<1>8. b \notin raced' => Live(b)' \subseteq {t}
  <2>1. b \notin raced => Live(b) \subseteq {op[h].existing}
    BY <1>3, <1>4 DEF Sole
  <2> QED
    BY <2>1, <1>2, <1>6 DEF Live
<1>9. IndexSole'
  <2> SUFFICES ASSUME NEW a \in Account \ raced' PROVE Live(a)' \subseteq {index'[a]}
    BY DEF IndexSole
  <2>1. CASE a = b
    BY <2>1, <1>3, <1>6, <1>8
  <2>2. CASE a # b
    BY <2>2, <1>2, <1>3, <1>6, <1>7 DEF IndexSole, RInv
  <2> QED
    BY <2>1, <2>2
<1>10. \A g \in Handler \ {h} : op'[g] = op[g]
  BY <1>3, <1>6
<1>11. \A g \in Handler \ {h} : Sole(g)' /\ Doing(g)'
  <2> SUFFICES ASSUME NEW g \in Handler \ {h} PROVE Sole(g)' /\ Doing(g)'
    OBVIOUS
  <2>1. Decided(g, b) => b \in raced'
    BY DEF RaceNext, Clashing
  <2>2. \A a \in Account \ raced' : Decided(g, a) => Live(a)' \subseteq Live(a)
    BY <2>1, <1>7
  <2>4. born \subseteq born' /\ \A u \in born : owner'[u] = owner[u]
    BY <1>6
  <2> QED
    BY <2>2, <2>4, <1>2, <1>10, Bystander
<1>12. op'[h].pc = "idle"
  BY <1>3, <1>6, IdleType
<1>13. Sole(h)' /\ Doing(h)'
  BY <1>12 DEF Sole, Doing, At
<1> QED
  BY <1>1, <1>9, <1>11, <1>13 DEF RInv

\* A step that makes no session, and takes an index entry away only where no
\* session is left, keeps the invariant if the handler that takes it has nothing
\* left to delete or store.
LEMMA ShrinkStep ==
  ASSUME RInv, RaceNext, UNCHANGED <<owner, born>>,
         \A t \in Token : deserialize(hash'[t]) => deserialize(hash[t]),
         \A a \in Account \ raced : index'[a] = index[a] \/ Live(a)' = {},
         \A g \in Handler :
           op'[g] = op[g] \/ op'[g].pc \notin {"store", "readDoomed", "deleteBoth"}
  PROVE  RInv'
<1>1. IInv'
  BY NextInvariant DEF RaceNext, RInv
<1>2. raced \subseteq raced'
  BY RacedGrows
<1>3. \A a \in Account : Live(a)' \subseteq Live(a)
  BY DEF Live
<1>4. IndexSole'
  <2> SUFFICES ASSUME NEW a \in Account \ raced' PROVE Live(a)' \subseteq {index'[a]}
    BY DEF IndexSole
  <2>1. Live(a) \subseteq {index[a]}
    BY <1>2 DEF IndexSole, RInv
  <2>2. index'[a] = index[a] \/ Live(a)' = {}
    BY <1>2
  <2> QED
    BY <2>1, <2>2, <1>3
<1>5. \A g \in Handler : Sole(g)' /\ Doing(g)'
  <2> SUFFICES ASSUME NEW g \in Handler PROVE Sole(g)' /\ Doing(g)'
    OBVIOUS
  <2>1. CASE op'[g] = op[g]
    BY <2>1, <1>2, <1>3, Bystander
  <2>2. CASE op'[g].pc \notin {"store", "readDoomed", "deleteBoth"}
    BY <2>2 DEF Sole, Doing, At
  <2> QED
    BY <2>1, <2>2
<1> QED
  BY <1>1, <1>4, <1>5 DEF RInv

\* deleteSession removes the one session there is, and its index entry with it.
LEMMA RacedDeleteBoth ==
  ASSUME RInv, RaceNext, NEW h \in Handler, DeleteBoth(h)
  PROVE  RInv'
<1> DEFINE t == op[h].token
           b == owner[t]
<1>1. /\ op \in [Handler -> OpRecord] /\ op[h] \in OpRecord /\ born \subseteq Token
      /\ hash \in [Token -> {"none", "live", "partial"}]
      /\ owner \in [Token -> Account] /\ index \in [Account -> Token \cup {NoToken}]
  BY Types DEF RInv
<1>2. Sole(h) /\ Doing(h) /\ At(h, "deleteBoth")
  BY DEF RInv, DeleteBoth
<1>3. t \in Token /\ b \in Account
  BY <1>1, <1>2 DEF Doing, At
<1>4. /\ hash' = [hash EXCEPT ![t] = "none"] /\ index' = [index EXCEPT ![b] = NoToken]
      /\ UNCHANGED <<owner, born>>
  BY DEF DeleteBoth, Local
<1>5. \A u \in Token : deserialize(hash'[u]) => u # t /\ deserialize(hash[u])
  BY <1>1, <1>3, <1>4 DEF deserialize
<1>6. \A a \in Account \ raced : index'[a] = index[a] \/ Live(a)' = {}
  <2> SUFFICES ASSUME NEW a \in Account \ raced, a = b PROVE Live(a)' = {}
    BY <1>1, <1>3, <1>4
  <2>1. Live(a) \subseteq {t}
    BY <1>2 DEF Sole
  <2> QED
    BY <2>1, <1>4, <1>5 DEF Live
<1>7. \A g \in Handler :
        op'[g] = op[g] \/ op'[g].pc \notin {"store", "readDoomed", "deleteBoth"}
  BY <1>1, IdleType DEF DeleteBoth, AfterDelete, Goto, Return, OpRecord
<1> QED
  BY <1>4, <1>5, <1>6, <1>7, ShrinkStep

\* updateSession and refreshSession, and the TTLs that run out.
LEMMA RacedKeySteps ==
  ASSUME RInv, RaceNext,
         \/ \E h \in Handler : WriteFields(h)
         \/ \E t \in Token : ExpireSession(t)
         \/ \E a \in Account : ExpireIndex(a)
  PROVE  RInv'
<1>1. /\ op \in [Handler -> OpRecord]
      /\ hash \in [Token -> {"none", "live", "partial"}]
      /\ owner \in [Token -> Account] /\ index \in [Account -> Token \cup {NoToken}]
  BY Types DEF RInv
<1>2. CASE \E h \in Handler : WriteFields(h)
  <2>1. PICK h \in Handler : WriteFields(h)
    BY <1>2
  <2>2. \A t \in Token : deserialize(hash'[t]) => deserialize(hash[t])
    BY <2>1, <1>1 DEF WriteFields, HSetFields, deserialize
  <2>3. \A g \in Handler :
          op'[g] = op[g] \/ op'[g].pc \notin {"store", "readDoomed", "deleteBoth"}
    BY <2>1, <1>1, IdleType DEF WriteFields, Return
  <2>4. UNCHANGED <<owner, born, index>>
    BY <2>1 DEF WriteFields, Local
  <2> QED
    BY <2>2, <2>3, <2>4, ShrinkStep
<1>3. CASE \E t \in Token : ExpireSession(t)
  <2>1. \A t \in Token : deserialize(hash'[t]) => deserialize(hash[t])
    BY <1>1, <1>3 DEF ExpireSession, deserialize
  <2>2. UNCHANGED <<owner, born, index, op>>
    BY <1>3 DEF ExpireSession, Local
  <2> QED
    BY <2>1, <2>2, ShrinkStep
<1>4. CASE \E a \in Account : ExpireIndex(a)
  <2>1. PICK b \in Account : ExpireIndex(b)
    BY <1>4
  <2>2. UNCHANGED <<owner, born, hash, op>>
    BY <2>1 DEF ExpireIndex, Local
  <2>3. \A a \in Account \ raced : index'[a] = index[a] \/ Live(a)' = {}
    <3> SUFFICES ASSUME NEW a \in Account \ raced, a = b PROVE Live(a)' = {}
      BY <2>1, <1>1 DEF ExpireIndex
    <3>1. Live(a) \subseteq {index[a]} /\ ~deserialize(hash[index[a]])
      BY <2>1 DEF IndexSole, RInv, ExpireIndex, deserialize
    <3> QED
      BY <3>1, <2>2 DEF Live
  <2> QED
    BY <2>2, <2>3, ShrinkStep
<1> QED
  BY <1>2, <1>3, <1>4

LEMMA RacedStep ==
  ASSUME RInv, [RaceNext]_raceVars
  PROVE  RInv'
<1>1. CASE RaceNext
  BY <1>1, QuietSteps, RacedCreateRead, RacedCreateStore, RacedDeleteBoth, RacedKeySteps
     DEF RaceNext, Next, Step
<1>2. CASE UNCHANGED raceVars
  <2>1. IInv'
    BY <1>2, NextInvariant DEF RInv, raceVars
  <2> QED
    BY <2>1, <1>2 DEF raceVars, vars, store, RInv, At, IndexSole,
       Sole, Doing, Live
<1> QED
  BY <1>1, <1>2

LEMMA RacesKeepInvariant == RaceSpec => []RInv
BY RaceInitInvariant, RacedStep, PTL DEF RaceSpec

\* createSession's "delete any existing session for this account first" keeps its
\* promise for every account none of whose sessions was stored while another
\* call stood between its read and its write.
THEOREM StoreOneUnlessRaced == RaceSpec => []OneUnlessRaced
<1>1. RInv => OneUnlessRaced
  BY DEF RInv, IndexSole, OneUnlessRaced
<1> QED
  BY <1>1, RacesKeepInvariant, PTL

\* A session of such an account is the one the next login finds and invalidates.
THEOREM StoreReachableUnlessRaced == RaceSpec => []ReachableUnlessRaced
<1>1. RInv => ReachableUnlessRaced
  BY DEF RInv, IndexSole, ReachableUnlessRaced
<1> QED
  BY <1>1, RacesKeepInvariant, PTL
=============================================================================
