# A TLA+ model of the Star Wars Galaxies server in TypeScript

This directory holds formal specifications of the server's core: how game
clients connect and exchange messages over UDP, how their sessions are kept in
Redis, how the connection server admits them and says who is there, how the
game server puts them into the world and takes them out again, how writes reach
the database, and how the bazaar and the chat rooms keep their books.  The
modules are translated from the TypeScript source; TLC checks them on small
instances and TLAPS proves the main invariants for every size.  Paths below are
relative to `src/`.

Contents: 1 the system, 2 the plan, 3 modules and code, 4 runs, 5 the
environment and fairness assumed, 6 proofs, 7 what the checks found, 8 what is
not modelled.

## 1. The system

Four Node.js servers (login, connection, game, chat) talk to clients over UDP
and to each other through Redis.  Each is single-threaded: code runs without
interruption up to an `await`, so every await of Redis or of the database is
where other handlers, packets and timers get their turn.

| Part | State | Operations | Talks to |
|---|---|---|---|
| SOE reliable channel (`packages/protocol/src/soe/session-manager.ts`, class `Session`) | send and receive sequence (16 bits), pending acknowledgements, out-of-order queue, fragment buffer | `sendReliable`, `sendFragmented`, `processData`, `processDataFragment`, `processAck`, `processOutOfOrder`, `tick`, `disconnectSession` | the wire; emits `data` to the server |
| SOE session table (same file, class `SessionManager`) | one `Session` per client address | `processSessionRequest`, `createSession`, `removeSession`, `processDisconnect` | emits `session:connected`, `session:disconnected` |
| Redis session store (`packages/redis/src/session-store.ts`) | a hash per token, an index token per account, TTLs | `createSession`, `getSession`, `updateSession`, `deleteSession`, `refreshSession`, lookups by account | Redis; used by all servers |
| Login flow (`apps/login-server/src/handlers/login-handler.ts`) | none of its own | `validateCredentials`: find the old session, delete it, create one | session store, accounts table |
| Game server sessions (`apps/game-server/src/server.ts`) | `extSessions` (authenticated clients), `gameSessions` (zoned-in clients), both by address | `handleClientIdMsg`, `handleSelectCharacter`, `loadAndZoneIn`, movement messages, `cleanupGameSession` | session table, session store, database, movement handler |
| Movement handler (`apps/game-server/src/handlers/movement-handler.ts`) | players by object id, spatial index of 64 m cells | `registerPlayer`, `unregisterPlayer`, `updatePlayerPosition` | called by the game server |
| Connection server (`apps/connection-server/src/`) | `connectionSessions` and `ConnectionHandler.sessions`, both by address; game servers by scene | ConnectionOpen, `handleClientIdMsg`, `handleSelectCharacter`, the idle scan, `cleanupConnectionSession` | session table, session store, pub/sub |
| Write batching (`packages/database/src/batch/`: `DirtyTracker`, `WriteCoalescer`, `BatchQueue`, `AsyncFlushQueue` over `BatchInserter` and `BatchUpdater`) | dirty objects and fields, queued, retried and unanswered writes, timers | mark, clear, evict; write, flush, retry, time out, shut down | database |
| Bazaar (`apps/game-server/src/handlers/bazaar-handler.ts`, `packages/database/src/repositories/market-repository.ts`) | auctions, bids, sale records | `createListing`, `cancelListing`, `instantBuy`, `placeBid`, `retrieveExpiredItems`, `processExpiredAuctions` | database; credits and inventory managers, which are injected |
| Chat rooms (`apps/chat-server/src/handlers/chat-room-handler.ts`) | each server's copy of a room, its members, bans and moderators, and who of them is connected here | create, destroy, join, leave, kick, ban, unban, moderators, the messages of other servers, loading | pub/sub, database |
| Rest of the chat server | routes, presence | dispatch, tells, spatial chat | pub/sub |
| World, objects, containers, spawns, game logic, registries (guilds, cities, vendors, missions, quests, resources) | in-memory maps | many; mostly called by tests and not yet by a server | each other |

`PROJECT.json` lists all parts, those not modelled too, with the reason.

### What is hard

- *The wire.*  UDP loses, repeats and reorders.  The channel must still hand
  over every message whole, once and in order; its 16-bit sequence wraps, and
  comparisons near the wrap are easy to get wrong.  Early packets wait in a
  queue of limited size, fragments of one message share the sequence with the
  next message.
- *Time.*  Retransmission races late acknowledgements; retries run out;
  sessions time out on each side alone.
- *Awaits.*  A handler reads a table, awaits, and writes: by then the client
  has gone, another has come from its address, or another handler has done the
  same.  The session store does so across servers.
- *Keys.*  The servers key what they know of a client by its address and of a
  character by its object id, while `Session` objects come and go.  Every
  replaced or late object can hit the entry of its successor.
- *Batching.*  Writes are retried, coalesced, timed out while still running,
  evicted at capacity; none of it may lose or reorder the last write.
- *Money.*  The bazaar looks, pays and records in several awaits, each of which
  may fail; its undo steps run when the world has moved on.
- *Copies.*  Every chat server has its own copy of a room and changes it before
  the others hear of it; some changes are published only when the database has
  answered; a restarted server loads an older room over newer messages.

### What makes each part correct

- *Channel*: packets are accepted in order, each once (`ConsumedInOrder`);
  messages are delivered whole and in order (`KeepsOrder`); the sender forgets
  nothing that was not acknowledged, up to the wrap (`RetainedBeforeWrap`);
  nothing stale is left in the queue (`QueueAhead`); a lost message costs the
  session and never goes unnoticed (`NoSilentLoss`, part of `KeepsPromise`).
- *Session table*: a `Session` is in the table exactly as long as it is
  connected (`LiveIffMapped`).
- *Session store*: a revoked session stays revoked (`RevokedForGood`); an account
  has one session (`OneUnlessRaced`), which the next login can find
  (`ReachableUnlessRaced`), unless a `createSession` stored while another call
  stood between what it read of the account and its write.
- *Connection server*: the two tables agree (`ClientsTracked`); a connected
  client has its own entry and not its predecessor's (`OwnEntry`); nobody waits
  in vain for the packets that follow authentication (`PostAuthReleased`); who
  follows the bus knows who is there (`PresenceKnown`, `BusInOrder`); who has
  gone can no longer use its token (`GoneIsRevoked`).
- *Game server*: who plays is registered (`PlayingIsRegistered`) and who has
  gone is not (`GoneWhenGone`); each message is handled in the name of the
  client that sent it (`OwnIdentityInOrder`); the spatial index is exact
  (`IndexExact`).
- *Write batching*: a change is reported dirty until it is saved
  (`ChangedIsDirty`); nothing accepted is forgotten (`NothingForgotten`) and
  every caller is answered in the end (`EventuallyAnswered`), truthfully
  (`ToldIsDone`); the last write of a row is the one that stays
  (`NewestStored`, `WrittenInOrder`); a queue that has shut down owes nothing
  (`ClosedIsSettled`).
- *Bazaar*: of a listing the market keeps the winning bid while it is active and
  the commission when it is sold, and nothing else (`BooksBalance`); an item is with whoever
  the books say has paid for it (`SoldToPayer`); the market holds exactly what
  is offered or may be taken back (`MarketHoldsOffered`); an ended auction has
  ended (`EndedStaysEnded`).
- *Chat rooms*: when all is delivered the copies agree (`AgreeAtRest`); the bans
  in force are those a restart would load (`BansSurvive`); only members are sent
  what is said (`HearersBelong`).
- *Packet layer (planned)*: the two ends agree on CRC and encryption for every
  packet, the Disconnect among them.
- *Containers (planned)*: an item is in one container at a time and the
  container's counts agree with its contents.

The hazards behind these, each at its line, are in `PROJECT.json`.

## 2. The plan

Done, in this order: channel and its arithmetic; session store with login;
session table with game server and movement handler; connection server; write
batching; bazaar; chat rooms; each with proofs.  Next, most important first:

1. `PacketLayer`: encryption and CRC by session state at both ends, message
   groups and MultiPackets, composed with `SoeChannel`.
2. The composition of `ConnectionServer`, `SessionStore` and `GameServer` over
   one Redis, to follow one client through login, routing and zone-in.
3. Containers: nesting, moves between containers, volume.
4. Spawns and lairs; mail; the combat command queue; missions and vendors, whose
   purchases have the shape of the bazaar's.

Runs planned for these: two ends and four packets for 1; one account, two
clients for 2; two items and three containers for 3.

Proofs planned: every safety property and action property of the runs that pass
is proved (section 6); new modules come with theirs.

## 3. Modules and code

| Module | Stands for | Extends |
|---|---|---|
| `SoeSequence` | `getNextSendSequence`, `isSequenceNewer`, `isSequenceOlder`, for any modulus `SeqMod` (2^16 in the code) | |
| `ReliableDelivery` | what the channel promises its user: abstract, no code of its own | |
| `SoeChannel` | the sending half of one `Session` joined to the receiving half of its peer | `SoeSequence` |
| `SessionStore` | `SessionStore` and the part of `validateCredentials` that uses it | |
| `SessionRaces` | the same, recording the accounts for which a `createSession` stored under the feet of another call | `SessionStore` |
| `SoeSessions` | the session table, as steps other modules compose | |
| `MovementHandler` | the movement handler's tables, as steps other modules compose | |
| `GameServer` | the handlers of the game server over both | `SoeSessions`, `MovementHandler` |
| `OrderlyGame` | the same, recording whether clients have kept the order | `GameServer` |
| `ConnectionServer` | the connection server's handlers, with Redis and the bus | `SoeSessions` |
| `ConnectionPresence` | the same, recording which addresses have got into a race | `ConnectionServer` |
| `DirtyTracker`, `WriteCoalescer`, `BatchQueue`, `AsyncFlushQueue` | the classes of these names | the last two: `Selection` |
| `Selection` | the `filter` of an array of distinct items (`Among`); a function on positions where `SelectSeq` takes a lambda, which no lemma can be stated for | |
| `Bazaar` | bazaar handler and market repository | |
| `BazaarDisputes` | the same, recording the items a gap of the code has touched | `Bazaar` |
| `ChatRooms` | the chat room handler on every server, for one room path | |
| `ChatAgreement` | the same, recording what the servers cannot agree about | `ChatRooms` |
| `MCSoeChannel`, `MCSessionStore`, `MCGameServer`, `MCConnectionServer`, `MCBazaar`, `MCChatRooms` | instances, symmetry; the first the refinement mapping to `ReliableDelivery` as well | the module above |
| `MCWriteBatching` | the four classes of write batching, one of them per behaviour, and the fairness they need | `DirtyTracker`; instances of the others |
| `*Proofs` | the theorems of section 6 | the module they are about, TLAPS |
| `IntervalInduction` | two lemmas on intervals of naturals that the proofs share | WellFoundedInduction, TLAPS |

`PROJECT.json` maps each definition to its lines.  Definitions whose comment
starts with "Mutant" are deliberate errors: each is put in the place of the
definition below it to show that a property would notice.

*History modules.*  Much of this code is right only as long as certain races do
not happen, and it does nothing to prevent them.  `SessionRaces`, `OrderlyGame`,
`ConnectionPresence`, `BazaarDisputes` and `ChatAgreement` leave the behaviours
of the code as they are, races included, and add variables that remember whom a
race has touched: an account, an address, an item, a player.  Their properties
speak of all the others, so they say that a race harms nobody but those in it.
Where a class has a single such gap (`WriteCoalescer`, `AsyncFlushQueue`,
`DirtyTracker`) the variable is kept in its own module, marked "history".

### SoeChannel

A packet is known by its id, the order in which it was first sent.  What the
code reads off the wire is `SeqOf(id)`, so every comparison in the actions is
of wrapped numbers; ids appear in the properties only, and in
`consumed` and `delivered`, which record what the receiver has accepted and
emitted.  A packet holds its place among the fragments of its message instead
of bytes.  `pendingAcks` and `outOfOrderQueue` are functions from sequence
numbers, as the code's `Map`s are.

- `SendReliable(n)` is all of `sendReliable`: one Data packet, or the `n`
  packets of `sendFragmented`.  The code limits nothing; `Window` says how far
  the application runs ahead of its peer.
- `ProcessAck`, `ProcessOutOfOrder`: the handlers of the peer's answers.  An
  acknowledgement clears every pending number `<=` it and every older one, just
  as the two comparisons of the code do.
- `Tick(due)`: `tick` for the packets whose resend timeout has passed: those
  before the first exhausted one are resent, then the session is given up.
- `ReceiveExpected`, `ReceiveAhead`, `ReceiveOld`: the three branches of
  `processData` and `processDataFragment`.  `Accept(id, n)` includes the drain
  loop: `n` queued packets follow, and one more entry is taken out and dropped
  if the loop does not recognise it.  It does not recognise what `processData`
  queued, because that is a payload without its header (`Queued`).  The model
  takes it that such a payload never looks like an opcode of the loop, which is
  so for SWG messages, which begin with a small little-endian operand count (the
  opcode is read big-endian), and for message groups, which begin with 0x0019.
- `SenderDisconnect`, `ReceiverDisconnect`: a session timeout, a
  `disconnectSession` or a Disconnect packet, each side alone.

The wire keeps all packets: a packet in `dataNet` or `ackNet` may arrive any
number of times, at any time, or never.  So loss, repetition and reordering
need no actions.

### SessionStore

One step per Redis command.  `op[h].pc` names the command handler `h` is about
to send, so everything between two awaits is one step.  A pipeline is one
write to one Redis and is taken as one step.  A session hash is `none`, `live`
(it has what `deserialize` asks for) or `partial`: HSET of a few fields on a
key that has gone makes a hash that is not a session and that never expires.
Sessions expire at any moment, index entries once their session has gone (they
are given the same TTL and are written later in the same pipeline).  `owner`
and `born` are not in Redis; they say whose a token is and whether it was
stored.

`createSession` and `deleteSession` read of an account in one command and write in
the next.  `SessionRaces` puts an account in `raced` in one case only: the pipeline
of a `createSession` runs while another call for the account stands between the two
(`Decided`).  Deletions that overlap one another or precede the pipeline, logins
that overlap up to it, updates, refreshes and TTLs that run out at any point leave
the account in the care of the properties.

### SoeSessions, MovementHandler, GameServer

`Session` and `PlayerObject` are kept by number in `soe` and `objects`, for
handlers hold on to them across awaits after the tables have dropped them;
the tables (`sessions`, `players`, `spatialIndex`, `extSessions`,
`gameSessions`) map addresses, characters and cells as the code's `Map`s do.

A handler that awaits is two actions.  `ClientIdMsg` sends `getSession`;
`Authenticated` and `InvalidToken` are its answers.  `SelectCharacter` sends
the request for the character; `ZoneIn` and `CharacterNotFound` are its
answers.  (The code awaits `updateSession` and then the character; between the
two it reads nothing the server keeps, so they are one wait here.)
`cleanupGameSession` awaits `zoneService.exitZone` between finding the player
and removing it: it is `EndSession`, which leaves `leaving[a]` behind, and
`ExitedZone(a)`.  `exitZone` does no I/O, so these continuations run before
the next packet is read (`Settled` guards what packets start), while answers of
Redis and the database that are already in may come first.

### ConnectionServer

A `ConnectionSession` and its `ClientSession` are made together and are one
entry of `entries`; `connectionSessions` and `clients` are the two tables by
address.  `op[h].pc` names what call `h` awaits, and `op[h].entry` the entry it
has in its hands, whether or not a table still leads there.  `ClientIdMsg` begins
`handleClientIdMsg`, whose answers are `ValidToken`, `ExpiredToken` and, after
`updateSession` and the publication, `Authenticated`.  `SelectCharacter` stands
for `handleSelectCharacter` and `routeToGameServer`; `CleanupConnectionSession`
and what follows it for the end of a client; `DisconnectIdleSessions` for the
scan, which may find any authenticated client idle because nothing refreshes
`lastActivity` afterwards.  Any call of Redis may fail (`Failed`).  A call of the
session store is one step here; its commands are in `SessionStore`.

`troubled` of `ConnectionPresence` collects the addresses at which a session
ended or was replaced during a call, two calls authenticated one client, a client
was found idle, a token was shared with another address, or Redis failed.

### DirtyTracker, WriteCoalescer, BatchQueue, AsyncFlushQueue

- `DirtyTracker`: `dirty` is the map; a whole object is recorded as an empty set
  of fields, as in the code, and `since` orders entries by age for eviction.
- `WriteCoalescer`: writes are numbered; what is pending for a row is the
  sequence of writes merged into it.  `onFlush` belongs to the caller: a call
  of it (`flights`) stores its rows or fails, at any time and in any order with
  the others.  `rest` and `looping` are where a `flush()` of all tables stands.
- `BatchQueue`: `stages` are the statements a flush has left: inserts, updates,
  then each delete.  `Settle(ok)` ends the first one and begins the next.
- `AsyncFlushQueue`: `jobs[s]` is what the batch in slot `s` still has to do,
  `statements` what was sent to the database and has not settled, `pending`
  the buffers of the one inserter and the one updater that all batches share.
  `Timeout(k)` leaves the statement running with nobody waiting for it, and its
  batch retries.  The loop of `processQueue` runs up to its next await in one
  step, with all that a settled statement sets off.

### Bazaar

`auctions` has a row for each listing with its bids and sale records; the
handler's calls are `op[h]`, one step for each await.  A repository transaction
reads in one step (`SaleRead`, `BidRead`) and writes in another (`SaleWrite`,
`BidWrite`): the default isolation takes no lock between them.  Credits and
inventory are external: a call of them succeeds with all of its effect or fails
with none.  `addCredits` and `addItem` may also answer `false`, having done nothing,
and the handler goes on without looking (`PayOut`, `ItemRefused`): the seller or
the beaten bidder is not paid, and the call takes its course.  `ledger` records per
listing what was taken less what was paid out, `refused` what `addCredits` refused.

A sale pays the seller the price less `Commission`, rounded down, at the rate of
some terminal where the listing was made, or the default one; which it is may have
changed since (`Rate`).  A bid must pass two checks: the handler asks for 5 % more
than the winning bid (`Outbids`), the repository for 1 more (`Beats`).  Both use
exact arithmetic; the code multiplies doubles, which can differ by one credit.

`disputed` of `BazaarDisputes` collects the items on which two calls were past
their checks at once, whose call broke off after money or the item had moved,
or which met one of the gaps listed under section 7.

### ChatRooms

`rooms[s]` is the copy of server `s`; `inRoom`, `local`, `mapped` and `names` are
`userRooms`, `localMembers` with and without an entry for the room, and
`memberNames`.  A message is in the inboxes of the others as soon as it is
published, for Redis passes publications on in one order and each subscriber
receives them in that order.  Calls of the database are carried out and answered
in any order (`Execute`, `Resume`); the publication that waits for one follows in
`Resume`.  A `Crash` loses everything but `db`; `Start` subscribes and reads the
room, and `Load` puts what was read in the place of what messages have made of it
since.

`contested` of `ChatAgreement` collects the players whose operations crossed, and
those about whom a server that loads its room differs from another server or from
the database as it is by then: what it read may be older than a ban another server
has saved since.  `split` says that rooms crossed, `unsaved` whose ban the database
did not get, `renewed` which servers have crashed, and `strays` who has left a room
through another server.

## 4. Runs

Sizes are chosen so that the interesting case happens several times over.

| Run | Shows | Instance, and why it is enough |
|---|---|---|
| `channel_transfer` | `ConsumedInOrder`, `QueueAhead`, `RetainedBeforeWrap`; `KeepsOrder`, the safety half of `ReliableDelivery` | `SeqMod` 6 with 8 packets: past the wrap; `Window` 3 is the most the theorem allows; messages of 1 and 3 packets, so that a message is split around a gap and around the wrap; a queue of 2, which fills; it never overflows, as with `Window` 3 only two packets can be early, so that overflow is in the theorems only |
| `channel_stop_and_wait` | `KeepsPromise`, all of `ReliableDelivery` | one packet outstanding, fair tick, 4 packets, one retry |
| `channel_silent_loss` | `NoSilentLoss` fails with two packets outstanding | the smallest such instance |
| `store_concurrent` | `TypeOK`, `OneUnlessRaced`, `ReachableUnlessRaced`, `RevokedForGood` | three handlers, two accounts, three tokens: a login, a replacement and a third login among two deletions, updates or refreshes, all interleaved, keys expiring; one account may race while the other does not |
| `store_one_session_per_account` | `OneSessionPerAccount` fails for two logins at once | one account, two handlers |
| `game_single_login` | `TypeOK`, `LiveIffMapped`, `IndexExact`, `PlayingIsRegistered`, `GoneWhenGone`, `OwnIdentityInOrder` | 2 addresses, 2 calls, 2 characters, 2 cells, 3 sessions, 3 zone-ins: an address is used again, with replaced sessions and late answers |
| `game_replaced` | `OwnIdentity` fails when a session is replaced | as above, `Replacing` only |
| `game_relogin` | `IndexExact` fails when a character comes back too early | as above, `Relogin` only |
| `connection_presence` | `TypeOK`, `PostAuthReleased`, `ClientsTracked`, `OwnEntry`, `PresenceKnown`, `GoneIsRevoked`, `BusInOrder` | 2 addresses, 2 calls in flight, 2 tokens, 2 sessions, 4 calls: authentication, selection and cleanup of one client against a second client on the same or on another address, and idle scans and failures between them |
| `write_batching` | `ClassesTypeOK`, `ChangedIsDirty`, `NothingForgotten`, `ToldIsDone`, `NewestStored`, `WrittenInOrder`, `ClosedIsSettled`, `EventuallyAnswered` | tracker: 2 objects, 2 fields, 2 priorities, room for 1 object, 4 marks; coalescer: 2 tables of 2 rows, 2 pending, 3 writes; batch queue: 3 operations, forced at 2; async queue: 2 items in batches of 1 or 2, 2 batches at a time, one retry, one time-out.  The room of the tracker, the pending rows of the coalescer, the batch queue and the retries are used up in some behaviour; that the async queue refuses an item when it is full is not reached with two items and a queue of two, and is in the theorems only |
| `bazaar_market` | `TypeOK`, `BooksBalance`, `SoldToPayer`, `MarketHoldsOffered`, `EndedStaysEnded` | one item, a seller and two buyers with 40 credits, prices of 20 and 30 and a commission of 10 %, two listings, five calls, two at a time, one auction per scan: a bid beaten by another and sold, or cancelled, or expired and handed back, and the item listed again |
| `chat_rooms` | `TypeOK`, `AgreeAtRest`, `BansSurvive`, `HearersBelong` | 2 servers, 3 players, 2 members at most, 4 operations, one crash: a room, two members and a ban of one of them through the other server, around a restart |

The bounds are `MaxPackets` (packets of a behaviour), `MaxResend` (resends that
OutOfOrder packets can ask for beyond `MaxRetries`; the code has no limit),
`MaxTokens` (sessions created), `MaxSessions` (`Session` objects), `MaxZoneIns`
(zone-ins), `MaxCalls` (calls that packets and timers start, calls of the bazaar,
operations on chat rooms), `MaxAuctions` (listings), `MaxMarks`, `MaxWrites`,
`MaxQueued`, `MaxItems` (what the four batching classes are given), `MaxTimeouts`,
`MaxCrashes`.  `TokenLeft` lets a login begin only when a token is left for it,
so that no handler is stuck halfway by the bound.  The rest are limits of the
code, made small so that they are reached: `MaxOutOfOrder`, `MaxRetries`
(`MAX_OUT_OF_ORDER_PACKETS`, `maxRetries`), `MaxTrackedObjects`,
`MaxPendingWrites`, `MaxCoalescedWrites`, `MaxSize`, `MaxConcurrent`,
`BatchSize`, `MaxQueueSize`, `PageSize` (the limit of `getExpiredListings`),
`MaxMembers`.

Two runs have a state constraint.  `Undisputed` ends a behaviour of the bazaar
when its item is in dispute, and `OneRoom` one of the chat servers when their
copies are of different rooms: from there on the properties promise nothing, except
`HearersBelong`, which holds with different rooms too: TLC sees it up to that point
only, the theorem beyond.

Deadlock is checked for the store only.  A channel both of whose ends have closed
has really stopped, and elsewhere all is quiet when the clients have gone and a
bound is used up.

Symmetry is used where values are interchangeable and only for invariants and
action properties: handlers of the store and the bazaar, buyers, addresses,
calls, tokens and cells of the servers, chat servers and players.  Accounts and
characters of the game server are left out of it because `Idle` names one of
them.  Runs with a liveness property have none.

## 5. Environment and fairness

- *Packet lifetime.*  The wire forgets a packet once the channel has moved
  `HalfRange` packets past it (`Alive`, `Fresh`): 32768 packets in the code.
  Without this no protocol with wrapping numbers is safe.
- *Window.*  The application has at most `Window` packets beyond what its peer
  accepted.  The code has no such limit.  The runs and theorems about order
  assume `Window <= HalfRange`.
- *Clients of the game server.*  Three constants say what may happen.
  `Replacing`: a SessionRequest comes from an address with a live session (a
  client that restarts on its port).  `LateAnswers`: a session ends while an
  answer for it is awaited.  `Relogin`: a character is zoned in while it is
  still in the game (a client that crashed and comes back from another port).
  All are possible in the code; each run says which it allows, and the two
  failing runs allow only the one that breaks the property.
- *Redis.*  A command, and a pipeline, takes effect as a whole.  Calls of the
  connection server fail without an effect.  Publications arrive in the order in
  which they were made.
- *Database.*  A statement takes effect as a whole or not at all; calls under
  way at once may be carried out in any order.
- *Fairness.*  `channel_stop_and_wait` and `channel_silent_loss` use
  `TickFairness`: a packet that stays pending is visited by `tick` again and
  again.  `SessionManager.start` sets an interval timer, and `tick` walks all
  sessions and all their pending packets; it stops only with the server.
  Nothing is assumed of the wire: a packet that never gets through runs out of
  retries.  `write_batching` uses weak fairness of the coalescer's timers, of
  the periodic flush of a `BatchQueue`, and of the answers of `onFlush` and of
  statements: the event loop fires a timer that stays set, and a database client
  answers or gives up.  The other runs have none, for they check safety only.

## 6. Proofs

All theorems hold for every value of the constants allowed by the named
assumptions (`SeqModAssumption`, `ChannelAssumption`, `StoreAssumption`,
`SessionsAssumption`, `GameServerAssumption`, `ConnectionAssumption`,
`TrackerAssumption`, `BatchingAssumption`, `BazaarAssumption`, `MarketAssumption`, `RoomsAssumption`),
which the runs evaluate.  Where a theorem needs more, its ASSUME says so
(`Window <= HalfRange`, `~Relogin`).  Two assumptions narrow the code's limits:
`BatchingAssumption` has `MaxPendingWrites` below 20 (10000 by default), so that an
eviction takes one row, the tenth of its rows being less than two; larger values add
further `FlushObject` steps.  `BazaarAssumption` has the commission rates in whole
percents.

**`IntervalInduction`**.  What a fold or a loop computes after each of its steps is
shown by induction over an interval.  The provers cannot use an induction rule whose
parameter is a property; `Upwards` has a set in its place: what is in the set for 0,
and for `k + 1` if it is for `k`, is in it up to `m`.  It follows from `LeastOf`, that a
set of naturals has a least element.

**`SoeChannelProofs`**.  `NewerMeansAhead`: for two packets less than
`HalfRange` apart, `isSequenceNewer` of their numbers tells which was sent
later, for every modulus.  Its lemmas do the modular arithmetic from division
with remainder: `SeqInjective` (packets less than a turn apart have different
numbers), `SeqAdvance` and `SeqDifference` (wrapped sums and differences).

For `Window <= HalfRange`: `ChannelAcceptsInOrder` (`ConsumedInOrder`) and
`ChannelQueueAhead` (`QueueAhead /\ SequencesAgree`).  They are not inductive
alone: that an arriving packet with the expected number is the expected packet
needs that it is less than a turn away.  The invariant adds that the wire and the
pending map hold sent packets only and that the sender is within `Window` of the
receiver (`KnownPackets`, `InWindow`).  One lemma per action; the one for
`ReceiveExpected` follows the drain loop with `SlotContent` (the k-th slot holds
the k-th packet) and `RunIsShort` (the loop stops within one turn).

Under the same condition `ChannelKeepsOrder` (`KeepsOrder`) is the safety half of
the refinement of `ReliableDelivery`: each step of the channel is a step of it or a
stutter.  That the messages delivered are the first of those sent says nothing of a
message that is half received, so `InOrder` adds that the packets sent are those of
the messages, end to end, each with the length of its message (`MessagesMatch`),
and that after `c` accepted packets the first `d` messages have come out and the
fragment buffer holds the rest, an initial part of message `d + 1` with its length
(`Progress`).  One packet keeps `Progress`, and the fold over what the drain loop
accepts keeps it by `Upwards`.

`ChannelRetainsBeforeWrap` (`RetainedBeforeWrap`) needs no bound on the window, but
ends at the wrap.  `Retains` adds that nothing is acknowledged, queued or pending
that was not sent, and that until then a pending number is the packet it stands for.

**`SessionStoreProofs`**: `StoreTypeOK` and `StoreRevokedForGood`, for any number of handlers, accounts and tokens.  The
invariant adds that the token a handler is about to store is fresh: not stored before, not in the
index, in no other handler's hands (`PendingFresh`, `PendingApart`).  With it
the only step that makes a hash live makes a new one live, which is what
`RevokedForGood` says.

For `SessionRaces` two more: `StoreOneUnlessRaced` and `StoreReachableUnlessRaced`.
`IndexSole` says both at once: the only session of an account that was not raced
is the one in its index.  It is not inductive, because `createSession` and
`deleteSession` act in their second command on what they read in the first.  The
invariant adds that what a handler is about to replace or to delete is the only
session of the account (`Sole`), and that it was stored (`Doing`).  Only a
`createSession` that stores for the same account can spoil this, and the account
would be raced (`RacedCreateStore`, `Bystander`); what TTLs, other deletions and
field writes do only takes sessions away, and takes an index entry away only where
no session is left (`ShrinkStep`).

**`GameServerProofs`**: `GameLiveIffMapped` and `GameTypeOK` (`TypeOK`) hold in every
environment; the invariant of the first is the table's own with the types of the
calls in flight, that of the second adds the movement handler's and the game
sessions'.  `GameIndexExact` (`IndexExact`) and `GamePlayingIsRegistered`
(`PlayingIsRegistered`) hold if `Relogin` is false.  An exact index alone is not
inductive: a move acts on the PlayerObject of a game session, and a cleanup on the
registered one, and they must be the same.  The invariant adds that what is
registered under a character is a PlayerObject of that character
(`RegisteredOwn`), that no two addresses play the same PlayerObject
(`OnePlayerEach`), and that a PlayerObject being cleaned up is still
registered, that nobody else plays or cleans it up and that its address has no
`Session` (`LeavingAlone`).  `game_relogin`
shows that the condition cannot be dropped.  `GameOwnIdentity` and
`GameGoneWhenGone` add to this, as long as clients keep the order, that a call
in flight serves a connected `Session` (`CallsConnected`), that what the tables
keep for an address is of its present `Session`, or of the player being cleaned
up (`OwnTables`), and that whoever is registered is played from some address
(`RegisteredPlayed`).

**`ConnectionServerProofs`**: `TypeCorrect`, `NobodyHangs` (`PostAuthReleased`)
and `TablesAgree` (`ClientsTracked`), in every environment.  The invariant is in
parts, for the session table, the entries, the tables, the calls and what is
outside.  That authentication is never undone needs the types of the calls: one
that checks a token has a token (`Fine`), so no answer clears one.

For `ConnectionPresence` four more theorems hold of the addresses that no race has
troubled: `EntriesOwn` (`OwnEntry`), `TokensRevoked` (`GoneIsRevoked`),
`BusTellsPresence` (`PresenceKnown`) and `HistoriesInOrder` (`BusInOrder`).  Two
invariants are proved, one on the other, each in two kinds of steps: what an
address's own packets and calls do to it, and what those of all the others do to it
(nothing: `AsideStep`).

- `PresenceInv`: a cleanup is of a `Session` that has ended, an entry left behind
  is being cleaned up, and the entry of a `Session` that has not ended is its own
  (`RightAt`); whoever a scan found idle is troubled.
- `HistoryInv`: each call works on the entry of its address, alone where the code
  needs it to be alone, and with that entry's token (`CallRight`); an entry that has
  a token but is not authenticated is being authenticated, and one that is
  authenticated has a history that began and has ended only if its cleanup has said
  so (`CurrentRight`); whatever entries the address had before are over, with tokens
  nobody else has (`PastRight`); and whoever has to do with a token has presented it
  (`HoldersInv`, `HeldRight`), so that nothing is published of a client by another's
  calls.

**`WriteBatchingProofs`**, for any objects, fields, tables, priorities and limits.
Of the tracker alone: `TypeCorrect`, `ChangesKept` (`ChangedIsDirty`).  `Recorded(o)`
says what the map means: an object marked by field has exactly its changed fields
recorded, one marked as a whole has none recorded and is still in the map.

Of `BatchingSpec`, the four classes side by side: `BatchingTypeOK` (`ClassesTypeOK`),
`BatchingForgetsNothing` (`NothingForgotten`), `BatchingTellsTheTruth` (`ToldIsDone`),
`CoalescerStoresNewest` (`NewestStored`), `BatchingWritesInOrder` (`WrittenInOrder`)
and `ClosedSettles` (`ClosedIsSettled`).  Each class has its invariant, and a step of
one leaves the others' as they are (`BatchingStep`):

- `CoalescerInv`: every unanswered write is pending, in a call of `onFlush` or in a
  detached map (`Kept`); of a row that no two calls have had at once, what is stored,
  what is on its way and what is pending are in the order in which it was written
  (`Ordered`), and what was reported as stored is no newer than the row.
- `BatchInv`: the statements a flush has left divide what it took and has not
  executed (`Divided`, `Executed`); what it took is older than what stays behind with
  the same priority (`Taking`), hence the updates of one row keep their order across
  flushes; an insert of the flush is executed, still to come, or a statement of it
  has failed and its callback will say so (`Reported`).
- `AsyncInv`: an unanswered item is in the queue, among the retries or in the jobs of
  one slot, and no other item is (`Placed`, `Apartness`); each slot under way has one
  statement, which carries the items of its first job and perhaps, as all batches
  share one inserter and one updater, those of others (`Flowing`, `Serves`); whoever
  was told "ok" is in a statement that succeeded (`Logged`).  As long as nothing has
  timed out and no two statements were under way at once (`Calm`) more holds: nothing
  but deletes is retried (`Orderly`), as an insert or update that fails stays with the
  inserter or updater, and of items that are alike what is written is older than what
  is in a slot, and that older than what is queued.

What the queues do to arrays is in lemmas about values: what a selection keeps of
items and their order (`Ahead`), where an item is inserted by priority, what a batch
takes and leaves, how jobs divide a batch.

**`BazaarProofs`**: `BazaarTypeOK`, for the calls as they are; and for every item
that is not in dispute `BazaarBooksBalance` (each of its listings has the winning
bid, the commission or nothing, whatever `addCredits` refuses), `BazaarSoldToPayer`,
`BazaarMarketHoldsOffered` and the action property `BazaarEndedStaysEnded`, for any
number of characters, items, prices, rates, calls and scans.  What the theorems say holds
between calls only, so the invariant `MInv` says what holds within one.

- `TInv`: a call has what it will use at its next steps (`Knows`): a row that is
  there, a price where one is paid, the bid it has found; a row with bids is that of
  an auction (`Rows`); what a scan or a retrieval has left to see to is apart from
  what it has in hand (`Works`).
- `ItemInv(i)`, for an item not in dispute: nothing but its last listing is on offer,
  with one winning bid (`Sane`); when no call is past its checks every listing has
  what it may keep (`Books`) and the item is where the last listing says (`AtRest`);
  otherwise the one call that is (two would be a clash, and the item in dispute) has
  come as far as its step says (`Phase`), for instance, between paying the seller and
  the sale record the market has the commission only, and the other listings' books
  are balanced.
- What a call has left to do is as it found it (`WorkPhase`): a scan that reads all
  due auctions and sees to them one by one is overtaken on none of them.

Each step is looked at twice: for the item its call is about (one lemma per kind of
call), and for the others, whose rows it leaves as they are (`SameItem`).

**`ChatRoomsProofs`**: `TypeCorrect`, `ListenersBelong` (`HearersBelong`), for any
number of servers, players, operations and crashes.  The invariant adds that
a server that is down or loading lists nobody (`NobodyYet`), which is what makes
`Load` harmless.

`CopiesAgree` (`AgreeAtRest`) and `BansAreKept` (`BansSurvive`) speak of moments at
which nothing is under way, and no such moment says anything of the next.  Their
invariant `Agreement` compares, for one player at a time, not the copies but what
they are going to say when their inboxes have been handled (`Outlook`, a fold over
the inbox with `Heard`).  Handling a message leaves the outlook as it is, and a
publication changes all outlooks but that of its server.  Between an operation and
its publication stands a call of the database; so

- `InStep`: servers that wait for no such call have matching outlooks, and one that
  waits for one matches what the others will say when they have heard of it (`Match`);
- `OneCall`, `MadeAlone`: there is one such call at a time, and a room that is being
  made is nobody else's.  Both fail only when operations cross, which `split` and
  `contested` record: hence each clause is in two forms, for the room as such and, in
  full, for a player who is not contested;
- `Apart`: no outlook has a banned member; `Kept`: the database agrees with the
  persistent outlooks, or will when the call is carried out;
- `Phases`: a server that is not up has crashed and waits for nothing, so that
  members may differ from its copy and no call of its own is lost unnoticed.

*Model-checked only*: liveness (`EventuallyAnswered`, and the fairness half of
`KeepsPromise`, that what is sent is delivered), which is beyond the prover.  The
violated properties of section 7 are shown by TLC.

## 7. What the checks found

Four runs show that the code does other than its comments say:

- `channel_silent_loss`: an early Data packet is queued without its header, so
  the drain loop drops it; it has been acknowledged, and its acknowledgement
  also clears the packet before it.  The message is lost while both sessions
  go on.  (An OutOfOrder packet asks for a resend, but only of what is still
  pending.)
- `store_one_session_per_account`: two logins read the same old token, and both
  of their sessions stay.
- `game_replaced`: a replaced `Session` leaves no event; the new client from
  the address acts as the old one until it authenticates.
- `game_relogin`: registering a registered character leaves its old cell in
  the index.

Others came up while the properties were made precise; each is why a property
leaves something out, and each is a hazard in `PROJECT.json`:

- `processAck` also compares numbers as integers; a late acknowledgement from
  before the wrap clears small numbers after it (`session-manager.ts:611`).
  `RetainedBeforeWrap` therefore ends at the wrap.
- Connection server: nothing refreshes the time of a client's last activity, so
  a connected client is found idle and its token revoked.
- Write batching: an object marked as a whole and then by field is forgotten when
  the field is cleared; a write to a full buffer can go into a table map that has
  just been dropped; a flush that timed out writes again; failed updates and
  deletes are reported as done.
- Bazaar: two buyers both pay for one listing; an outbid bidder is paid back
  twice; the highest bidder of an auction that is bought at once is never paid
  back; a retrieved item can be retrieved again after it was sold; nobody notices when
  `addCredits` refuses to pay a seller or a beaten bidder.
- Chat rooms: a join that crosses a ban leaves a banned member; a member who
  leaves through another server goes on receiving; a restart loads an older room
  over newer messages, and keeps a ban that was lifted while it was reading.

## 8. Not modelled

Bytes: packet framing, CRC, encryption, compression, message bodies.  Of the
channel: message groups, MultiPackets, pings, net status, unreliable data.  Of
the session table: `processSessionResponse`, which only a client receives, and
`destroy`.  Of the store: TTL queries, scans and bulk deletions by tools.  Of
the game server: character creation, which touches none of these tables, speed
validation and cells of buildings, the zone-in packets, start and stop.
`zoneService.enterZone` is never called by the server, so zones do not appear.
Of the connection server: start and stop, the table of game servers and its
pruning, statistics.  Of write batching: the chunks and retries inside inserter
and updater (a statement succeeds, or fails for good), several tables in one
queue, events and statistics; liveness of `AsyncFlushQueue`, whose fairness TLC
cannot evaluate in reasonable time.  Of the bazaar: price changes and searches,
terminals and their counts, the limit of listings of a seller, the rounding of doubles.  Of
the chat rooms: the message of the day, callbacks and what is said, several room
paths, the limit of rooms of a player, publications that fail, cleanup;
`registerMember` forgets the callback of a player in no room yet, and moderators
are not passed on to other servers, which no property is about.  The other parts
are in section 2 or, where they keep no state that several actors share
(formulas, data tables, message definitions, metrics, configuration), left out.
