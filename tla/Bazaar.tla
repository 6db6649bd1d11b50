------------------------------- MODULE Bazaar -------------------------------
(***************************************************************************)
(* BazaarHandler, apps/game-server/src/handlers/bazaar-handler.ts, on      *)
(* MarketRepository, packages/database/src/repositories/                   *)
(* market-repository.ts.  Every call is a sequence of steps, one for each  *)
(* await: a statement on the market's tables, or a call of the credits or  *)
(* the inventory manager, which the server injects and the repository does *)
(* not contain.  Calls interleave at their awaits, a transaction between   *)
(* its reads and its writes, and any step may fail.                        *)
(***************************************************************************)
EXTENDS Integers, Sequences, FiniteSets

CONSTANTS
  Character,    \* characters
  Seller,       \* the one who has the items at first
  Item,         \* items
  Price,        \* prices and bids in use
  Rate,         \* commission rates of the terminals, and the default one, in percent
  Credits,      \* what every other character has at first
  Handler,      \* calls that may be under way at once
  PageSize,     \* the limit processExpiredAuctions gives getExpiredListings
  MaxAuctions,  \* bound on the listings created in a behaviour
  MaxCalls      \* bound on the calls of a behaviour

ASSUME BazaarAssumption ==
  /\ Seller \in Character
  /\ Price \subseteq Nat \ {0}
  /\ Rate \subseteq 0 .. 100
  /\ {Credits, PageSize, MaxAuctions, MaxCalls} \subseteq Nat

\* Who has an item when no character has it.
Market == "market"

ASSUME MarketAssumption == Market \notin Character

VARIABLES
  auctions, \* market_auctions with market_bids and market_sale_history, by auction
  owner,    \* who has an item, or Market: the inventory manager's
  credits,  \* what a character has: the credits manager's
  ledger,   \* history: what was taken for a listing less what was paid out for it
  refused,  \* history: what addCredits has refused to pay out for a listing
  op,       \* the call each handler is executing
  calls     \* calls begun so far

vars == <<auctions, owner, credits, ledger, refused, op, calls>>

-----------------------------------------------------------------------------
Status == {"active", "sold", "cancelled", "expired"}

Auctions == 1 .. Len(auctions)

\* instantSalePrice is null, 0 here, for a listing that is no auction, bids
\* holds every bid with its isWinning flag, sales the buyers and prices of the
\* sale records, due whether expiresAt has passed.
Auction == [seller : Character, item : Item, price : Price, isAuction : BOOLEAN,
            instantSalePrice : Price \cup {0}, status : Status, due : BOOLEAN,
            bids : Seq([bidder : Character, amount : Price, winning : BOOLEAN]),
            sales : Seq([buyer : Character, price : Price])]

NoBid == 0

\* What a call knows: its arguments, what it has read, and, for a call on
\* several auctions, those it has yet to see to.
Idle == [pc |-> "idle", who |-> Market, auction |-> 0, item |-> Market, price |-> 0,
         isAuction |-> FALSE, bid |-> NoBid, work |-> {}, scan |-> FALSE]

Bid(a, n) == auctions[a].bids[n]

Winning(a) == {n \in DOMAIN auctions[a].bids : Bid(a, n).winning}

Init ==
  /\ auctions = <<>>
  /\ owner = [i \in Item |-> Seller]
  /\ credits = [c \in Character |-> IF c = Seller THEN 0 ELSE Credits]
  /\ ledger = [a \in 1 .. MaxAuctions |-> 0]
  /\ refused = [a \in 1 .. MaxAuctions |-> 0]
  /\ op = [h \in Handler |-> Idle]
  /\ calls = 0

-----------------------------------------------------------------------------
At(h, pc) == op[h].pc = pc

Goto(h, pc) == op' = [op EXCEPT ![h].pc = pc]

End(h) == op' = [op EXCEPT ![h] = Idle]

Begin(h, o) ==
  /\ At(h, "idle") /\ calls < MaxCalls
  /\ calls' = calls + 1
  /\ op' = [op EXCEPT ![h] = o]
  /\ UNCHANGED <<auctions, owner, credits, ledger, refused>>

Tables == UNCHANGED <<auctions, calls>>
Money == UNCHANGED <<credits, ledger, refused>>

\* addItem: the item has one owner.
AddItem(c, i) == owner' = [owner EXCEPT ![i] = c]

\* addCredits, and deductCredits with amounts below zero, for a listing.
AddCredits(c, amount, a) ==
  /\ credits' = [credits EXCEPT ![c] = @ + amount]
  /\ ledger' = [ledger EXCEPT ![a] = @ - amount]
  /\ UNCHANGED refused

\* addCredits may also answer false, having paid nothing: no caller looks at
\* the answer, and each goes on as if the credits had been paid.
PayOut(c, amount, a) ==
  \/ AddCredits(c, amount, a)
  \/ refused' = [refused EXCEPT ![a] = @ + amount] /\ UNCHANGED <<credits, ledger>>

\* What the market keeps of a price, rounded down.
Commission(price, rate) == (price * rate) \div 100

ItemOf(h) == auctions[op[h].auction].item

SellerOf(h) == auctions[op[h].auction].seller

SetStatus(a, status) == auctions' = [auctions EXCEPT ![a].status = status]

-----------------------------------------------------------------------------
(* createListing *)

CreateListing(h, c, i, p, isAuction) ==
  Begin(h, [Idle EXCEPT !.pc = "getItem", !.who = c, !.item = i, !.price = p,
                        !.isAuction = isAuction])

GetItem(h) ==
  /\ At(h, "getItem")
  /\ IF owner[op[h].item] = op[h].who THEN Goto(h, "removeItem") ELSE End(h)
  /\ Tables /\ Money /\ UNCHANGED owner

\* Mutant: the item stays in the seller's inventory.
KeepItem(h) ==
  /\ At(h, "removeItem")
  /\ Goto(h, "insert")
  /\ Tables /\ Money /\ UNCHANGED owner

RemoveItem(h) ==
  /\ At(h, "removeItem")
  /\ IF owner[op[h].item] = op[h].who
     THEN AddItem(Market, op[h].item) /\ Goto(h, "insert")
     ELSE End(h) /\ UNCHANGED owner
  /\ Tables /\ Money

NewAuction(h) ==
  [seller |-> op[h].who, item |-> op[h].item, price |-> op[h].price,
   isAuction |-> op[h].isAuction,
   instantSalePrice |-> IF op[h].isAuction THEN op[h].price ELSE 0,
   status |-> "active", due |-> FALSE, bids |-> <<>>, sales |-> <<>>]

Insert(h) ==
  /\ At(h, "insert") /\ Len(auctions) < MaxAuctions
  /\ auctions' = Append(auctions, NewAuction(h))
  /\ End(h)
  /\ Money /\ UNCHANGED <<owner, calls>>

\* The insert fails, or the select that reads the new row back: the item is
\* to be restored, whether the row is there or not.
InsertFails(h) ==
  /\ At(h, "insert") /\ Len(auctions) < MaxAuctions
  /\ \E inserted \in BOOLEAN :
       auctions' = IF inserted THEN Append(auctions, NewAuction(h)) ELSE auctions
  /\ Goto(h, "restore")
  /\ Money /\ UNCHANGED <<owner, calls>>

Restore(h) ==
  /\ At(h, "restore")
  /\ AddItem(op[h].who, op[h].item)
  /\ End(h)
  /\ Tables /\ Money

-----------------------------------------------------------------------------
(* cancelListing *)

OnAuction(h, pc, c, a) == Begin(h, [Idle EXCEPT !.pc = pc, !.who = c, !.auction = a])

Active(h) == auctions[op[h].auction].status = "active"

CancelListing(h) ==
  /\ At(h, "cancelListing")
  /\ IF SellerOf(h) = op[h].who /\ Active(h)
     THEN Goto(h, IF auctions[op[h].auction].isAuction THEN "cancelBids" ELSE "cancel")
     ELSE End(h)
  /\ Tables /\ Money /\ UNCHANGED owner

CancelBids(h) ==
  /\ At(h, "cancelBids")
  /\ IF auctions[op[h].auction].bids = <<>> THEN Goto(h, "cancel") ELSE End(h)
  /\ Tables /\ Money /\ UNCHANGED owner

\* Mutant: the update asks for the auction only.
CancelAnyStatus(h) ==
  /\ At(h, "cancel")
  /\ SetStatus(op[h].auction, "cancelled") /\ Goto(h, "return")
  /\ Money /\ UNCHANGED <<owner, calls>>

\* The update asks for the status again.
Cancel(h) ==
  /\ At(h, "cancel")
  /\ IF Active(h)
     THEN SetStatus(op[h].auction, "cancelled") /\ Goto(h, "return")
     ELSE End(h) /\ UNCHANGED auctions
  /\ Money /\ UNCHANGED <<owner, calls>>

Return(h) ==
  /\ At(h, "return")
  /\ AddItem(op[h].who, ItemOf(h))
  /\ End(h)
  /\ Tables /\ Money

-----------------------------------------------------------------------------
(* instantBuy, and the sale of an auction that has ended *)

\* Mutant: the price is the instant sale price, of any listing.
BuyAtInstantPrice(h) ==
  /\ At(h, "instantBuy")
  /\ IF Active(h) /\ SellerOf(h) # op[h].who
     THEN op' = [op EXCEPT ![h].pc = "pay",
                           ![h].price = auctions[op[h].auction].instantSalePrice]
     ELSE End(h)
  /\ Tables /\ Money /\ UNCHANGED owner

\* The price is that of the row that is read here.
InstantBuy(h) ==
  /\ At(h, "instantBuy")
  /\ LET l == auctions[op[h].auction] IN
     IF Active(h) /\ l.seller # op[h].who
     THEN op' = [op EXCEPT ![h].pc = "pay",
                           ![h].price = IF l.isAuction THEN l.instantSalePrice ELSE l.price]
     ELSE End(h)
  /\ Tables /\ Money /\ UNCHANGED owner

\* The item may not be traded or is in use; the buyer has no inventory space;
\* deductCredits says no.
Refuse(h) ==
  /\ op[h].pc \in {"getItem", "pay", "bidPay"}
  /\ End(h)
  /\ Tables /\ Money /\ UNCHANGED owner

Pay(h) ==
  /\ At(h, "pay") /\ credits[op[h].who] >= op[h].price
  /\ AddCredits(op[h].who, -op[h].price, op[h].auction)
  /\ Goto(h, "paySeller")
  /\ Tables /\ UNCHANGED owner

\* The rate is that of a terminal where the listing was made, as terminals are
\* registered by now, or the default one.
PaySeller(h) ==
  /\ At(h, "paySeller")
  /\ \E rate \in Rate :
       PayOut(SellerOf(h), op[h].price - Commission(op[h].price, rate), op[h].auction)
  /\ Goto(h, "deliver")
  /\ Tables /\ UNCHANGED owner

Deliver(h) ==
  /\ At(h, "deliver")
  /\ AddItem(op[h].who, ItemOf(h))
  /\ Goto(h, "saleRead")
  /\ Tables /\ Money

\* What follows the sale: the next auction, or nothing.
AfterSale(h) == IF op[h].scan THEN Goto(h, "nextDue") ELSE End(h)

\* completeSale: the transaction finds the auction active, or gives up.
SaleRead(h) ==
  /\ At(h, "saleRead")
  /\ IF Active(h) THEN Goto(h, "saleWrite") ELSE AfterSale(h)
  /\ Tables /\ Money /\ UNCHANGED owner

SaleRecord(h) == [buyer |-> op[h].who, price |-> op[h].price]

\* Mutant: the sale is recorded, the auction stays active.
RecordSale(h) ==
  /\ At(h, "saleWrite")
  /\ auctions' = [auctions EXCEPT ![op[h].auction].sales = Append(@, SaleRecord(h))]
  /\ AfterSale(h)
  /\ Money /\ UNCHANGED <<owner, calls>>

\* The update names the auction, not its status.
SaleWrite(h) ==
  /\ At(h, "saleWrite")
  /\ auctions' = [auctions EXCEPT ![op[h].auction].status = "sold",
                                  ![op[h].auction].sales = Append(@, SaleRecord(h))]
  /\ AfterSale(h)
  /\ Money /\ UNCHANGED <<owner, calls>>

-----------------------------------------------------------------------------
(* placeBid *)

PlaceBid(h) ==
  /\ At(h, "placeBid")
  /\ LET l == auctions[op[h].auction] IN
     IF l.isAuction /\ Active(h) /\ l.seller # op[h].who THEN Goto(h, "bidWinning") ELSE End(h)
  /\ Tables /\ Money /\ UNCHANGED owner

Found(a) == IF Winning(a) = {} THEN {NoBid} ELSE Winning(a)

\* Against the winning bid n: the handler asks for 5 % more, the repository for
\* more.
Outbids(amount, a, n) ==
  IF n = NoBid THEN amount >= auctions[a].price ELSE 100 * amount >= 105 * Bid(a, n).amount

Beats(amount, a, n) ==
  amount >= (IF n = NoBid THEN auctions[a].price ELSE Bid(a, n).amount + 1)

BidWinning(h) ==
  /\ At(h, "bidWinning")
  /\ \E n \in Found(op[h].auction) :
       IF /\ n # NoBid => Bid(op[h].auction, n).bidder # op[h].who
          /\ Outbids(op[h].price, op[h].auction, n)
       THEN op' = [op EXCEPT ![h].pc = "bidPay", ![h].bid = n]
       ELSE End(h)
  /\ Tables /\ Money /\ UNCHANGED owner

BidPay(h) ==
  /\ At(h, "bidPay") /\ credits[op[h].who] >= op[h].price
  /\ AddCredits(op[h].who, -op[h].price, op[h].auction)
  /\ Goto(h, IF op[h].bid = NoBid THEN "bidRead" ELSE "bidRefund")
  /\ Tables /\ UNCHANGED owner

\* Mutant: the bidder who was beaten is not paid back.
KeepBid(h) ==
  /\ At(h, "bidRefund")
  /\ Goto(h, "bidRead")
  /\ Tables /\ Money /\ UNCHANGED owner

BidRefund(h) ==
  /\ At(h, "bidRefund")
  /\ LET beaten == Bid(op[h].auction, op[h].bid) IN
     PayOut(beaten.bidder, beaten.amount, op[h].auction)
  /\ Goto(h, "bidRead")
  /\ Tables /\ UNCHANGED owner

\* The repository's placeBid: the transaction reads the auction and its
\* winning bid again, and refuses the bid or writes it.
BidRead(h) ==
  /\ At(h, "bidRead")
  /\ \E n \in Found(op[h].auction) :
       IF Active(h) /\ Beats(op[h].price, op[h].auction, n)
       THEN op' = [op EXCEPT ![h].pc = "bidWrite", ![h].bid = n]
       ELSE Goto(h, "bidUndo")
  /\ Tables /\ Money /\ UNCHANGED owner

BidWrite(h) ==
  /\ At(h, "bidWrite")
  /\ auctions' = [auctions EXCEPT
       ![op[h].auction].bids =
          Append([n \in DOMAIN @ |-> IF n = op[h].bid THEN [@[n] EXCEPT !.winning = FALSE]
                                                      ELSE @[n]],
                 [bidder |-> op[h].who, amount |-> op[h].price, winning |-> TRUE]),
       ![op[h].auction].price = op[h].price]
  /\ End(h)
  /\ Money /\ UNCHANGED <<owner, calls>>

\* The bid is paid back; the bidder it was to beat has been paid back too.
BidUndo(h) ==
  /\ At(h, "bidUndo")
  /\ PayOut(op[h].who, op[h].price, op[h].auction)
  /\ End(h)
  /\ Tables /\ UNCHANGED owner

-----------------------------------------------------------------------------
(* retrieveExpiredItems *)

OfSeller(c, status) == {a \in Auctions : auctions[a].seller = c /\ auctions[a].status = status}

RetrieveExpired(h) ==
  /\ At(h, "retrieve")
  /\ op' = [op EXCEPT ![h].pc = "retrieveCancelled", ![h].work = OfSeller(op[h].who, "expired")]
  /\ Tables /\ Money /\ UNCHANGED owner

RetrieveCancelled(h) ==
  /\ At(h, "retrieveCancelled")
  /\ op' = [op EXCEPT ![h].pc = "handBack", ![h].work = @ \cup OfSeller(op[h].who, "cancelled")]
  /\ Tables /\ Money /\ UNCHANGED owner

\* The items go to the seller one by one, in an order of the tables' choice;
\* nothing is noted in their auctions.  (A seller without inventory space gets
\* nothing: Failed.)
HandBack(h) ==
  /\ At(h, "handBack")
  /\ \E a \in op[h].work :
       /\ AddItem(op[h].who, auctions[a].item)
       /\ op' = [op EXCEPT ![h].work = @ \ {a}]
  /\ Tables /\ Money

HandedBack(h) ==
  /\ At(h, "handBack") /\ op[h].work = {}
  /\ End(h)
  /\ Tables /\ Money /\ UNCHANGED owner

-----------------------------------------------------------------------------
(* processExpiredAuctions *)

Due == {a \in Auctions : auctions[a].status = "active" /\ auctions[a].due}

\* getExpiredListings: at most PageSize of those that are due.
ProcessExpired(h) ==
  /\ At(h, "processExpired")
  /\ \E w \in SUBSET Due :
       /\ Cardinality(w) <= PageSize
       /\ w = Due \/ Cardinality(w) = PageSize
       /\ op' = [op EXCEPT ![h].pc = "nextDue", ![h].scan = TRUE, ![h].work = w]
  /\ Tables /\ Money /\ UNCHANGED owner

NextDue(h) ==
  /\ At(h, "nextDue")
  /\ IF op[h].work = {}
     THEN Goto(h, "expireRest")
     ELSE \E a \in op[h].work :
            op' = [op EXCEPT ![h].pc = IF auctions[a].isAuction THEN "dueWinning" ELSE "expire",
                             ![h].auction = a, ![h].work = @ \ {a}]
  /\ Tables /\ Money /\ UNCHANGED owner

DueWinning(h) ==
  /\ At(h, "dueWinning")
  /\ \E n \in Found(op[h].auction) :
       IF n = NoBid
       THEN Goto(h, "expire")
       ELSE op' = [op EXCEPT ![h].pc = "paySeller",
                             ![h].who = Bid(op[h].auction, n).bidder,
                             ![h].price = Bid(op[h].auction, n).amount]
  /\ Tables /\ Money /\ UNCHANGED owner

\* updateListingStatus: whatever the status is by now.
Expire(h) ==
  /\ At(h, "expire")
  /\ SetStatus(op[h].auction, "expired")
  /\ Goto(h, "nextDue")
  /\ Money /\ UNCHANGED <<owner, calls>>

\* expireListings: all that are active and due.
ExpireRest(h) ==
  /\ At(h, "expireRest")
  /\ auctions' = [a \in Auctions |->
       IF a \in Due THEN [auctions[a] EXCEPT !.status = "expired"] ELSE auctions[a]]
  /\ End(h)
  /\ Money /\ UNCHANGED <<owner, calls>>

-----------------------------------------------------------------------------
\* addItem says no; the result is looked at in retrieveExpiredItems only, and
\* for the count it reports.
ItemRefused(h) ==
  /\ \/ At(h, "deliver") /\ Goto(h, "saleRead")
     \/ op[h].pc \in {"restore", "return"} /\ End(h)
     \/ At(h, "handBack") /\ \E a \in op[h].work : op' = [op EXCEPT ![h].work = @ \ {a}]
  /\ Tables /\ Money /\ UNCHANGED owner

\* A step fails and has done nothing.  createListing goes on to restore the
\* item, processExpiredAuctions with the next auction when a sale fails; every
\* other call ends where it is.
Failed(h) ==
  /\ op[h].pc \notin {"idle", "insert", "nextDue"}
  /\ CASE At(h, "removeItem") -> Goto(h, "restore")
       [] op[h].scan /\ op[h].pc \in {"paySeller", "deliver", "saleRead", "saleWrite"} ->
            Goto(h, "nextDue")
       [] OTHER -> End(h)
  /\ Tables /\ Money /\ UNCHANGED owner

\* expiresAt passes.
TimePasses(a) ==
  /\ ~auctions[a].due /\ auctions[a].status = "active"
  /\ auctions' = [auctions EXCEPT ![a].due = TRUE]
  /\ Money /\ UNCHANGED <<owner, op, calls>>

Call(h) ==
  \/ \E c \in Character, i \in Item, p \in Price, isAuction \in BOOLEAN :
       CreateListing(h, c, i, p, isAuction)
  \/ \E c \in Character, a \in Auctions, pc \in {"cancelListing", "instantBuy"} :
       OnAuction(h, pc, c, a)
  \/ \E c \in Character, a \in Auctions, p \in Price :
       Begin(h, [Idle EXCEPT !.pc = "placeBid", !.who = c, !.auction = a, !.price = p])
  \/ \E c \in Character : Begin(h, [Idle EXCEPT !.pc = "retrieve", !.who = c])
  \/ Begin(h, [Idle EXCEPT !.pc = "processExpired"])

Step(h) ==
  \/ GetItem(h) \/ RemoveItem(h) \/ Insert(h) \/ InsertFails(h) \/ Restore(h)
  \/ CancelListing(h) \/ CancelBids(h) \/ Cancel(h) \/ Return(h)
  \/ InstantBuy(h) \/ Refuse(h) \/ Pay(h) \/ PaySeller(h) \/ Deliver(h)
  \/ SaleRead(h) \/ SaleWrite(h)
  \/ PlaceBid(h) \/ BidWinning(h) \/ BidPay(h) \/ BidRefund(h)
  \/ BidRead(h) \/ BidWrite(h) \/ BidUndo(h)
  \/ RetrieveExpired(h) \/ RetrieveCancelled(h) \/ HandBack(h) \/ HandedBack(h)
  \/ ProcessExpired(h) \/ NextDue(h) \/ DueWinning(h) \/ Expire(h) \/ ExpireRest(h)
  \/ ItemRefused(h) \/ Failed(h)

Next ==
  \/ \E h \in Handler : Call(h) \/ Step(h)
  \/ \E a \in Auctions : TimePasses(a)

Spec == Init /\ [][Next]_vars

-----------------------------------------------------------------------------
(* Properties. *)

\* Every variable holds a value of its type: nobody owes credits, a call knows
\* an auction that is there, and what is about to be paid is a price.
TypeOK ==
  /\ auctions \in Seq(Auction)
  /\ owner \in [Item -> Character \cup {Market}]
  /\ credits \in [Character -> Nat]
  /\ ledger \in [1 .. MaxAuctions -> Int]
  /\ refused \in [1 .. MaxAuctions -> Nat]
  /\ \A h \in Handler :
       /\ op[h].auction \in {0} \cup Auctions
       /\ op[h].work \subseteq Auctions
       /\ op[h].who \in Character \cup {Market}
       /\ op[h].pc \in {"pay", "paySeller", "bidPay", "bidUndo"} => op[h].price \in Price
  /\ calls \in 0 .. MaxCalls
=============================================================================
