---------------------------- MODULE BazaarProofs ----------------------------
(***************************************************************************)
(* The bazaar's tables, calls and balances are well typed whatever calls   *)
(* interleave and fail; and an item about which nothing has gone wrong is  *)
(* accounted for to the credit, is with whoever the books say, and is on   *)
(* offer once, for any number of characters, items, prices, auctions and   *)
(* calls.                                                                  *)
(***************************************************************************)
EXTENDS BazaarDisputes, SequenceTheorems, TLAPS

-----------------------------------------------------------------------------
(* The invariant of the types. *)

Listing == {"getItem", "removeItem", "insert", "restore"}
Cancelling == {"cancelListing", "cancelBids", "cancel", "return"}
Selling == {"pay", "paySeller", "deliver", "saleRead", "saleWrite"}
Bidding == {"bidWinning", "bidPay", "bidRefund", "bidRead", "bidWrite", "bidUndo"}
Retrieving == {"retrieve", "retrieveCancelled", "handBack"}

\* Where a scan is while it has auctions left to see to.
Scanning == {"nextDue", "dueWinning", "expire", "paySeller", "deliver", "saleRead", "saleWrite"}

PCs == {"idle", "instantBuy", "placeBid", "processExpired", "expireRest"}
         \cup Listing \cup Cancelling \cup Selling \cup Bidding \cup Retrieving \cup Scanning

CallType == [pc : PCs, who : Character \cup {Market}, auction : Nat,
             item : Item \cup {Market}, price : Price \cup {0}, isAuction : BOOLEAN,
             bid : Nat, work : SUBSET Nat, scan : BOOLEAN]

\* Who works on an auction, and who acts for a character.
OnRow == {"instantBuy", "placeBid", "dueWinning", "expire"}
           \cup Cancelling \cup Selling \cup Bidding
ForSomeone == Listing \cup Retrieving \cup (OnRow \ {"dueWinning", "expire"})

\* What a call knows is there, is a price where one is paid, and is the bid it
\* has found.
Knows(h) ==
  /\ op[h].auction \in {0} \cup Auctions
  /\ op[h].work \subseteq Auctions
  /\ op[h].pc \in Listing => op[h].item \in Item /\ op[h].auction = 0
  /\ op[h].pc \in OnRow => op[h].auction \in Auctions
  /\ op[h].pc \in ForSomeone => op[h].who \in Character
  /\ op[h].pc \in Listing \cup Bidding \cup Selling \cup {"placeBid"}
       => op[h].price \in Price
  /\ op[h].pc \in Bidding => auctions[op[h].auction].isAuction
  /\ op[h].pc \in {"bidPay", "bidRefund", "bidRead", "bidWrite"}
       => op[h].bid \in {NoBid} \cup DOMAIN auctions[op[h].auction].bids
  /\ op[h].pc = "bidRefund" => op[h].bid # NoBid

\* What a call has left to see to: the auctions of a scan, the one in hand not
\* among them, or those of a seller.
Works(h) ==
  /\ op[h].scan => op[h].pc \in Scanning \cup {"expireRest"}
  /\ op[h].work # {} =>
       op[h].pc \in IF op[h].scan THEN Scanning ELSE {"retrieveCancelled", "handBack"}
  /\ op[h].scan /\ op[h].pc \in Committed => op[h].auction \notin op[h].work

\* Only an auction has an instant sale price and bids.
Rows ==
  /\ auctions \in Seq(Auction) /\ Len(auctions) <= MaxAuctions
  /\ \A a \in Auctions : IF auctions[a].isAuction THEN auctions[a].instantSalePrice \in Price
                         ELSE auctions[a].bids = <<>>

\* Nobody owes credits, and nothing is booked for a listing to come.
Accounts ==
  /\ credits \in [Character -> Nat]
  /\ ledger \in [1 .. MaxAuctions -> Int]
  /\ refused \in [1 .. MaxAuctions -> Nat]
  /\ \A a \in (1 .. MaxAuctions) \ Auctions : ledger[a] = 0 /\ refused[a] = 0

TInv ==
  /\ Rows /\ Accounts
  /\ owner \in [Item -> Character \cup {Market}]
  /\ calls \in 0 .. MaxCalls
  /\ op \in [Handler -> CallType]
  /\ \A h \in Handler : Knows(h) /\ Works(h)

-----------------------------------------------------------------------------
(* Types. *)

\* The types the steps below rely on.
LEMMA Numbers ==
  /\ Price \subseteq Nat /\ Price \cup {0} \subseteq Int /\ \A p \in Price : p > 0
  /\ Credits \in Nat /\ MaxCalls \in Nat /\ MaxAuctions \in Nat /\ Seller \in Character
BY BazaarAssumption DEF BazaarAssumption

\* What the market takes as its commission is part of the price.
LEMMA CommissionBounds ==
  ASSUME NEW p \in Price, NEW rate \in Rate
  PROVE  /\ Commission(p, rate) \in Int
         /\ p - Commission(p, rate) \in Nat
<1>1. p \in Nat /\ rate \in Nat /\ rate <= 100
  <2>1. p \in Nat
    BY Numbers
  <2>2. Rate \subseteq 0 .. 100
    BY BazaarAssumption DEF BazaarAssumption
  <2> QED
    BY <2>1, <2>2
<1>2. p * rate \in Nat
  BY <1>1
<1>3. p * rate <= p * 100
  <2>1. 100 - rate \in Nat /\ p * (100 - rate) \in Nat
    BY <1>1
  <2>2. p * (100 - rate) = p * 100 - p * rate
    BY <1>1
  <2> QED
    BY <1>1, <1>2, <2>1, <2>2
<1> DEFINE x == p * rate
<1> HIDE DEF x
<1>4. x \div 100 \in Int /\ x \div 100 <= p
  BY <1>1, <1>2, <1>3 DEF x
<1> QED
  BY <1>1, <1>4 DEF x, Commission

Sale == [buyer : Character, price : Price]

\* A row of the tables.
LEMMA RowType ==
  ASSUME Rows, NEW a \in Auctions
  PROVE  /\ auctions[a] \in Auction
         /\ auctions[a].seller \in Character /\ auctions[a].item \in Item
         /\ auctions[a].price \in Price /\ auctions[a].isAuction \in BOOLEAN
         /\ auctions[a].status \in Status
         /\ auctions[a].bids \in Seq([bidder : Character, amount : Price, winning : BOOLEAN])
         /\ auctions[a].sales \in Seq(Sale)
<1>1. auctions[a] \in Auction
  BY DEF Rows, Auctions
<1> QED
  BY <1>1 DEF Auction, Sale

\* An element of a sequence.
LEMMA Element ==
  ASSUME NEW S, NEW s \in Seq(S), NEW n \in DOMAIN s
  PROVE  s[n] \in S /\ n \in 1 .. Len(s)
OBVIOUS

\* A bid of a row.
LEMMA BidType ==
  ASSUME Rows, NEW a \in Auctions, NEW n \in DOMAIN auctions[a].bids
  PROVE  /\ Bid(a, n) \in [bidder : Character, amount : Price, winning : BOOLEAN]
         /\ Bid(a, n).bidder \in Character /\ Bid(a, n).amount \in Price
         /\ n \in Nat /\ n # NoBid
<1>1. auctions[a].bids \in Seq([bidder : Character, amount : Price, winning : BOOLEAN])
  BY RowType
<1>2. /\ auctions[a].bids[n] \in [bidder : Character, amount : Price, winning : BOOLEAN]
      /\ n \in 1 .. Len(auctions[a].bids)
  BY <1>1, Element
<1> QED
  BY <1>1, <1>2 DEF Bid, NoBid

\* A call that has ended knows nothing.
LEMMA IdleType ==
  /\ Idle \in CallType
  /\ Idle.pc = "idle" /\ Idle.who = Market /\ Idle.auction = 0 /\ Idle.item = Market
  /\ Idle.price = 0 /\ Idle.bid = NoBid /\ Idle.work = {} /\ Idle.scan = FALSE
BY DEF Idle, CallType, PCs, NoBid

\* One call is replaced; the others are as they were.
LEMMA ReplaceCall ==
  ASSUME op \in [Handler -> CallType], NEW h \in Handler, NEW r \in CallType,
         op' = [op EXCEPT ![h] = r]
  PROVE  /\ op' \in [Handler -> CallType] /\ op'[h] = r
         /\ \A g \in Handler : g # h => op'[g] = op[g]
OBVIOUS

\* A call goes on to another await, with all it knows.
LEMMA GotoFields ==
  ASSUME op \in [Handler -> CallType], NEW h \in Handler, NEW pc \in PCs, Goto(h, pc)
  PROVE  /\ op' \in [Handler -> CallType]
         /\ \A g \in Handler : g # h => op'[g] = op[g]
         /\ op'[h].pc = pc /\ op'[h].who = op[h].who /\ op'[h].auction = op[h].auction
         /\ op'[h].item = op[h].item /\ op'[h].price = op[h].price
         /\ op'[h].isAuction = op[h].isAuction /\ op'[h].bid = op[h].bid
         /\ op'[h].work = op[h].work /\ op'[h].scan = op[h].scan
<1> DEFINE r == [op[h] EXCEPT !.pc = pc]
<1>1. op[h] \in CallType
  OBVIOUS
<1>2. r \in CallType
  BY <1>1 DEF CallType
<1>3. /\ r.pc = pc /\ r.who = op[h].who /\ r.auction = op[h].auction
      /\ r.item = op[h].item /\ r.price = op[h].price
      /\ r.isAuction = op[h].isAuction /\ r.bid = op[h].bid
      /\ r.work = op[h].work /\ r.scan = op[h].scan
  BY <1>1 DEF CallType
<1>4. op' = [op EXCEPT ![h] = r]
  BY DEF Goto
<1> HIDE DEF r
<1>5. /\ op' \in [Handler -> CallType] /\ op'[h] = r
      /\ \A g \in Handler : g # h => op'[g] = op[g]
  BY <1>2, <1>4, ReplaceCall
<1> QED
  BY <1>3, <1>5

\* A call ends.
LEMMA EndFields ==
  ASSUME op \in [Handler -> CallType], NEW h \in Handler, End(h)
  PROVE  /\ op' \in [Handler -> CallType] /\ op'[h] = Idle
         /\ \A g \in Handler : g # h => op'[g] = op[g]
BY IdleType DEF End

\* The tables only grow: no row changes its item, its seller or its kind, and no
\* bid is removed.
Grows ==
  /\ Len(auctions) <= Len(auctions')
  /\ \A a \in Auctions :
       /\ auctions'[a].item = auctions[a].item /\ auctions'[a].seller = auctions[a].seller
       /\ auctions'[a].isAuction = auctions[a].isAuction
       /\ DOMAIN auctions[a].bids \subseteq DOMAIN auctions'[a].bids

\* What a call knows and has left to do stays right while others work.
LEMMA OthersKnow ==
  ASSUME TInv, Rows', Grows, NEW g \in Handler, op'[g] = op[g]
  PROVE  Knows(g)' /\ Works(g)'
<1>1. Knows(g) /\ Works(g) /\ Auctions \subseteq Auctions'
  <2>1. Len(auctions) \in Nat /\ Len(auctions') \in Nat
    BY DEF TInv, Rows
  <2> QED
    BY <2>1 DEF TInv, Grows, Auctions
<1>2. op[g].pc \in OnRow => op[g].auction \in Auctions
  BY <1>1 DEF Knows
<1>3. op[g].pc \in Bidding => auctions'[op[g].auction].isAuction
  BY <1>1, <1>2 DEF Knows, Grows, OnRow
<1>4. op[g].pc \in {"bidPay", "bidRefund", "bidRead", "bidWrite"}
        => op[g].bid \in {NoBid} \cup DOMAIN auctions'[op[g].auction].bids
  BY <1>1, <1>2 DEF Knows, Grows, OnRow, Bidding
<1>5. Knows(g)'
  BY <1>1, <1>2, <1>3, <1>4 DEF Knows
<1>6. Works(g)'
  BY <1>1 DEF Works
<1> QED
  BY <1>5, <1>6

\* A step of one call keeps the types if it leaves the tables as they were.
LEMMA TypesOfCall ==
  ASSUME TInv, NEW h \in Handler,
         op' \in [Handler -> CallType],
         \A g \in Handler : g # h => op'[g] = op[g],
         Rows', Grows, Knows(h)', Works(h)',
         owner' \in [Item -> Character \cup {Market}],
         Accounts',
         calls' \in 0 .. MaxCalls
  PROVE  TInv'
<1>1. \A g \in Handler : Knows(g)' /\ Works(g)'
  BY OthersKnow
<1> QED
  BY <1>1 DEF TInv

\* Nor is there anything to show of a call that has ended.
LEMMA EndTypes ==
  ASSUME TInv, NEW h \in Handler, End(h), Rows', Grows,
         owner' \in [Item -> Character \cup {Market}],
         Accounts',
         calls' \in 0 .. MaxCalls
  PROVE  TInv'
<1>1. /\ op' \in [Handler -> CallType] /\ op'[h] = Idle
      /\ \A g \in Handler : g # h => op'[g] = op[g]
  BY EndFields DEF TInv
<1>2. Knows(h)' /\ Works(h)'
  BY <1>1, IdleType DEF Knows, Works, Listing, OnRow, ForSomeone, Cancelling, Selling,
                        Bidding, Retrieving, Committed
<1> QED
  BY <1>1, <1>2, TypesOfCall

\* The tables as they were.
LEMMA TablesTypes ==
  ASSUME TInv, Tables
  PROVE  Rows' /\ Grows /\ calls' \in 0 .. MaxCalls
<1>1. Len(auctions) \in Nat
  BY DEF TInv, Rows
<1> QED
  BY <1>1 DEF TInv, Tables, Rows, Grows, Auctions

\* Money as it was.
LEMMA MoneyTypes ==
  ASSUME TInv, Money, Rows', Grows
  PROVE  Accounts'
<1>1. Accounts /\ Len(auctions) \in Nat /\ Len(auctions') \in Nat
  BY DEF TInv, Rows
<1>2. Auctions \subseteq Auctions'
  BY <1>1 DEF Grows, Auctions
<1> QED
  BY <1>1, <1>2 DEF Accounts, Money

\* A listing has an account.
LEMMA AccountType ==
  ASSUME TInv, NEW a \in Auctions
  PROVE  /\ a \in 1 .. MaxAuctions /\ Accounts
         /\ ledger[a] \in Int /\ refused[a] \in Nat
<1>1. a \in 1 .. Len(auctions) /\ Len(auctions) \in Nat /\ Len(auctions) <= MaxAuctions
  BY DEF TInv, Rows, Auctions
<1>2. a \in 1 .. MaxAuctions
  BY <1>1, Numbers
<1> QED
  BY <1>2 DEF TInv, Accounts

\* An amount is paid out, or taken from one who has it.
LEMMA CreditsTypes ==
  ASSUME TInv, NEW c \in Character, NEW x \in Int, NEW a \in Auctions, auctions' = auctions,
         credits[c] + x >= 0, AddCredits(c, x, a)
  PROVE  Accounts'
<1>1. /\ credits \in [Character -> Nat] /\ ledger \in [1 .. MaxAuctions -> Int]
      /\ ledger[a] \in Int /\ a \in 1 .. MaxAuctions
  BY AccountType DEF Accounts
<1>2. /\ credits' = [credits EXCEPT ![c] = credits[c] + x]
      /\ ledger' = [ledger EXCEPT ![a] = ledger[a] - x]
      /\ refused' = refused
  BY DEF AddCredits
<1>3. credits[c] + x \in Nat /\ ledger[a] - x \in Int
  BY <1>1
<1>4. credits' \in [Character -> Nat] /\ ledger' \in [1 .. MaxAuctions -> Int]
  BY <1>1, <1>2, <1>3
<1>5. \A b \in (1 .. MaxAuctions) \ Auctions' : ledger'[b] = 0 /\ refused'[b] = 0
  BY <1>1, <1>2 DEF TInv, Accounts, Auctions
<1> QED
  BY <1>2, <1>4, <1>5 DEF TInv, Accounts

\* An amount is paid out, or is not.
LEMMA PayOutTypes ==
  ASSUME TInv, NEW c \in Character, NEW x \in Nat, NEW a \in Auctions, auctions' = auctions,
         PayOut(c, x, a)
  PROVE  Accounts'
<1>1. /\ credits[c] \in Nat /\ refused[a] \in Nat /\ a \in 1 .. MaxAuctions /\ Accounts
  BY AccountType DEF TInv, Accounts
<1>2. CASE AddCredits(c, x, a)
  <2>1. credits[c] + x >= 0 /\ x \in Int
    BY <1>1
  <2> QED
    BY <1>2, <2>1, CreditsTypes
<1>3. CASE refused' = [refused EXCEPT ![a] = @ + x] /\ UNCHANGED <<credits, ledger>>
  <2>1. refused[a] + x \in Nat /\ refused \in [1 .. MaxAuctions -> Nat]
    BY <1>1 DEF Accounts
  <2>2. refused' = [refused EXCEPT ![a] = refused[a] + x]
    BY <1>3
  <2>3. refused' \in [1 .. MaxAuctions -> Nat]
    BY <2>1, <2>2
  <2>4. \A b \in (1 .. MaxAuctions) \ Auctions' : ledger'[b] = 0 /\ refused'[b] = 0
    BY <1>1, <1>3, <2>1, <2>2 DEF Accounts, Auctions
  <2> QED
    BY <1>1, <1>3, <2>3, <2>4 DEF Accounts
<1> QED
  BY <1>2, <1>3 DEF PayOut

\* Begin: an idle call is replaced by a new one.
LEMMA BeginTypes ==
  ASSUME TInv, NEW h \in Handler, NEW o \in CallType, Begin(h, o),
         o.auction \in {0} \cup Auctions, o.work = {}, o.scan = FALSE,
         o.pc \notin Bidding, o.pc \notin Scanning,
         o.pc \in Listing => o.item \in Item /\ o.auction = 0,
         o.pc \in OnRow => o.auction \in Auctions,
         o.pc \in ForSomeone => o.who \in Character,
         o.pc \in Listing \cup {"placeBid", "pay"} => o.price \in Price
  PROVE  TInv'
<1>1. op' = [op EXCEPT ![h] = o]
      /\ Money /\ UNCHANGED <<auctions, owner>> /\ calls' \in 0 .. MaxCalls
  BY Numbers DEF Begin, TInv, Money
<1>2. /\ op' \in [Handler -> CallType] /\ op'[h] = o
      /\ \A g \in Handler : g # h => op'[g] = op[g]
  BY <1>1, ReplaceCall DEF TInv
<1>3. Len(auctions) \in Nat /\ Rows' /\ Grows
  <2>1. auctions' = auctions /\ Len(auctions) \in Nat
    BY <1>1 DEF TInv, Rows
  <2> QED
    BY <2>1 DEF TInv, Rows, Grows, Auctions
<1>4. Knows(h)' /\ Works(h)'
  BY <1>1, <1>2 DEF Knows, Works, Auctions, Scanning, Selling, Bidding
<1> QED
  BY <1>1, <1>2, <1>3, <1>4, MoneyTypes, TypesOfCall DEF TInv

LEMMA CallTypes ==
  ASSUME TInv, NEW h \in Handler, Call(h)
  PROVE  TInv'
<1> USE IdleType DEF PCs, Listing, OnRow, ForSomeone, Bidding, Scanning, Cancelling, Selling,
                     Retrieving, NoBid
<1>0. Auctions \subseteq Nat
  BY DEF TInv, Rows, Auctions
<1>1. CASE \E c \in Character, i \in Item, p \in Price, isAuction \in BOOLEAN :
             CreateListing(h, c, i, p, isAuction)
  <2>1. PICK c \in Character, i \in Item, p \in Price, isAuction \in BOOLEAN :
          CreateListing(h, c, i, p, isAuction)
    BY <1>1
  <2> DEFINE o == [Idle EXCEPT !.pc = "getItem", !.who = c, !.item = i, !.price = p,
                               !.isAuction = isAuction]
  <2>2. /\ o \in CallType /\ o.auction = 0 /\ o.work = {} /\ o.scan = FALSE
        /\ o.pc = "getItem" /\ o.item = i /\ o.who = c /\ o.price = p
    BY DEF CallType
  <2>3. Begin(h, o)
    BY <2>1 DEF CreateListing
  <2> HIDE DEF o
  <2> QED
    BY <2>2, <2>3, BeginTypes
<1>2. CASE \E c \in Character, a \in Auctions, pc \in {"cancelListing", "instantBuy"} :
             OnAuction(h, pc, c, a)
  <2>1. PICK c \in Character, a \in Auctions, pc \in {"cancelListing", "instantBuy"} :
          OnAuction(h, pc, c, a)
    BY <1>2
  <2> DEFINE o == [Idle EXCEPT !.pc = pc, !.who = c, !.auction = a]
  <2>2. /\ o \in CallType /\ o.auction = a /\ o.work = {} /\ o.scan = FALSE
        /\ o.pc = pc /\ o.who = c
    BY <1>0 DEF CallType
  <2>3. Begin(h, o)
    BY <2>1 DEF OnAuction
  <2> HIDE DEF o
  <2> QED
    BY <2>2, <2>3, BeginTypes
<1>3. CASE \E c \in Character, a \in Auctions, p \in Price :
             Begin(h, [Idle EXCEPT !.pc = "placeBid", !.who = c, !.auction = a, !.price = p])
  <2>1. PICK c \in Character, a \in Auctions, p \in Price :
          Begin(h, [Idle EXCEPT !.pc = "placeBid", !.who = c, !.auction = a, !.price = p])
    BY <1>3
  <2> DEFINE o == [Idle EXCEPT !.pc = "placeBid", !.who = c, !.auction = a, !.price = p]
  <2>2. /\ o \in CallType /\ o.auction = a /\ o.work = {} /\ o.scan = FALSE
        /\ o.pc = "placeBid" /\ o.who = c /\ o.price = p
    BY <1>0 DEF CallType
  <2>3. Begin(h, o)
    BY <2>1
  <2> HIDE DEF o
  <2> QED
    BY <2>2, <2>3, BeginTypes
<1>4. CASE \E c \in Character : Begin(h, [Idle EXCEPT !.pc = "retrieve", !.who = c])
  <2>1. PICK c \in Character : Begin(h, [Idle EXCEPT !.pc = "retrieve", !.who = c])
    BY <1>4
  <2> DEFINE o == [Idle EXCEPT !.pc = "retrieve", !.who = c]
  <2>2. /\ o \in CallType /\ o.auction = 0 /\ o.work = {} /\ o.scan = FALSE
        /\ o.pc = "retrieve" /\ o.who = c
    BY DEF CallType
  <2>3. Begin(h, o)
    BY <2>1
  <2> HIDE DEF o
  <2> QED
    BY <2>2, <2>3, BeginTypes
<1>5. CASE Begin(h, [Idle EXCEPT !.pc = "processExpired"])
  <2> DEFINE o == [Idle EXCEPT !.pc = "processExpired"]
  <2>1. /\ o \in CallType /\ o.auction = 0 /\ o.work = {} /\ o.scan = FALSE
        /\ o.pc = "processExpired"
    BY DEF CallType
  <2>2. Begin(h, o)
    BY <1>5
  <2> HIDE DEF o
  <2> QED
    BY <2>1, <2>2, BeginTypes
<1> QED
  BY <1>1, <1>2, <1>3, <1>4, <1>5 DEF Call

\* A row is replaced by one of the same item, seller and kind, with the bids it
\* had and perhaps more.
LEMMA RowStep ==
  ASSUME Rows, NEW a \in Auctions, NEW r \in Auction,
         auctions' = [auctions EXCEPT ![a] = r],
         r.item = auctions[a].item, r.seller = auctions[a].seller,
         r.isAuction = auctions[a].isAuction,
         r.instantSalePrice = auctions[a].instantSalePrice,
         DOMAIN auctions[a].bids \subseteq DOMAIN r.bids,
         ~r.isAuction => r.bids = <<>>
  PROVE  /\ Rows' /\ Grows /\ Auctions' = Auctions
         /\ auctions'[a] = r
         /\ \A b \in Auctions : b # a => auctions'[b] = auctions[b]
<1>1. /\ auctions \in Seq(Auction) /\ a \in 1 .. Len(auctions) /\ Len(auctions) \in Nat
      /\ DOMAIN auctions = 1 .. Len(auctions)
  BY DEF Rows, Auctions
<1>2. auctions' \in Seq(Auction) /\ Len(auctions') = Len(auctions)
  BY <1>1, ExceptSeq
<1>3. /\ Auctions' = Auctions /\ auctions'[a] = r
      /\ \A b \in Auctions : b # a => auctions'[b] = auctions[b]
  BY <1>1, <1>2 DEF Auctions
<1>4. \A b \in Auctions : IF auctions'[b].isAuction THEN auctions'[b].instantSalePrice \in Price
                          ELSE auctions'[b].bids = <<>>
  BY <1>3 DEF Rows
<1>5. Grows
  BY <1>1, <1>2, <1>3 DEF Grows
<1> QED
  BY <1>2, <1>3, <1>4, <1>5 DEF Rows

\* The status of a row changes.
LEMMA StatusStep ==
  ASSUME Rows, NEW a \in Auctions, NEW status \in Status, SetStatus(a, status)
  PROVE  /\ Rows' /\ Grows /\ Auctions' = Auctions
         /\ auctions'[a] = [auctions[a] EXCEPT !.status = status]
         /\ auctions'[a].status = status
         /\ auctions'[a].item = auctions[a].item /\ auctions'[a].sales = auctions[a].sales
         /\ auctions'[a].bids = auctions[a].bids /\ auctions'[a].price = auctions[a].price
         /\ \A b \in Auctions : b # a => auctions'[b] = auctions[b]
<1> DEFINE r == [auctions[a] EXCEPT !.status = status]
<1>1. auctions[a] \in Auction
  BY RowType
<1>2. r \in Auction
  BY <1>1 DEF Auction
<1>3. /\ r.item = auctions[a].item /\ r.seller = auctions[a].seller
      /\ r.isAuction = auctions[a].isAuction /\ r.price = auctions[a].price
      /\ r.instantSalePrice = auctions[a].instantSalePrice
      /\ r.bids = auctions[a].bids /\ r.status = status /\ r.sales = auctions[a].sales
  BY <1>1 DEF Auction
<1>4. ~r.isAuction => r.bids = <<>>
  BY <1>3 DEF Rows
<1>5. auctions' = [auctions EXCEPT ![a] = r]
  BY DEF SetStatus
<1> HIDE DEF r
<1>6. /\ Rows' /\ Grows /\ Auctions' = Auctions /\ auctions'[a] = r
      /\ \A b \in Auctions : b # a => auctions'[b] = auctions[b]
  BY <1>2, <1>3, <1>4, <1>5, RowStep
<1> QED
  BY <1>3, <1>6 DEF r

\* A row is added.
LEMMA AppendStep ==
  ASSUME Rows, NEW r \in Auction, Len(auctions) < MaxAuctions, auctions' = Append(auctions, r),
         IF r.isAuction THEN r.instantSalePrice \in Price ELSE r.bids = <<>>
  PROVE  /\ Rows' /\ Grows
         /\ Auctions' = Auctions \cup {Len(auctions) + 1}
         /\ Len(auctions) \in Nat /\ Len(auctions) + 1 \notin Auctions
         /\ auctions'[Len(auctions) + 1] = r
         /\ \A b \in Auctions : auctions'[b] = auctions[b]
<1>1. auctions \in Seq(Auction) /\ Len(auctions) \in Nat
  BY DEF Rows
<1>2. /\ auctions' \in Seq(Auction) /\ Len(auctions') = Len(auctions) + 1
      /\ auctions'[Len(auctions) + 1] = r
      /\ \A b \in 1 .. Len(auctions) : auctions'[b] = auctions[b]
  BY <1>1, AppendProperties
<1>3. Auctions' = Auctions \cup {Len(auctions) + 1} /\ Len(auctions) + 1 \notin Auctions
  BY <1>1, <1>2 DEF Auctions
<1>4. \A b \in Auctions' : IF auctions'[b].isAuction THEN auctions'[b].instantSalePrice \in Price
                          ELSE auctions'[b].bids = <<>>
  BY <1>2, <1>3 DEF Rows, Auctions
<1>5. Grows
  BY <1>1, <1>2 DEF Grows, Auctions
<1> QED
  BY <1>1, <1>2, <1>3, <1>4, <1>5, Numbers DEF Rows, Auctions

\* The row of a new listing.
LEMMA NewType ==
  ASSUME TInv, NEW h \in Handler, At(h, "insert")
  PROVE  /\ NewAuction(h) \in Auction
         /\ NewAuction(h).item = op[h].item /\ op[h].item \in Item
         /\ NewAuction(h).status = "active" /\ NewAuction(h).bids = <<>>
         /\ NewAuction(h).sales = <<>>
         /\ IF NewAuction(h).isAuction THEN NewAuction(h).instantSalePrice \in Price
            ELSE NewAuction(h).bids = <<>>
<1>1. op[h] \in CallType /\ op[h].isAuction \in BOOLEAN
  BY DEF TInv, CallType
<1>2. op[h].who \in Character /\ op[h].item \in Item /\ op[h].price \in Price
  BY DEF TInv, Knows, At, Listing, ForSomeone
<1> QED
  BY <1>1, <1>2 DEF NewAuction, Auction, Status

\* A call knows what it takes to go on at pc.
Ready(h, pc) ==
  /\ pc \in Listing => op[h].item \in Item /\ op[h].auction = 0
  /\ pc \in OnRow => op[h].auction \in Auctions
  /\ pc \in ForSomeone => op[h].who \in Character
  /\ pc \in Listing \cup Bidding \cup Selling \cup {"placeBid"} => op[h].price \in Price
  /\ pc \in Bidding => auctions[op[h].auction].isAuction
  /\ pc \in {"bidPay", "bidRefund", "bidRead", "bidWrite"}
       => op[h].bid \in {NoBid} \cup DOMAIN auctions[op[h].auction].bids
  /\ pc = "bidRefund" => op[h].bid # NoBid
  /\ op[h].scan => pc \in Scanning \cup {"expireRest"}
  /\ op[h].work # {} => pc \in IF op[h].scan THEN Scanning ELSE {"retrieveCancelled", "handBack"}
  /\ op[h].scan /\ pc \in Committed => op[h].auction \notin op[h].work

LEMMA GotoTypes ==
  ASSUME TInv, NEW h \in Handler, NEW pc \in PCs, Goto(h, pc), Ready(h, pc), Rows', Grows,
         owner' \in [Item -> Character \cup {Market}],
         Accounts',
         calls' \in 0 .. MaxCalls
  PROVE  TInv'
<1>1. /\ op' \in [Handler -> CallType]
      /\ \A g \in Handler : g # h => op'[g] = op[g]
      /\ op'[h].pc = pc /\ op'[h].who = op[h].who /\ op'[h].auction = op[h].auction
      /\ op'[h].item = op[h].item /\ op'[h].price = op[h].price
      /\ op'[h].isAuction = op[h].isAuction /\ op'[h].bid = op[h].bid
      /\ op'[h].work = op[h].work /\ op'[h].scan = op[h].scan
  BY GotoFields DEF TInv
<1>2. Auctions \subseteq Auctions' /\ Knows(h)
  <2>1. Len(auctions) \in Nat /\ Len(auctions') \in Nat
    BY DEF TInv, Rows
  <2> QED
    BY <2>1 DEF Grows, Auctions, TInv
<1>3. pc \in Bidding => pc \in OnRow
  BY DEF OnRow
<1>4. pc \in Bidding => auctions'[op[h].auction].isAuction
  BY <1>3 DEF Ready, Grows
<1>5. pc \in {"bidPay", "bidRefund", "bidRead", "bidWrite"}
        => op[h].bid \in {NoBid} \cup DOMAIN auctions'[op[h].auction].bids
  <2>1. pc \in {"bidPay", "bidRefund", "bidRead", "bidWrite"} => pc \in OnRow
    BY DEF OnRow, Bidding
  <2> QED
    BY <2>1 DEF Ready, Grows
<1>6. Knows(h)'
  BY <1>1, <1>2, <1>4, <1>5 DEF Knows, Ready
<1>7. Works(h)'
  BY <1>1 DEF Works, Ready
<1> QED
  BY <1>1, <1>6, <1>7, TypesOfCall

\* What a call at work on a row has in its hands.
LEMMA OnRowTypes ==
  ASSUME TInv, NEW h \in Handler, op[h].pc \in OnRow
  PROVE  /\ op[h].auction \in Auctions /\ auctions[op[h].auction] \in Auction
         /\ ItemOf(h) \in Item /\ SellerOf(h) \in Character
         /\ op[h] \in CallType /\ Knows(h) /\ Works(h)
<1>1. Knows(h) /\ Works(h) /\ op[h].auction \in Auctions /\ op[h] \in CallType
  BY DEF TInv, Knows
<1> QED
  BY <1>1, RowType DEF TInv, ItemOf, SellerOf

\* The item moves to a character or to the market.
LEMMA ItemTypes ==
  ASSUME TInv, NEW c \in Character \cup {Market}, NEW i, AddItem(c, i)
  PROVE  owner' \in [Item -> Character \cup {Market}]
BY DEF TInv, AddItem

LEMMA ListingTypes ==
  ASSUME TInv, NEW h \in Handler,
         GetItem(h) \/ RemoveItem(h) \/ Insert(h) \/ InsertFails(h) \/ Restore(h)
  PROVE  TInv'
<1>1. /\ owner \in [Item -> Character \cup {Market}] /\ calls \in 0 .. MaxCalls
      /\ Knows(h) /\ Works(h)
  BY DEF TInv
<1> USE DEF At, PCs, Listing, Cancelling, Selling, Bidding, Retrieving, Scanning, OnRow,
            ForSomeone, Committed
<1>2. CASE GetItem(h)
  <2>1. Goto(h, "removeItem") => Ready(h, "removeItem")
    BY <1>1, <1>2 DEF GetItem, Ready, Knows, Works
  <2> QED
    BY <1>1, <1>2, <2>1, TablesTypes, MoneyTypes, GotoTypes, EndTypes DEF GetItem
<1>3. CASE RemoveItem(h)
  <2>1. owner' \in [Item -> Character \cup {Market}]
    BY <1>1, <1>3, ItemTypes DEF RemoveItem
  <2>2. Ready(h, "insert")
    BY <1>1, <1>3 DEF RemoveItem, Ready, Knows, Works
  <2> QED
    BY <1>3, <2>1, <2>2, TablesTypes, MoneyTypes, GotoTypes, EndTypes DEF RemoveItem
<1>4. CASE Insert(h)
  <2>1. Rows' /\ Grows
    BY <1>4, NewType, AppendStep DEF Insert, TInv
  <2> QED
    BY <1>1, <1>4, <2>1, MoneyTypes, EndTypes DEF Insert
<1>5. CASE InsertFails(h)
  <2>1. PICK inserted \in BOOLEAN :
          auctions' = IF inserted THEN Append(auctions, NewAuction(h)) ELSE auctions
    BY <1>5 DEF InsertFails
  <2>2. Rows' /\ Grows
    <3>1. CASE inserted
      BY <1>5, <2>1, <3>1, NewType, AppendStep DEF InsertFails, TInv
    <3>2. CASE ~inserted
      BY <1>5, <2>1, <3>2, TablesTypes DEF InsertFails, Tables
    <3> QED
      BY <3>1, <3>2
  <2>3. Ready(h, "restore")
    BY <1>1, <1>5 DEF InsertFails, Ready, Knows, Works
  <2> QED
    BY <1>1, <1>5, <2>2, <2>3, MoneyTypes, GotoTypes DEF InsertFails
<1>6. CASE Restore(h)
  <2>1. op[h].who \in Character
    BY <1>1, <1>6 DEF Restore, Knows
  <2> QED
    BY <1>6, <2>1, TablesTypes, MoneyTypes, ItemTypes, EndTypes DEF Restore
<1> QED
  BY <1>2, <1>3, <1>4, <1>5, <1>6

LEMMA CancellingTypes ==
  ASSUME TInv, NEW h \in Handler,
         CancelListing(h) \/ CancelBids(h) \/ Cancel(h) \/ Return(h)
  PROVE  TInv'
<1> USE DEF At, PCs, Listing, Cancelling, Selling, Bidding, Retrieving, Scanning, OnRow,
            ForSomeone, Committed
<1>1. /\ owner \in [Item -> Character \cup {Market}] /\ calls \in 0 .. MaxCalls
      /\ Knows(h) /\ Works(h) /\ op[h].auction \in Auctions
  BY DEF TInv, CancelListing, CancelBids, Cancel, Return, Knows
<1>2. CASE CancelListing(h)
  <2>1. Ready(h, "cancelBids") /\ Ready(h, "cancel")
    BY <1>1, <1>2 DEF CancelListing, Ready, Knows, Works
  <2> QED
    BY <1>1, <1>2, <2>1, TablesTypes, MoneyTypes, GotoTypes, EndTypes DEF CancelListing
<1>3. CASE CancelBids(h)
  <2>1. Ready(h, "cancel")
    BY <1>1, <1>3 DEF CancelBids, Ready, Knows, Works
  <2> QED
    BY <1>1, <1>3, <2>1, TablesTypes, MoneyTypes, GotoTypes, EndTypes DEF CancelBids
<1>4. CASE Cancel(h) /\ Active(h)
  <2>1. Ready(h, "return")
    BY <1>1, <1>4 DEF Cancel, Ready, Knows, Works
  <2>2. Rows' /\ Grows
    BY <1>1, <1>4, StatusStep DEF Cancel, Status, TInv
  <2> QED
    BY <1>1, <1>4, <2>1, <2>2, MoneyTypes, GotoTypes DEF Cancel
<1>5. CASE Cancel(h) /\ ~Active(h)
  <2>1. Rows' /\ Grows
    BY <1>5, TablesTypes DEF Cancel, Tables
  <2> QED
    BY <1>1, <1>5, <2>1, MoneyTypes, EndTypes DEF Cancel
<1>6. CASE Return(h)
  <2>1. op[h].who \in Character
    BY <1>1, <1>6 DEF Return, Knows
  <2> QED
    BY <1>6, <2>1, TablesTypes, MoneyTypes, ItemTypes, EndTypes DEF Return
<1> QED
  BY <1>2, <1>3, <1>4, <1>5, <1>6

\* A step that changes the fields of a call other than by Goto or End.
LEMMA FieldsTypes ==
  ASSUME TInv, NEW h \in Handler, NEW r \in CallType, op' = [op EXCEPT ![h] = r],
         Tables, Money, UNCHANGED owner,
         r.auction \in {0} \cup Auctions, r.work \subseteq Auctions,
         r.pc \notin Listing,
         r.pc \in OnRow => r.auction \in Auctions,
         r.pc \in ForSomeone => r.who \in Character,
         r.pc \in Bidding \cup Selling \cup {"placeBid"} => r.price \in Price,
         r.pc \in Bidding => auctions[r.auction].isAuction,
         r.pc \in {"bidPay", "bidRefund", "bidRead", "bidWrite"}
           => r.bid \in {NoBid} \cup DOMAIN auctions[r.auction].bids,
         r.pc # "bidRefund",
         r.scan => r.pc \in Scanning,
         r.work # {} => r.pc \in IF r.scan THEN Scanning ELSE {"retrieveCancelled", "handBack"},
         r.scan /\ r.pc \in Committed => r.auction \notin r.work
  PROVE  TInv'
<1>1. /\ op' \in [Handler -> CallType] /\ op'[h] = r
      /\ \A g \in Handler : g # h => op'[g] = op[g]
  BY ReplaceCall DEF TInv
<1>2. Auctions' = Auctions /\ auctions' = auctions
  BY DEF Tables, Auctions
<1>3. Knows(h)'
  BY <1>1, <1>2 DEF Knows
<1>4. Works(h)'
  BY <1>1 DEF Works
<1> QED
  BY <1>1, <1>3, <1>4, TypesOfCall, TablesTypes, MoneyTypes DEF TInv

\* What SaleWrite writes.
LEMMA SaleRow ==
  ASSUME TInv, NEW h \in Handler, SaleWrite(h)
  PROVE  /\ Rows' /\ Grows /\ Auctions' = Auctions /\ op[h].auction \in Auctions
         /\ auctions'[op[h].auction].status = "sold"
         /\ auctions'[op[h].auction].sales = Append(auctions[op[h].auction].sales, SaleRecord(h))
         /\ auctions'[op[h].auction].bids = auctions[op[h].auction].bids
         /\ auctions'[op[h].auction].item = auctions[op[h].auction].item
         /\ auctions[op[h].auction].sales \in Seq(Sale) /\ SaleRecord(h) \in Sale
         /\ SaleRecord(h).buyer = op[h].who /\ SaleRecord(h).price = op[h].price
         /\ \A b \in Auctions : b # op[h].auction => auctions'[b] = auctions[b]
<1> DEFINE a == op[h].auction
           l == auctions[a]
           r == [l EXCEPT !.status = "sold", !.sales = Append(@, SaleRecord(h))]
<1>1. op[h].pc = "saleWrite" /\ Knows(h) /\ Rows
  BY DEF SaleWrite, At, TInv
<1>2. /\ a \in Auctions /\ SaleRecord(h) \in Sale
      /\ SaleRecord(h).buyer = op[h].who /\ SaleRecord(h).price = op[h].price
  BY <1>1 DEF Knows, OnRow, ForSomeone, Selling, SaleRecord, Sale
<1>3. l \in Auction /\ l.sales \in Seq(Sale)
  BY <1>1, <1>2, RowType
<1>4. auctions' = [auctions EXCEPT ![a] = r]
  BY DEF SaleWrite
<1>5. Append(l.sales, SaleRecord(h)) \in Seq(Sale)
  BY <1>2, <1>3, AppendProperties
<1>6. r \in Auction
  BY <1>3, <1>5 DEF Auction, Status, Sale
<1>7. /\ r.item = l.item /\ r.seller = l.seller /\ r.isAuction = l.isAuction
      /\ r.instantSalePrice = l.instantSalePrice /\ r.bids = l.bids
      /\ r.status = "sold" /\ r.sales = Append(l.sales, SaleRecord(h))
  BY <1>3 DEF Auction
<1>8. ~r.isAuction => r.bids = <<>>
  BY <1>1, <1>2, <1>7 DEF Rows
<1> HIDE DEF r
<1>9. /\ Rows' /\ Grows /\ Auctions' = Auctions /\ auctions'[a] = r
      /\ \A b \in Auctions : b # a => auctions'[b] = auctions[b]
  BY <1>1, <1>2, <1>4, <1>6, <1>7, <1>8, RowStep
<1> QED
  BY <1>2, <1>3, <1>7, <1>9

LEMMA SellingTypes ==
  ASSUME TInv, NEW h \in Handler,
         InstantBuy(h) \/ Pay(h) \/ PaySeller(h) \/ Deliver(h) \/ SaleRead(h) \/ SaleWrite(h)
  PROVE  TInv'
<1> USE DEF At, PCs, Listing, Cancelling, Selling, Bidding, Retrieving, Scanning, OnRow,
            ForSomeone, Committed
<1> DEFINE a == op[h].auction
<1>1. /\ op[h].pc \in {"instantBuy"} \cup Selling /\ op[h].pc \in OnRow
      /\ op[h].pc \in ForSomeone
  BY DEF InstantBuy, Pay, PaySeller, Deliver, SaleRead, SaleWrite
<1>2. /\ owner \in [Item -> Character \cup {Market}] /\ calls \in 0 .. MaxCalls
      /\ Knows(h) /\ Works(h) /\ a \in Auctions /\ op[h].who \in Character
      /\ ItemOf(h) \in Item /\ SellerOf(h) \in Character /\ op[h] \in CallType
      /\ credits \in [Character -> Nat] /\ Rows
  <2>1. Knows(h)
    BY DEF TInv
  <2> QED
    BY <1>1, <2>1, OnRowTypes DEF TInv, Knows, Accounts
<1>3. CASE InstantBuy(h) /\ Active(h) /\ auctions[a].seller # op[h].who
  <2> DEFINE p == IF auctions[a].isAuction THEN auctions[a].instantSalePrice ELSE auctions[a].price
             r == [op[h] EXCEPT !.pc = "pay", !.price = p]
  <2>1. p \in Price
    BY <1>2, RowType DEF Rows
  <2>2. op' = [op EXCEPT ![h] = r]
    BY <1>3 DEF InstantBuy
  <2> HIDE DEF p
  <2>3. /\ r \in CallType /\ r.pc = "pay" /\ r.price = p /\ r.who = op[h].who
        /\ r.auction = a /\ r.work = op[h].work /\ r.scan = op[h].scan
    BY <1>2, <2>1 DEF CallType
  <2>4. op[h].scan = FALSE /\ op[h].work = {}
    BY <1>2, <1>3 DEF InstantBuy, Works, CallType
  <2> HIDE DEF r
  <2> QED
    BY <1>2, <1>3, <2>1, <2>2, <2>3, <2>4, FieldsTypes DEF InstantBuy
<1>4. CASE InstantBuy(h) /\ ~(Active(h) /\ auctions[a].seller # op[h].who)
  BY <1>2, <1>4, TablesTypes, MoneyTypes, EndTypes DEF InstantBuy
<1>5. CASE Pay(h)
  <2>1. Ready(h, "paySeller")
    BY <1>2, <1>5 DEF Pay, Ready, Knows, Works
  <2>2. op[h].price \in Price /\ op[h].price \in Nat /\ credits[op[h].who] \in Nat
    BY <1>2, <1>5, Numbers DEF Pay, Knows
  <2>3. credits[op[h].who] + -op[h].price >= 0 /\ -op[h].price \in Int
    BY <1>5, <2>2 DEF Pay
  <2>4. Accounts'
    BY <1>2, <1>5, <2>3, CreditsTypes DEF Pay, Tables
  <2> QED
    BY <1>2, <1>5, <2>1, <2>4, TablesTypes, GotoTypes DEF Pay
<1>6. CASE PaySeller(h)
  <2>1. Ready(h, "deliver")
    BY <1>2, <1>6 DEF PaySeller, Ready, Knows, Works
  <2>2. PICK rate \in Rate :
          PayOut(SellerOf(h), op[h].price - Commission(op[h].price, rate), a)
    BY <1>6 DEF PaySeller
  <2> DEFINE x == op[h].price - Commission(op[h].price, rate)
  <2>3. op[h].price \in Price /\ x \in Nat
    <3>1. op[h].price \in Price
      BY <1>2, <1>6 DEF PaySeller, Knows
    <3> QED
      BY <3>1, CommissionBounds
  <2> HIDE DEF x
  <2>4. Accounts'
    <3>1. PayOut(SellerOf(h), x, a) /\ auctions' = auctions
      BY <1>6, <2>2 DEF x, PaySeller, Tables
    <3> QED
      BY <1>2, <2>3, <3>1, PayOutTypes
  <2> QED
    BY <1>2, <1>6, <2>1, <2>4, TablesTypes, GotoTypes DEF PaySeller
<1>7. CASE Deliver(h)
  <2>1. Ready(h, "saleRead")
    BY <1>2, <1>7 DEF Deliver, Ready, Knows, Works
  <2> QED
    BY <1>2, <1>7, <2>1, TablesTypes, MoneyTypes, ItemTypes, GotoTypes DEF Deliver
<1>8. CASE SaleRead(h) \/ SaleWrite(h)
  <2>1. Ready(h, "saleWrite") /\ (op[h].scan => Ready(h, "nextDue"))
    BY <1>2, <1>8 DEF SaleRead, SaleWrite, Ready, Knows, Works
  <2>2. Rows' /\ Grows
    <3>1. CASE SaleRead(h)
      BY <3>1, TablesTypes DEF SaleRead
    <3>2. CASE SaleWrite(h)
      BY <3>2, SaleRow
    <3> QED
      BY <1>8, <3>1, <3>2
  <2>3. /\ Accounts'
        /\ owner' = owner /\ calls' = calls
    BY <1>8, <2>2, MoneyTypes DEF SaleRead, SaleWrite, Tables
  <2>4. \/ End(h) \/ Goto(h, "saleWrite")
        \/ op[h].scan /\ Goto(h, "nextDue")
    BY <1>8 DEF SaleRead, SaleWrite, AfterSale
  <2> QED
    BY <1>2, <2>1, <2>2, <2>3, <2>4, GotoTypes, EndTypes
<1> QED
  BY <1>3, <1>4, <1>5, <1>6, <1>7, <1>8

BidRow == [bidder : Character, amount : Price, winning : BOOLEAN]

\* The bids of a row, with n no longer winning; and with one more.
Beaten(bids, n) ==
  [m \in DOMAIN bids |-> IF m = n THEN [bids[m] EXCEPT !.winning = FALSE] ELSE bids[m]]

Rebid(bids, n, c, p) ==
  Append(Beaten(bids, n), [bidder |-> c, amount |-> p, winning |-> TRUE])

LEMMA BeatenSeq ==
  ASSUME NEW bids \in Seq(BidRow), NEW n \in Nat
  PROVE  /\ Beaten(bids, n) \in Seq(BidRow) /\ Len(Beaten(bids, n)) = Len(bids)
         /\ Len(bids) \in Nat /\ DOMAIN bids = 1 .. Len(bids)
<1>1. DOMAIN bids = 1 .. Len(bids) /\ Len(bids) \in Nat
  OBVIOUS
<1>2. \A m \in DOMAIN bids : bids[m] \in BidRow
  BY Element
<1>3. \A m \in DOMAIN bids : [bids[m] EXCEPT !.winning = FALSE] \in BidRow
  BY <1>2 DEF BidRow
<1>4. Beaten(bids, n) \in [1 .. Len(bids) -> BidRow]
  BY <1>1, <1>2, <1>3 DEF Beaten
<1> QED
  BY <1>1, <1>4

LEMMA RebidSeq ==
  ASSUME NEW bids \in Seq(BidRow), NEW n \in Nat, NEW c \in Character, NEW p \in Price
  PROVE  /\ Rebid(bids, n, c, p) \in Seq(BidRow)
         /\ DOMAIN Rebid(bids, n, c, p) = DOMAIN bids \cup {Len(bids) + 1}
<1> DEFINE new == [bidder |-> c, amount |-> p, winning |-> TRUE]
           s == Beaten(bids, n)
<1>1. new \in BidRow
  BY DEF BidRow
<1>2. /\ s \in Seq(BidRow) /\ Len(s) = Len(bids)
      /\ Len(bids) \in Nat /\ DOMAIN bids = 1 .. Len(bids)
  BY BeatenSeq
<1> HIDE DEF new, s
<1>3. Append(s, new) \in Seq(BidRow) /\ Len(Append(s, new)) = Len(bids) + 1
  BY <1>1, <1>2, AppendProperties
<1>4. DOMAIN Append(s, new) = 1 .. (Len(bids) + 1)
  BY <1>3
<1>5. DOMAIN Append(s, new) = DOMAIN bids \cup {Len(bids) + 1}
  BY <1>2, <1>4
<1> QED
  BY <1>3, <1>5 DEF Rebid, s, new

\* The new bid is the last; the others are as they were but that n wins no longer.
LEMMA RebidNew ==
  ASSUME NEW bids \in Seq(BidRow), NEW n \in Nat, NEW c \in Character, NEW p \in Price
  PROVE  Rebid(bids, n, c, p)[Len(bids) + 1] = [bidder |-> c, amount |-> p, winning |-> TRUE]
<1> DEFINE new == [bidder |-> c, amount |-> p, winning |-> TRUE]
           s == Beaten(bids, n)
<1>1. new \in BidRow
  BY DEF BidRow
<1>2. s \in Seq(BidRow) /\ Len(s) = Len(bids)
  BY BeatenSeq
<1> HIDE DEF new, s
<1>3. Append(s, new)[Len(bids) + 1] = new
  BY <1>1, <1>2, AppendProperties
<1> QED
  BY <1>3 DEF Rebid, s, new

LEMMA RebidOld ==
  ASSUME NEW bids \in Seq(BidRow), NEW n \in Nat, NEW c \in Character, NEW p \in Price,
         NEW m \in DOMAIN bids
  PROVE  Rebid(bids, n, c, p)[m] = Beaten(bids, n)[m]
<1> DEFINE new == [bidder |-> c, amount |-> p, winning |-> TRUE]
           s == Beaten(bids, n)
<1>1. new \in BidRow
  BY DEF BidRow
<1>2. /\ s \in Seq(BidRow) /\ Len(s) = Len(bids)
      /\ Len(bids) \in Nat /\ DOMAIN bids = 1 .. Len(bids)
  BY BeatenSeq
<1> HIDE DEF new, s
<1>3. \A k \in 1 .. Len(bids) : Append(s, new)[k] = s[k]
  BY <1>1, <1>2, AppendProperties
<1> QED
  BY <1>2, <1>3 DEF Rebid, s, new

\* What BidWrite writes.
LEMMA BidWriteRow ==
  ASSUME TInv, NEW h \in Handler, BidWrite(h)
  PROVE  LET a == op[h].auction
             bids == auctions[a].bids IN
         /\ Rows' /\ Grows /\ Auctions' = Auctions /\ a \in Auctions
         /\ auctions'[a].bids = Rebid(bids, op[h].bid, op[h].who, op[h].price)
         /\ auctions'[a].status = auctions[a].status /\ auctions'[a].item = auctions[a].item
         /\ auctions'[a].sales = auctions[a].sales
         /\ bids \in Seq(BidRow)
         /\ op[h].who \in Character /\ op[h].price \in Price
         /\ \A b \in Auctions : b # a => auctions'[b] = auctions[b]
<1> DEFINE a == op[h].auction
           l == auctions[a]
           bids == Rebid(l.bids, op[h].bid, op[h].who, op[h].price)
           r == [l EXCEPT !.bids = bids, !.price = op[h].price]
<1>1. op[h].pc = "bidWrite" /\ Knows(h)
  BY DEF BidWrite, At, TInv
<1>2. /\ a \in Auctions /\ op[h].who \in Character /\ op[h].price \in Price
      /\ l.isAuction
  BY <1>1 DEF Knows, OnRow, ForSomeone, Bidding
<1>3. /\ l \in Auction
      /\ l.bids \in Seq(BidRow)
  BY <1>2, RowType DEF TInv, BidRow
<1>4. auctions' = [auctions EXCEPT ![a] = r]
  BY DEF BidWrite, Rebid, Beaten
<1> HIDE DEF l, bids
<1>5. bids \in Seq(BidRow) /\ DOMAIN l.bids \subseteq DOMAIN bids
  <2>1. op[h].bid \in Nat
    BY DEF TInv, CallType
  <2>2. bids \in Seq(BidRow) /\ DOMAIN bids = DOMAIN l.bids \cup {Len(l.bids) + 1}
    BY <1>2, <1>3, <2>1, RebidSeq DEF bids
  <2> QED
    BY <2>2
<1> USE DEF l
<1>6. r \in Auction
  BY <1>2, <1>3, <1>5 DEF Auction, BidRow
<1>7. /\ r.item = l.item /\ r.seller = l.seller /\ r.isAuction = l.isAuction
      /\ r.instantSalePrice = l.instantSalePrice /\ r.bids = bids
      /\ r.status = l.status /\ r.sales = l.sales
  BY <1>3 DEF Auction
<1> HIDE DEF r
<1>8. /\ Rows' /\ Grows /\ Auctions' = Auctions /\ auctions'[a] = r
      /\ \A b \in Auctions : b # a => auctions'[b] = auctions[b]
  BY <1>2, <1>4, <1>5, <1>6, <1>7, RowStep DEF TInv
<1> QED
  BY <1>2, <1>3, <1>7, <1>8 DEF bids

LEMMA BiddingTypes ==
  ASSUME TInv, NEW h \in Handler,
         PlaceBid(h) \/ BidWinning(h) \/ BidPay(h) \/ BidRefund(h)
           \/ BidRead(h) \/ BidWrite(h) \/ BidUndo(h)
  PROVE  TInv'
<1> USE DEF At, PCs, Listing, Cancelling, Selling, Bidding, Retrieving, Scanning, OnRow,
            ForSomeone, Committed
<1> DEFINE a == op[h].auction
<1>1. op[h].pc \in {"placeBid"} \cup Bidding /\ op[h].pc \in OnRow /\ op[h].pc \in ForSomeone
  BY DEF PlaceBid, BidWinning, BidPay, BidRefund, BidRead, BidWrite, BidUndo
<1>2. /\ owner \in [Item -> Character \cup {Market}] /\ calls \in 0 .. MaxCalls
      /\ Knows(h) /\ Works(h) /\ a \in Auctions /\ op[h].who \in Character
      /\ ItemOf(h) \in Item /\ op[h] \in CallType /\ op[h].price \in Price
      /\ credits \in [Character -> Nat] /\ Rows
  <2>1. Knows(h)
    BY DEF TInv
  <2> QED
    BY <1>1, <2>1, OnRowTypes DEF TInv, Knows, Accounts
<1>3. op[h].scan = FALSE /\ op[h].work = {} /\ op[h].price \in Nat /\ op[h].price \in Int
  <2>1. op[h].scan \in BOOLEAN
    BY <1>2 DEF CallType
  <2>2. op[h].scan = FALSE
    BY <1>1, <1>2, <2>1 DEF Works
  <2>3. op[h].work = {}
    BY <1>1, <1>2, <2>2 DEF Works
  <2>4. op[h].price \in Nat
    BY <1>2, Numbers
  <2> QED
    BY <2>2, <2>3, <2>4
<1>4. CASE PlaceBid(h)
  <2>1. Goto(h, "bidWinning") /\ auctions[a].isAuction => Ready(h, "bidWinning")
    BY <1>2, <1>3, <1>4 DEF PlaceBid, Ready, Knows
  <2> QED
    BY <1>2, <1>4, <2>1, TablesTypes, MoneyTypes, GotoTypes, EndTypes DEF PlaceBid
<1>5. CASE BidWinning(h) /\ ~End(h)
  <2>1. PICK n \in Found(a) : op' = [op EXCEPT ![h].pc = "bidPay", ![h].bid = n]
    BY <1>5 DEF BidWinning
  <2> DEFINE r == [op[h] EXCEPT !.pc = "bidPay", !.bid = n]
  <2>2. n \in {NoBid} \cup DOMAIN auctions[a].bids /\ n \in Nat
    BY <1>2, <2>1, BidType DEF Found, Winning, NoBid
  <2>3. /\ r \in CallType /\ r.pc = "bidPay" /\ r.bid = n /\ r.who = op[h].who
        /\ r.auction = a /\ r.work = op[h].work /\ r.scan = op[h].scan /\ r.price = op[h].price
    BY <1>2, <2>2 DEF CallType
  <2>4. op' = [op EXCEPT ![h] = r] /\ auctions[a].isAuction
    BY <1>2, <1>5, <2>1 DEF BidWinning, Knows
  <2> HIDE DEF r
  <2> QED
    BY <1>2, <1>3, <1>5, <2>2, <2>3, <2>4, FieldsTypes DEF BidWinning
<1>6. CASE BidWinning(h) /\ End(h)
  BY <1>2, <1>6, TablesTypes, MoneyTypes, EndTypes DEF BidWinning
<1>7. CASE BidPay(h)
  <2>1. Ready(h, IF op[h].bid = NoBid THEN "bidRead" ELSE "bidRefund")
    BY <1>2, <1>3, <1>7 DEF BidPay, Ready, Knows
  <2>2. credits[op[h].who] + -op[h].price >= 0 /\ -op[h].price \in Int
    BY <1>2, <1>3, <1>7 DEF BidPay
  <2>3. Accounts'
    BY <1>2, <1>7, <2>2, CreditsTypes DEF BidPay, Tables
  <2> QED
    BY <1>2, <1>7, <2>1, <2>3, TablesTypes, GotoTypes DEF BidPay
<1>8. CASE BidRefund(h)
  <2> DEFINE beaten == Bid(a, op[h].bid)
  <2>1. Ready(h, "bidRead") /\ op[h].bid \in DOMAIN auctions[a].bids
    BY <1>2, <1>3, <1>8 DEF BidRefund, Ready, Knows
  <2>2. beaten.bidder \in Character /\ beaten.amount \in Nat
    BY <1>2, <2>1, BidType, Numbers
  <2>3. PayOut(beaten.bidder, beaten.amount, a) /\ auctions' = auctions
    BY <1>8 DEF BidRefund, Tables
  <2> HIDE DEF beaten
  <2>4. Accounts'
    BY <1>2, <2>2, <2>3, PayOutTypes
  <2> QED
    BY <1>2, <1>8, <2>1, <2>4, TablesTypes, GotoTypes DEF BidRefund
<1>9. CASE BidRead(h)
  <2>1. PICK n \in Found(a) :
          \/ op' = [op EXCEPT ![h].pc = "bidWrite", ![h].bid = n]
          \/ Goto(h, "bidUndo")
    BY <1>9 DEF BidRead
  <2>2. CASE Goto(h, "bidUndo")
    <3>1. Ready(h, "bidUndo")
      BY <1>2, <1>3, <1>9 DEF BidRead, Ready, Knows
    <3> QED
      BY <1>2, <1>9, <2>2, <3>1, TablesTypes, MoneyTypes, GotoTypes DEF BidRead
  <2>3. CASE op' = [op EXCEPT ![h].pc = "bidWrite", ![h].bid = n]
    <3> DEFINE r == [op[h] EXCEPT !.pc = "bidWrite", !.bid = n]
    <3>1. n \in {NoBid} \cup DOMAIN auctions[a].bids /\ n \in Nat
      BY <1>2, <2>1, BidType DEF Found, Winning, NoBid
    <3>2. /\ r \in CallType /\ r.pc = "bidWrite" /\ r.bid = n /\ r.who = op[h].who
          /\ r.auction = a /\ r.work = op[h].work /\ r.scan = op[h].scan
          /\ r.price = op[h].price
      BY <1>2, <3>1 DEF CallType
    <3>3. op' = [op EXCEPT ![h] = r] /\ auctions[a].isAuction
      BY <1>2, <1>9, <2>3 DEF BidRead, Knows
    <3> HIDE DEF r
    <3> QED
      BY <1>2, <1>3, <1>9, <3>1, <3>2, <3>3, FieldsTypes DEF BidRead
  <2> QED
    BY <2>1, <2>2, <2>3
<1>10. CASE BidWrite(h)
  BY <1>2, <1>10, BidWriteRow, MoneyTypes, EndTypes DEF BidWrite
<1>11. CASE BidUndo(h)
  <2>1. Accounts'
    BY <1>2, <1>3, <1>11, PayOutTypes DEF BidUndo, Tables
  <2> QED
    BY <1>2, <1>11, <2>1, TablesTypes, EndTypes DEF BidUndo
<1> QED
  BY <1>4, <1>5, <1>6, <1>7, <1>8, <1>9, <1>10, <1>11

LEMMA RetrievingTypes ==
  ASSUME TInv, NEW h \in Handler,
         RetrieveExpired(h) \/ RetrieveCancelled(h) \/ HandBack(h) \/ HandedBack(h)
  PROVE  TInv'
<1> USE DEF At, PCs, Listing, Cancelling, Selling, Bidding, Retrieving, Scanning, OnRow,
            ForSomeone, Committed
<1>1. /\ owner \in [Item -> Character \cup {Market}] /\ calls \in 0 .. MaxCalls
      /\ Knows(h) /\ Works(h) /\ op[h] \in CallType /\ op[h].pc \in Retrieving
      /\ op[h].who \in Character /\ Rows
  BY DEF TInv, RetrieveExpired, RetrieveCancelled, HandBack, HandedBack, Knows
<1>2. op[h].scan = FALSE /\ op[h].work \subseteq Auctions /\ Auctions \subseteq Nat
  BY <1>1 DEF Works, Knows, CallType, Auctions, Rows
<1>3. ASSUME NEW pc \in {"retrieveCancelled", "handBack"}, NEW work \in SUBSET Auctions,
             op' = [op EXCEPT ![h] = [op[h] EXCEPT !.pc = pc, !.work = work]],
             Tables, Money, UNCHANGED owner
      PROVE  TInv'
  <2> DEFINE r == [op[h] EXCEPT !.pc = pc, !.work = work]
  <2>1. /\ r \in CallType /\ r.pc = pc /\ r.who = op[h].who
        /\ r.auction = op[h].auction /\ r.work = work /\ r.scan = FALSE
    BY <1>1, <1>2 DEF CallType
  <2>2. r.auction \in {0} \cup Auctions
    BY <1>1, <2>1 DEF Knows
  <2>3. op' = [op EXCEPT ![h] = r]
    BY <1>3
  <2> HIDE DEF r
  <2> QED
    BY <1>1, <1>3, <2>1, <2>2, <2>3, FieldsTypes
<1>4. CASE RetrieveExpired(h)
  <2> DEFINE work == OfSeller(op[h].who, "expired")
  <2>1. work \in SUBSET Auctions
    BY DEF OfSeller
  <2>2. op' = [op EXCEPT ![h] = [op[h] EXCEPT !.pc = "retrieveCancelled", !.work = work]]
    BY <1>4 DEF RetrieveExpired
  <2> QED
    BY <1>3, <1>4, <2>1, <2>2 DEF RetrieveExpired
<1>5. CASE RetrieveCancelled(h)
  <2> DEFINE work == op[h].work \cup OfSeller(op[h].who, "cancelled")
  <2>1. work \in SUBSET Auctions
    BY <1>2 DEF OfSeller
  <2>2. op' = [op EXCEPT ![h] = [op[h] EXCEPT !.pc = "handBack", !.work = work]]
    BY <1>5 DEF RetrieveCancelled
  <2> QED
    BY <1>3, <1>5, <2>1, <2>2 DEF RetrieveCancelled
<1>6. CASE HandBack(h)
  <2>1. PICK a \in op[h].work : AddItem(op[h].who, auctions[a].item)
                                /\ op' = [op EXCEPT ![h].work = @ \ {a}]
    BY <1>6 DEF HandBack
  <2> DEFINE r == [op[h] EXCEPT !.work = op[h].work \ {a}]
  <2>2. /\ r \in CallType /\ r.pc = op[h].pc /\ r.who = op[h].who
        /\ r.auction = op[h].auction /\ r.work = op[h].work \ {a} /\ r.scan = FALSE
    BY <1>1, <1>2 DEF CallType
  <2>3. op' = [op EXCEPT ![h] = r]
    BY <2>1
  <2> HIDE DEF r
  <2>4. /\ op' \in [Handler -> CallType] /\ op'[h] = r
        /\ \A g \in Handler : g # h => op'[g] = op[g]
    BY <2>2, <2>3, ReplaceCall DEF TInv
  <2>5. Rows' /\ Grows /\ calls' \in 0 .. MaxCalls /\ Auctions' = Auctions
    BY <1>6, TablesTypes DEF HandBack, Tables, Auctions
  <2>6. op'[h].pc = "handBack" /\ op'[h].auction \in {0} \cup Auctions
    BY <1>1, <1>6, <2>2, <2>4 DEF HandBack, Knows
  <2>7. Knows(h)'
    BY <1>1, <1>2, <2>2, <2>4, <2>5, <2>6 DEF Knows
  <2>8. Works(h)'
    BY <2>2, <2>4, <2>6 DEF Works
  <2>9. owner' \in [Item -> Character \cup {Market}]
    BY <1>1, <2>1, ItemTypes
  <2> QED
    BY <1>6, <2>4, <2>5, <2>7, <2>8, <2>9, MoneyTypes, TypesOfCall DEF HandBack
<1>7. CASE HandedBack(h)
  BY <1>1, <1>7, TablesTypes, MoneyTypes, EndTypes DEF HandedBack
<1> QED
  BY <1>4, <1>5, <1>6, <1>7

\* What expireListings leaves of the tables.
LEMMA ExpireRows ==
  ASSUME Rows,
         auctions' = [a \in Auctions |-> IF a \in Due THEN [auctions[a] EXCEPT !.status = "expired"]
                                                      ELSE auctions[a]]
  PROVE  /\ Rows' /\ Grows /\ Auctions' = Auctions
         /\ \A b \in Auctions :
              /\ b \notin Due => auctions'[b] = auctions[b]
              /\ b \in Due => auctions'[b].status = "expired"
              /\ auctions'[b].item = auctions[b].item /\ auctions'[b].sales = auctions[b].sales
              /\ auctions'[b].bids = auctions[b].bids /\ auctions'[b].price = auctions[b].price
<1> DEFINE e(b) == [auctions[b] EXCEPT !.status = "expired"]
<1>1. auctions \in Seq(Auction) /\ Auctions = 1 .. Len(auctions) /\ Len(auctions) \in Nat
  BY DEF Rows, Auctions
<1>2. ASSUME NEW b \in Auctions
      PROVE  /\ auctions[b] \in Auction /\ e(b) \in Auction /\ e(b).status = "expired"
             /\ e(b).item = auctions[b].item /\ e(b).sales = auctions[b].sales
             /\ e(b).bids = auctions[b].bids /\ e(b).price = auctions[b].price
             /\ e(b).seller = auctions[b].seller /\ e(b).isAuction = auctions[b].isAuction
             /\ e(b).instantSalePrice = auctions[b].instantSalePrice
  <2>1. auctions[b] \in Auction
    BY RowType
  <2> QED
    BY <2>1 DEF Auction, Status
<1>3. auctions' = [b \in Auctions |-> IF b \in Due THEN e(b) ELSE auctions[b]]
  OBVIOUS
<1> HIDE DEF e
<1>4. auctions' \in [1 .. Len(auctions) -> Auction]
  BY <1>1, <1>2, <1>3
<1>5. auctions' \in Seq(Auction) /\ Len(auctions') = Len(auctions)
  BY <1>1, <1>4
<1>6. Auctions' = Auctions
  BY <1>1, <1>5 DEF Auctions
<1>7. \A b \in Auctions :
        /\ b \notin Due => auctions'[b] = auctions[b]
        /\ b \in Due => auctions'[b].status = "expired"
        /\ auctions'[b].item = auctions[b].item /\ auctions'[b].sales = auctions[b].sales
        /\ auctions'[b].bids = auctions[b].bids /\ auctions'[b].price = auctions[b].price
        /\ auctions'[b].seller = auctions[b].seller
        /\ auctions'[b].isAuction = auctions[b].isAuction
        /\ auctions'[b].instantSalePrice = auctions[b].instantSalePrice
  BY <1>2, <1>3
<1>8. Rows'
  BY <1>5, <1>6, <1>7 DEF Rows
<1>9. Grows
  BY <1>1, <1>5, <1>7 DEF Grows
<1> QED
  BY <1>6, <1>7, <1>8, <1>9

LEMMA ScanningTypes ==
  ASSUME TInv, NEW h \in Handler,
         ProcessExpired(h) \/ NextDue(h) \/ DueWinning(h) \/ Expire(h) \/ ExpireRest(h)
  PROVE  TInv'
<1> USE DEF At, PCs, Listing, Cancelling, Selling, Bidding, Retrieving, Scanning, OnRow,
            ForSomeone, Committed
<1>1. /\ owner \in [Item -> Character \cup {Market}] /\ calls \in 0 .. MaxCalls
      /\ Knows(h) /\ Works(h) /\ op[h] \in CallType /\ Rows
  BY DEF TInv
<1>2. op[h].work \subseteq Auctions /\ Auctions \subseteq Nat
      /\ op[h].auction \in {0} \cup Auctions
  BY <1>1 DEF Knows, Auctions, Rows
<1>3. CASE ProcessExpired(h)
  <2>1. PICK w \in SUBSET Due :
          op' = [op EXCEPT ![h].pc = "nextDue", ![h].scan = TRUE, ![h].work = w]
    BY <1>3 DEF ProcessExpired
  <2> DEFINE r == [op[h] EXCEPT !.pc = "nextDue", !.scan = TRUE, !.work = w]
  <2>2. w \subseteq Auctions
    BY DEF Due
  <2>3. /\ r \in CallType /\ r.pc = "nextDue" /\ r.scan = TRUE /\ r.work = w
        /\ r.auction = op[h].auction
    BY <1>1, <1>2, <2>2 DEF CallType
  <2>4. op' = [op EXCEPT ![h] = r]
    BY <2>1
  <2> HIDE DEF r
  <2> QED
    BY <1>2, <1>3, <2>2, <2>3, <2>4, FieldsTypes DEF ProcessExpired
<1>4. CASE NextDue(h) /\ op[h].work = {}
  <2>1. Goto(h, "expireRest") /\ Ready(h, "expireRest")
    BY <1>4 DEF NextDue, Ready
  <2> QED
    BY <1>1, <1>4, <2>1, TablesTypes, MoneyTypes, GotoTypes DEF NextDue
<1>5. CASE NextDue(h) /\ op[h].work # {}
  <2>1. PICK a \in op[h].work :
          op' = [op EXCEPT ![h].pc = IF auctions[a].isAuction THEN "dueWinning" ELSE "expire",
                           ![h].auction = a, ![h].work = @ \ {a}]
    BY <1>5 DEF NextDue
  <2> DEFINE pc == IF auctions[a].isAuction THEN "dueWinning" ELSE "expire"
             r == [op[h] EXCEPT !.pc = pc, !.auction = a, !.work = op[h].work \ {a}]
  <2>2. a \in Auctions /\ a \in Nat /\ pc \in {"dueWinning", "expire"}
    BY <1>2
  <2>3. op' = [op EXCEPT ![h] = r]
    BY <2>1
  <2> HIDE DEF pc
  <2>4. /\ r \in CallType /\ r.pc = pc /\ r.scan = op[h].scan /\ r.work = op[h].work \ {a}
        /\ r.auction = a
    BY <1>1, <1>2, <2>2 DEF CallType
  <2>5. op[h].scan
    BY <1>1, <1>5 DEF NextDue, Works
  <2> HIDE DEF r
  <2> QED
    BY <1>2, <1>5, <2>2, <2>3, <2>4, <2>5, FieldsTypes DEF NextDue
<1>6. CASE DueWinning(h)
  <2>1. PICK n \in Found(op[h].auction) :
          IF n = NoBid THEN Goto(h, "expire")
          ELSE op' = [op EXCEPT ![h].pc = "paySeller",
                                ![h].who = Bid(op[h].auction, n).bidder,
                                ![h].price = Bid(op[h].auction, n).amount]
    BY <1>6 DEF DueWinning
  <2>2. op[h].auction \in Auctions
    BY <1>1, <1>6 DEF DueWinning, Knows
  <2>3. CASE n = NoBid
    <3>1. Ready(h, "expire")
      BY <1>1, <1>6, <2>2 DEF DueWinning, Ready, Works
    <3> QED
      BY <1>1, <1>6, <2>1, <2>3, <3>1, TablesTypes, MoneyTypes, GotoTypes DEF DueWinning
  <2>4. CASE n # NoBid
    <3> DEFINE b == Bid(op[h].auction, n)
               who == b.bidder
               p == b.amount
               r == [op[h] EXCEPT !.pc = "paySeller", !.who = who, !.price = p]
    <3>1. n \in DOMAIN auctions[op[h].auction].bids
      BY <2>4 DEF Found, Winning
    <3>2. who \in Character /\ p \in Price
      BY <1>1, <2>2, <3>1, BidType
    <3>3. op' = [op EXCEPT ![h] = r]
      BY <2>1, <2>4
    <3> HIDE DEF who, p
    <3>4. /\ r \in CallType /\ r.pc = "paySeller" /\ r.scan = op[h].scan
          /\ r.work = op[h].work /\ r.auction = op[h].auction /\ r.who = who /\ r.price = p
      BY <1>1, <3>2 DEF CallType
    <3> HIDE DEF r
    <3> QED
      BY <1>1, <1>2, <1>6, <2>2, <3>2, <3>3, <3>4, FieldsTypes DEF DueWinning, Works
  <2> QED
    BY <2>3, <2>4
<1>7. CASE Expire(h)
  <2>1. Rows' /\ Grows
    BY <1>1, <1>7, StatusStep DEF Expire, Knows, Status
  <2>2. Ready(h, "nextDue")
    BY <1>1, <1>7 DEF Expire, Ready, Works
  <2> QED
    BY <1>1, <1>7, <2>1, <2>2, MoneyTypes, GotoTypes DEF Expire
<1>8. CASE ExpireRest(h)
  <2>1. Rows' /\ Grows
    BY <1>1, <1>8, ExpireRows DEF ExpireRest
  <2> QED
    BY <1>1, <1>8, <2>1, MoneyTypes, EndTypes DEF ExpireRest
<1> QED
  BY <1>3, <1>4, <1>5, <1>6, <1>7, <1>8

LEMMA FailingTypes ==
  ASSUME TInv, NEW h \in Handler, Refuse(h) \/ ItemRefused(h) \/ Failed(h)
  PROVE  TInv'
<1> USE DEF At, PCs, Listing, Cancelling, Selling, Bidding, Retrieving, Scanning, OnRow,
            ForSomeone, Committed
<1>1. /\ owner \in [Item -> Character \cup {Market}] /\ calls \in 0 .. MaxCalls
      /\ Knows(h) /\ Works(h) /\ op[h] \in CallType /\ Rows
      /\ Tables /\ Money /\ owner' = owner
  BY DEF TInv, Refuse, ItemRefused, Failed
<1>2. /\ Rows' /\ Grows /\ calls' \in 0 .. MaxCalls /\ Accounts'
      /\ owner' \in [Item -> Character \cup {Market}]
  BY <1>1, TablesTypes, MoneyTypes
<1>3. CASE End(h)
  BY <1>2, <1>3, EndTypes
<1>4. CASE At(h, "deliver") /\ Goto(h, "saleRead")
  <2>1. Ready(h, "saleRead")
    BY <1>1, <1>4 DEF Ready, Knows, Works
  <2> QED
    BY <1>2, <1>4, <2>1, GotoTypes
<1>5. CASE At(h, "removeItem") /\ Goto(h, "restore")
  <2>1. Ready(h, "restore")
    BY <1>1, <1>5 DEF Ready, Knows, Works
  <2> QED
    BY <1>2, <1>5, <2>1, GotoTypes
<1>6. CASE /\ op[h].scan /\ op[h].pc \in {"paySeller", "deliver", "saleRead", "saleWrite"}
           /\ Goto(h, "nextDue")
  <2>1. Ready(h, "nextDue")
    BY <1>1, <1>6 DEF Ready, Knows, Works
  <2> QED
    BY <1>2, <1>6, <2>1, GotoTypes
<1>7. CASE At(h, "handBack") /\ \E a \in op[h].work : op' = [op EXCEPT ![h].work = @ \ {a}]
  <2>1. PICK a \in op[h].work : op' = [op EXCEPT ![h].work = @ \ {a}]
    BY <1>7
  <2> DEFINE r == [op[h] EXCEPT !.work = op[h].work \ {a}]
  <2>2. /\ op[h].scan = FALSE /\ op[h].work \subseteq Auctions /\ op[h].who \in Character
        /\ op[h].auction \in {0} \cup Auctions
    BY <1>1, <1>7 DEF Works, Knows, CallType
  <2>3. /\ r \in CallType /\ r.pc = "handBack" /\ r.who = op[h].who
        /\ r.auction = op[h].auction /\ r.work = op[h].work \ {a} /\ r.scan = FALSE
    BY <1>1, <1>7, <2>2 DEF CallType
  <2>4. op' = [op EXCEPT ![h] = r]
    BY <2>1
  <2> HIDE DEF r
  <2> QED
    BY <1>1, <2>2, <2>3, <2>4, FieldsTypes
<1>8. \/ End(h)
      \/ At(h, "deliver") /\ Goto(h, "saleRead")
      \/ At(h, "removeItem") /\ Goto(h, "restore")
      \/ /\ op[h].scan /\ op[h].pc \in {"paySeller", "deliver", "saleRead", "saleWrite"}
         /\ Goto(h, "nextDue")
      \/ At(h, "handBack") /\ \E a \in op[h].work : op' = [op EXCEPT ![h].work = @ \ {a}]
  BY DEF Refuse, ItemRefused, Failed
<1> QED
  BY <1>3, <1>4, <1>5, <1>6, <1>7, <1>8

\* A listing runs out.
LEMMA TimeStep ==
  ASSUME TInv, NEW a \in Auctions, TimePasses(a)
  PROVE  /\ Rows' /\ Grows /\ Auctions' = Auctions
         /\ \A b \in Auctions :
              /\ auctions'[b].item = auctions[b].item /\ auctions'[b].sales = auctions[b].sales
              /\ auctions'[b].bids = auctions[b].bids /\ auctions'[b].price = auctions[b].price
              /\ auctions'[b].status = auctions[b].status
<1> DEFINE r == [auctions[a] EXCEPT !.due = TRUE]
<1>1. auctions[a] \in Auction /\ Rows
  BY RowType DEF TInv
<1>2. r \in Auction
  BY <1>1 DEF Auction
<1>3. /\ r.item = auctions[a].item /\ r.seller = auctions[a].seller
      /\ r.isAuction = auctions[a].isAuction /\ r.price = auctions[a].price
      /\ r.instantSalePrice = auctions[a].instantSalePrice
      /\ r.bids = auctions[a].bids /\ r.status = auctions[a].status
      /\ r.sales = auctions[a].sales
  BY <1>1 DEF Auction
<1>4. ~r.isAuction => r.bids = <<>>
  BY <1>1, <1>3 DEF Rows
<1>5. auctions' = [auctions EXCEPT ![a] = r]
  BY DEF TimePasses
<1> HIDE DEF r
<1>6. /\ Rows' /\ Grows /\ Auctions' = Auctions /\ auctions'[a] = r
      /\ \A b \in Auctions : b # a => auctions'[b] = auctions[b]
  BY <1>1, <1>2, <1>3, <1>4, <1>5, RowStep
<1> QED
  BY <1>3, <1>6

LEMMA TypesStep ==
  ASSUME TInv, [Next]_vars
  PROVE  TInv'
<1>1. ASSUME NEW h \in Handler, Step(h)
      PROVE  TInv'
  BY <1>1, ListingTypes, CancellingTypes, SellingTypes, BiddingTypes, RetrievingTypes,
     ScanningTypes, FailingTypes DEF Step
<1>2. ASSUME NEW a \in Auctions, TimePasses(a)
      PROVE  TInv'
  <2>1. Rows' /\ Grows /\ op' = op
    BY <1>2, TimeStep DEF TimePasses
  <2>2. \A h \in Handler : Knows(h)' /\ Works(h)'
    BY <2>1, OthersKnow
  <2> QED
    BY <1>2, <2>1, <2>2, MoneyTypes DEF TInv, TimePasses
<1>3. CASE UNCHANGED vars
  <2>1. Tables /\ Money /\ op' = op /\ owner' = owner
    BY <1>3 DEF vars, Tables, Money
  <2>2. \A h \in Handler : Knows(h)' /\ Works(h)'
    BY <2>1, OthersKnow, TablesTypes
  <2> QED
    BY <2>1, <2>2, TablesTypes, MoneyTypes DEF TInv
<1> QED
  BY <1>1, <1>2, <1>3, CallTypes DEF Next

LEMMA TypesInit ==
  ASSUME Init
  PROVE  TInv
<1>1. auctions = <<>> /\ Auctions = {}
  BY DEF Init, Auctions
<1>2. Rows
  BY <1>1, Numbers DEF Rows
<1>3. \A h \in Handler : op[h] = Idle
  BY DEF Init
<1>4. \A h \in Handler : Knows(h) /\ Works(h)
  BY <1>1, <1>3, IdleType DEF Knows, Works, Listing, OnRow, ForSomeone, Cancelling, Selling,
                              Bidding, Retrieving, Committed
<1>5. Accounts /\ calls \in 0 .. MaxCalls
  BY Numbers DEF Init, Accounts
<1>6. /\ owner \in [Item -> Character \cup {Market}]
      /\ op \in [Handler -> CallType]
  BY IdleType, Numbers DEF Init
<1> QED
  BY <1>2, <1>4, <1>5, <1>6 DEF TInv

LEMMA TypesImply == TInv => TypeOK
<1> SUFFICES ASSUME TInv PROVE TypeOK
  OBVIOUS
<1>1. \A h \in Handler : op[h] \in CallType /\ Knows(h)
  BY DEF TInv
<1>2. \A h \in Handler : /\ op[h].auction \in {0} \cup Auctions
                         /\ op[h].work \subseteq Auctions
                         /\ op[h].who \in Character \cup {Market}
  BY <1>1 DEF Knows, CallType
<1>3. \A h \in Handler : op[h].pc \in {"pay", "paySeller", "bidPay", "bidUndo"}
                           => op[h].price \in Price
  BY <1>1 DEF Knows, Bidding, Selling
<1> QED
  BY <1>2, <1>3 DEF TInv, TypeOK, Rows, Accounts

\* Whatever calls interleave at their awaits, fail or are refused, nobody owes
\* credits, a call names a row that is there, and what is about to be paid is a
\* price: no payment is of an instantSalePrice that is null (bazaar-handler.ts:764),
\* and no bid is paid back that is not there (:938).
THEOREM BazaarTypeOK == Spec => []TypeOK
<1>1. Init => TInv
  BY TypesInit
<1>2. TInv /\ [Next]_vars => TInv'
  BY TypesStep
<1> QED
  BY <1>1, <1>2, TypesImply, PTL DEF Spec

-----------------------------------------------------------------------------
(* The invariant of an item that is not in dispute. *)

OnOffer(a) == auctions[a].status = "active"

Last(a) == \A b \in Of(auctions[a].item) : b <= a

\* A row: one sale record for a sold listing, and one winning bid.
Record(a) ==
  /\ auctions[a].status = "sold" <=> Len(auctions[a].sales) = 1
  /\ Len(auctions[a].sales) <= 1
  /\ \A m, n \in Winning(a) : m = n

\* The rows of an item: nothing but the last listing is on offer.
Sane(i) ==
  /\ Of(i) # {} => \E a \in Of(i) : Last(a)
  /\ \A a \in Of(i) : Record(a) /\ (OnOffer(a) => Last(a))

\* What the market has of a listing, but for what addCredits has refused; and
\* that is x more than it may keep.
Kept(a) == ledger[a] - refused[a]

Books(a, x) == \E y \in Rightful(a) \cap Int : Kept(a) = y + x

\* The books of an item's listings, and of all but one, are balanced.
Balanced(i) == \A a \in Of(i) : Books(a, 0)

OthersBalanced(i, a) == \A b \in Of(i) : b # a => Books(b, 0)

\* The item is where its last listing says.
Placed(i) ==
  /\ \A a \in Of(i) : OnOffer(a) => owner[i] = Market
  /\ owner[i] = Market => \E a \in Of(i) : Last(a) /\ auctions[a].status # "sold"
  /\ \A a \in Of(i) : Last(a) /\ auctions[a].status = "sold"
                        => owner[i] = auctions[a].sales[1].buyer

AtRest(i) == Balanced(i) /\ Placed(i)

\* The call h is past its checks on item i.
Commits(h, i) ==
  /\ op[h].pc \in Committed
  /\ i = IF op[h].auction = 0 THEN op[h].item ELSE ItemOf(h)

\* How far a listing has come: the item is with the market or was never taken.
ListingPhase(h, i) ==
  /\ Balanced(i)
  /\ \A a \in Of(i) : OnOffer(a) => owner[i] = Market
  /\ \A a \in Of(i) : Last(a) /\ auctions[a].status = "sold" =>
       auctions[a].sales[1].buyer = IF owner[i] = Market THEN op[h].who ELSE owner[i]
  /\ At(h, "insert") => owner[i] = Market /\ \A a \in Of(i) : ~OnOffer(a)

\* How far a cancellation or an expiry has come: the status is about to change,
\* or the item to go back.
EndingPhase(h, i) ==
  LET a == op[h].auction IN
  /\ AtRest(i)
  /\ At(h, "cancel") => auctions[a].bids = <<>>
  /\ At(h, "return") => Last(a) /\ auctions[a].status = "cancelled"
  /\ op[h].pc \in {"dueWinning", "expire"} => OnOffer(a)
  /\ At(h, "expire") => Winning(a) = {}

\* The market has its commission of the price.
HasCommission(a, price) == \E rate \in Rate : Kept(a) = Commission(price, rate)

\* How far a sale has come: the market holds the price, then its commission;
\* the buyer has the item before the listing is sold.
SellingPhase(h, i) ==
  /\ OnOffer(op[h].auction) /\ OthersBalanced(i, op[h].auction)
  /\ At(h, "pay") => AtRest(i)
  /\ At(h, "paySeller") => Kept(op[h].auction) = op[h].price /\ (op[h].scan => AtRest(i))
  /\ op[h].pc \in {"deliver", "saleRead", "saleWrite"}
       => HasCommission(op[h].auction, op[h].price)
  /\ op[h].pc \in {"paySeller", "deliver"} => owner[i] = Market
  /\ op[h].pc \in {"saleRead", "saleWrite"} => owner[i] = op[h].who

\* How far a bid has come: the market holds it next to the one it beats, then
\* in its place.
BiddingPhase(h, i) ==
  LET a == op[h].auction IN
  /\ Placed(i) /\ OthersBalanced(i, a)
  /\ ~At(h, "bidUndo") => op[h].bid \in Found(a)
  /\ op[h].pc \in {"bidPay", "bidRefund", "bidRead"} => Beats(op[h].price, a, op[h].bid)
  /\ At(h, "bidPay") => Books(a, 0)
  /\ op[h].pc \in {"bidRefund", "bidUndo"} => Books(a, op[h].price)
  /\ At(h, "bidRead") /\ op[h].bid = NoBid => Books(a, op[h].price)
  /\ At(h, "bidRead") /\ op[h].bid # NoBid => OnOffer(a) /\ Kept(a) = op[h].price
  /\ At(h, "bidWrite") => OnOffer(a) /\ Kept(a) = op[h].price

Phase(h, i) ==
  /\ op[h].pc \in Listing => ListingPhase(h, i)
  /\ op[h].pc \in {"cancel", "return", "dueWinning", "expire"} => EndingPhase(h, i)
  /\ op[h].pc \in Selling => SellingPhase(h, i)
  /\ op[h].pc \in Bidding => BiddingPhase(h, i)

\* What a call has left to see to is as it found it.
WorkPhase(h, i) ==
  \A a \in op[h].work \cap Of(i) :
    IF op[h].scan THEN OnOffer(a) ELSE auctions[a].status \in {"cancelled", "expired"}

ItemInv(i) ==
  /\ Sane(i)
  /\ (\A h \in Handler : ~Commits(h, i)) => AtRest(i)
  /\ \A h \in Handler : (Commits(h, i) => Phase(h, i)) /\ WorkPhase(h, i)

MInv == TInv /\ Clash \subseteq disputed /\ \A i \in Item \ disputed : ItemInv(i)
-----------------------------------------------------------------------------
(* What steps of others leave as it was. *)

\* The rows of item i are as they were, but for whether their time has passed.
SameRows(i) ==
  /\ Of(i)' = Of(i)
  /\ \A a \in Of(i) :
       /\ auctions'[a].item = i /\ auctions[a].item = i
       /\ auctions'[a].status = auctions[a].status /\ auctions'[a].sales = auctions[a].sales
       /\ auctions'[a].bids = auctions[a].bids /\ auctions'[a].price = auctions[a].price

\* No account of a listing of item i moves.
SameBooks(i) == \A a \in Of(i) : ledger'[a] = ledger[a] /\ refused'[a] = refused[a]

NoPayment == ledger' = ledger /\ refused' = refused

\* Nor who has it.
SameItem(i) == SameRows(i) /\ owner'[i] = owner[i] /\ SameBooks(i)

\* What h may find of an item that no other call claims.
Mine(h, i) ==
  /\ Sane(i) /\ WorkPhase(h, i)
  /\ IF Commits(h, i) THEN Phase(h, i) ELSE AtRest(i)

LEMMA RowFacts ==
  ASSUME NEW i, SameRows(i), NEW a \in Of(i)
  PROVE  /\ OnOffer(a)' <=> OnOffer(a)
         /\ Last(a)' <=> Last(a)
         /\ Winning(a)' = Winning(a)
         /\ Found(a)' = Found(a)
         /\ \A n : Bid(a, n)' = Bid(a, n)
<1>1. /\ auctions'[a].item = i /\ auctions[a].item = i
      /\ auctions'[a].status = auctions[a].status /\ auctions'[a].bids = auctions[a].bids
      /\ Of(i)' = Of(i)
  BY DEF SameRows
<1>2. OnOffer(a)' <=> OnOffer(a)
  BY <1>1 DEF OnOffer
<1>3. Last(a)' <=> Last(a)
  BY <1>1 DEF Last
<1>4. \A n : Bid(a, n)' = Bid(a, n)
  BY <1>1 DEF Bid
<1>5. Winning(a)' = Winning(a)
  BY <1>1 DEF Winning, Bid
<1>6. Found(a)' = Found(a)
  BY <1>5 DEF Found
<1> QED
  BY <1>2, <1>3, <1>4, <1>5, <1>6

LEMMA SaneSame ==
  ASSUME NEW i, SameRows(i), Sane(i)
  PROVE  Sane(i)'
<1>1. Of(i)' = Of(i)
  BY DEF SameRows
<1>2. Of(i)' # {} => \E a \in Of(i)' : Last(a)'
  BY <1>1, RowFacts DEF Sane
<1>3. ASSUME NEW a \in Of(i)
      PROVE  Record(a)' /\ (OnOffer(a)' => Last(a)')
  <2>1. auctions'[a].status = auctions[a].status /\ auctions'[a].sales = auctions[a].sales
    BY DEF SameRows
  <2>2. Winning(a)' = Winning(a) /\ (OnOffer(a)' => Last(a)') /\ Record(a)
    BY RowFacts DEF Sane
  <2> QED
    BY <2>1, <2>2 DEF Record
<1> QED
  BY <1>1, <1>2, <1>3 DEF Sane

\* The row is as it was, and so is what may be kept.
LEMMA RightfulSame ==
  ASSUME NEW a, auctions'[a].status = auctions[a].status,
         auctions'[a].sales = auctions[a].sales, auctions'[a].bids = auctions[a].bids
  PROVE  Rightful(a)' = Rightful(a)
<1>1. Winning(a)' = Winning(a) /\ \A n : Bid(a, n)' = Bid(a, n)
  BY DEF Winning, Bid
<1> QED
  BY <1>1 DEF Rightful

\* The rows as they were, and y more in the market's hands.
LEMMA BooksMore ==
  ASSUME NEW i \in Item, SameRows(i), NEW a \in Of(i),
         NEW x \in Int, NEW y \in Int, NEW z \in Int,
         Books(a, x), Kept(a)' = Kept(a) + y, z = x + y
  PROVE  Books(a, z)'
<1>1. PICK w \in Rightful(a) \cap Int : Kept(a) = w + x
  BY DEF Books
<1>2. Rightful(a)' = Rightful(a)
  BY RightfulSame DEF SameRows
<1>3. Kept(a)' = w + z
  BY <1>1
<1> QED
  BY <1>1, <1>2, <1>3 DEF Books

LEMMA BooksSame ==
  ASSUME NEW i \in Item, SameRows(i), NEW a \in Of(i), NEW x, Books(a, x),
         ledger'[a] = ledger[a], refused'[a] = refused[a]
  PROVE  Books(a, x)' /\ Kept(a)' = Kept(a)
<1>1. Rightful(a)' = Rightful(a)
  BY RightfulSame DEF SameRows
<1>2. Kept(a)' = Kept(a)
  BY DEF Kept
<1> QED
  BY <1>1, <1>2 DEF Books

\* The books of an item nobody pays for, in its rows as they were.
LEMMA BalancedSame ==
  ASSUME NEW i \in Item, SameRows(i), SameBooks(i)
  PROVE  /\ \A a \in Of(i) : /\ Kept(a)' = Kept(a)
                              /\ \A x : Books(a, x) => Books(a, x)'
         /\ Balanced(i) => Balanced(i)'
         /\ \A a : OthersBalanced(i, a) => OthersBalanced(i, a)'
<1>1. ASSUME NEW a \in Of(i)
      PROVE  Kept(a)' = Kept(a) /\ \A x : Books(a, x) => Books(a, x)'
  BY BooksSame DEF SameBooks, Kept
<1>2. Of(i)' = Of(i)
  BY DEF SameRows
<1> QED
  BY <1>1, <1>2 DEF Balanced, OthersBalanced

LEMMA NothingPaid ==
  ASSUME NEW i, NoPayment
  PROVE  SameBooks(i)
BY DEF NoPayment, SameBooks

LEMMA PlacedSame ==
  ASSUME NEW i, SameItem(i), Placed(i)
  PROVE  Placed(i)'
<1>1. SameRows(i) /\ Of(i)' = Of(i) /\ owner'[i] = owner[i]
  BY DEF SameItem, SameBooks, NoPayment, SameRows
<1>2. \A a \in Of(i) : OnOffer(a)' => owner'[i] = Market
  BY <1>1, RowFacts DEF Placed
<1>3. owner'[i] = Market => \E a \in Of(i) : Last(a)' /\ auctions'[a].status # "sold"
  BY <1>1, RowFacts DEF Placed, SameRows
<1>4. \A a \in Of(i) : Last(a)' /\ auctions'[a].status = "sold"
                         => owner'[i] = auctions'[a].sales[1].buyer
  BY <1>1, RowFacts DEF Placed, SameRows
<1> QED
  BY <1>1, <1>2, <1>3, <1>4 DEF Placed

LEMMA RestSame ==
  ASSUME TInv, NEW i \in Item, SameItem(i), AtRest(i)
  PROVE  AtRest(i)'
BY BalancedSame, PlacedSame DEF AtRest, SameItem, SameBooks, NoPayment

\* What a committed call is about: the item of a listing to be, or of its auction.
LEMMA Target ==
  ASSUME TInv, NEW h \in Handler, NEW i, Commits(h, i)
  PROVE  \/ op[h].pc \in {"insert", "restore"} /\ op[h].auction = 0 /\ i = op[h].item
         \/ /\ op[h].pc \in OnRow /\ op[h].pc \notin Listing /\ op[h].auction # 0
            /\ op[h].auction \in Of(i) /\ op[h].auction \in Auctions /\ i = ItemOf(h)
<1> USE DEF Committed, Listing, OnRow, Cancelling, Selling, Bidding
<1>1. op[h].pc \in Committed /\ Knows(h)
      /\ i = IF op[h].auction = 0 THEN op[h].item ELSE ItemOf(h)
  BY DEF TInv, Commits
<1>2. CASE op[h].pc \in {"insert", "restore"}
  BY <1>1, <1>2 DEF Knows
<1>3. CASE op[h].pc \notin {"insert", "restore"}
  <2>1. op[h].pc \in OnRow /\ op[h].pc \notin Listing
    BY <1>1, <1>3
  <2>2. op[h].auction \in Auctions /\ op[h].auction # 0
    BY <1>1, <2>1 DEF Knows, Auctions
  <2> QED
    BY <1>1, <2>1, <2>2 DEF Of, ItemOf
<1> QED
  BY <1>2, <1>3

LEMMA ClaimsAre ==
  ASSUME NEW h, NEW i
  PROVE  i \in Claims(h) <=> Commits(h, i) \/ \E a \in op[h].work : auctions[a].item = i
BY DEF Claims, Commits

\* A call that takes no step is still about what it was about.
LEMMA ClaimsStay ==
  ASSUME TInv, Grows, NEW g \in Handler, op'[g] = op[g], NEW i
  PROVE  /\ Commits(g, i)' <=> Commits(g, i)
         /\ i \in Claims(g)' <=> i \in Claims(g)
<1>1. Knows(g)
  BY DEF TInv
<1>2. \A a \in op[g].work : auctions'[a].item = auctions[a].item
  BY <1>1 DEF Knows, Grows
<1>3. op[g].auction # 0 => auctions'[op[g].auction].item = auctions[op[g].auction].item
  BY <1>1 DEF Knows, Grows
<1>4. Commits(g, i)' <=> Commits(g, i)
  BY <1>3 DEF Commits, ItemOf
<1>5. i \in Claims(g)' <=> Commits(g, i)' \/ \E a \in op'[g].work : auctions'[a].item = i
  BY DEF Claims, Commits
<1> QED
  BY <1>2, <1>4, <1>5, ClaimsAre

\* How far a call has come does not change with the steps of others.
LEMMA PhaseSame ==
  ASSUME TInv, NEW i \in Item, SameItem(i), NEW g \in Handler, op'[g] = op[g],
         Commits(g, i), Phase(g, i)
  PROVE  Phase(g, i)'
<1>0. SameRows(i) /\ SameBooks(i) /\ owner'[i] = owner[i] /\ Of(i)' = Of(i)
  BY DEF SameItem, SameBooks, NoPayment, SameRows
<1>1. /\ Balanced(i) => Balanced(i)'
      /\ \A b : OthersBalanced(i, b) => OthersBalanced(i, b)'
  BY <1>0, BalancedSame
<1>2. \A b \in Of(i) : /\ Kept(b)' = Kept(b)
                       /\ \A x : Books(b, x) => Books(b, x)'
  BY <1>0, BalancedSame
<1>3. (AtRest(i) => AtRest(i)') /\ (Placed(i) => Placed(i)')
  BY RestSame, PlacedSame
<1>4. CASE op[g].pc \in {"insert", "restore"}
  <2>1. ListingPhase(g, i)
    BY <1>4 DEF Phase, Listing
  <2>2. /\ \A a \in Of(i)' : OnOffer(a)' => owner'[i] = Market
        /\ \A a \in Of(i)' : Last(a)' /\ auctions'[a].status = "sold" =>
             auctions'[a].sales[1].buyer = IF owner'[i] = Market THEN op'[g].who ELSE owner'[i]
        /\ op'[g].pc = "insert" => owner'[i] = Market /\ \A a \in Of(i)' : ~OnOffer(a)'
    BY <1>0, <2>1, RowFacts DEF ListingPhase, SameRows, At
  <2>3. ListingPhase(g, i)'
    BY <1>1, <2>1, <2>2 DEF ListingPhase, At
  <2> QED
    BY <1>4, <2>3 DEF Phase, Cancelling, Selling, Bidding
<1>5. CASE op[g].pc \notin {"insert", "restore"}
  <2> DEFINE a == op[g].auction
  <2>1. a \in Of(i) /\ op[g].pc \notin Listing
    BY <1>5, Target
  <2>2. /\ auctions'[a].status = auctions[a].status /\ auctions'[a].bids = auctions[a].bids
        /\ auctions'[a].price = auctions[a].price
        /\ OnOffer(a)' <=> OnOffer(a)
        /\ Last(a)' <=> Last(a)
        /\ Winning(a)' = Winning(a) /\ Found(a)' = Found(a)
        /\ \A n : Bid(a, n)' = Bid(a, n)
    BY <1>0, <2>1, RowFacts DEF SameRows
  <2>3. op'[g].auction = a /\ op'[g].pc = op[g].pc /\ op'[g].bid = op[g].bid
        /\ op'[g].price = op[g].price /\ op'[g].who = op[g].who /\ op'[g].scan = op[g].scan
    OBVIOUS
  <2>4. EndingPhase(g, i) => EndingPhase(g, i)'
    BY <1>3, <2>2, <2>3 DEF EndingPhase, At, OnOffer, Last, Winning, Bid
  <2>5. SellingPhase(g, i) => SellingPhase(g, i)'
    <3>1. /\ OthersBalanced(i, a) => OthersBalanced(i, a)' /\ Kept(a)' = Kept(a)
          /\ HasCommission(a, op[g].price) => HasCommission(a, op[g].price)'
      BY <1>1, <1>2, <2>1 DEF HasCommission
    <3> HIDE DEF a
    <3> QED
      BY <1>0, <1>3, <2>2, <2>3, <3>1 DEF a, SellingPhase, At
  <2>6. BiddingPhase(g, i) => BiddingPhase(g, i)'
    <3> DEFINE p == op[g].price
    <3>1. /\ OthersBalanced(i, a) => OthersBalanced(i, a)' /\ Kept(a)' = Kept(a)
          /\ Books(a, 0) => Books(a, 0)'
          /\ Books(a, p) => Books(a, p)'
      BY <1>1, <1>2, <2>1
    <3>2. \A n : Beats(p, a, n)' <=> Beats(p, a, n)
      BY <2>2 DEF Beats, Bid
    <3> QED
      BY <1>3, <2>2, <2>3, <3>1, <3>2 DEF BiddingPhase, At
  <2> QED
    BY <1>5, <2>1, <2>3, <2>4, <2>5, <2>6 DEF Phase
<1> QED
  BY <1>4, <1>5

LEMMA WorkSame ==
  ASSUME NEW i, SameRows(i), NEW g, op'[g] = op[g], WorkPhase(g, i)
  PROVE  WorkPhase(g, i)'
<1>1. \A a \in op[g].work \cap Of(i) : auctions'[a].status = auctions[a].status
  BY DEF SameRows
<1> QED
  BY <1>1 DEF WorkPhase, OnOffer, SameRows

\* A call that claims an item which is not in dispute is the only one to do so.
LEMMA OnlyOne ==
  ASSUME TInv, Grows, NEW h \in Handler, \A g \in Handler : g # h => op'[g] = op[g],
         NEW i \in Item, i \notin Clash, i \notin Clash',
         i \in Claims(h) \/ i \in Claims(h)', ItemInv(i)
  PROVE  /\ Mine(h, i)
         /\ \A g \in Handler : g # h => i \notin Claims(g) /\ i \notin Claims(g)'
<1>1. ASSUME NEW g \in Handler, g # h
      PROVE  i \notin Claims(g) /\ i \notin Claims(g)'
  <2>1. i \in Claims(g)' <=> i \in Claims(g)
    BY <1>1, ClaimsStay
  <2>2. ~(i \in Claims(g) /\ i \in Claims(h))
    BY <1>1 DEF Clash
  <2>3. ~(i \in Claims(g)' /\ i \in Claims(h)')
    BY <1>1 DEF Clash
  <2> QED
    BY <2>1, <2>2, <2>3
<1>2. \A g \in Handler : g # h => ~Commits(g, i)
  BY <1>1, ClaimsAre
<1>3. ~Commits(h, i) => AtRest(i)
  BY <1>2 DEF ItemInv
<1>4. Mine(h, i)
  BY <1>3 DEF ItemInv, Mine
<1> QED
  BY <1>1, <1>4

LEMMA OnlyMine ==
  ASSUME NEW h \in Handler, NEW i \in Item, Mine(h, i)',
         \A g \in Handler : g # h => i \notin Claims(g)'
  PROVE  ItemInv(i)'
<1>1. ASSUME NEW g \in Handler, g # h
      PROVE  ~Commits(g, i)' /\ WorkPhase(g, i)'
  <2>1. i \in Claims(g)' <=> Commits(g, i)' \/ \E a \in op'[g].work : auctions'[a].item = i
    BY DEF Claims, Commits
  <2>2. op'[g].work \cap Of(i)' = {}
    BY <1>1, <2>1 DEF Of
  <2> QED
    BY <1>1, <2>1, <2>2 DEF WorkPhase
<1>2. Sane(i)' /\ WorkPhase(h, i)' /\ (Commits(h, i)' => Phase(h, i)')
      /\ (~Commits(h, i)' => AtRest(i)')
  BY DEF Mine
<1>3. \A g \in Handler : (Commits(g, i)' => Phase(g, i)') /\ WorkPhase(g, i)'
  BY <1>1, <1>2
<1>4. (\A g \in Handler : ~Commits(g, i)') => AtRest(i)'
  BY <1>2
<1> QED
  BY <1>2, <1>3, <1>4 DEF ItemInv

\* An item that is left alone, by calls that do not claim it.
LEMMA LeftAlone ==
  ASSUME TInv, Grows, NEW i \in Item, SameItem(i), ItemInv(i),
         \A g \in Handler : op'[g] = op[g] \/ (i \notin Claims(g) /\ i \notin Claims(g)')
  PROVE  ItemInv(i)'
<1>1. SameRows(i) /\ Sane(i) /\ Of(i)' = Of(i)
  BY DEF SameItem, SameBooks, NoPayment, ItemInv, SameRows
<1>2. ASSUME NEW g \in Handler
      PROVE  /\ Commits(g, i)' <=> Commits(g, i)
             /\ Commits(g, i)' => Phase(g, i)'
             /\ WorkPhase(g, i)'
  <2>1. CASE op'[g] = op[g]
    <3>1. Commits(g, i)' <=> Commits(g, i)
      BY <2>1, ClaimsStay
    <3>2. Commits(g, i) => Phase(g, i)'
      BY <2>1, PhaseSame DEF ItemInv
    <3>3. WorkPhase(g, i)'
      BY <1>1, <2>1, WorkSame DEF ItemInv
    <3> QED
      BY <3>1, <3>2, <3>3
  <2>2. CASE i \notin Claims(g) /\ i \notin Claims(g)'
    <3>1. i \in Claims(g)' <=> Commits(g, i)' \/ \E a \in op'[g].work : auctions'[a].item = i
      BY DEF Claims, Commits
    <3>2. op'[g].work \cap Of(i)' = {}
      BY <2>2, <3>1 DEF Of
    <3>3. ~Commits(g, i) /\ ~Commits(g, i)'
      BY <2>2, <3>1, ClaimsAre
    <3> QED
      BY <3>2, <3>3 DEF WorkPhase
  <2> QED
    BY <2>1, <2>2
<1>3. (\A g \in Handler : ~Commits(g, i)') => AtRest(i)'
  BY <1>2, RestSame DEF ItemInv
<1> QED
  BY <1>1, <1>2, <1>3, SaneSame DEF ItemInv

\* What is on offer for an item is one listing.
LEMMA OneOffer ==
  ASSUME NEW i, Sane(i), NEW a \in Of(i), NEW b \in Of(i), OnOffer(a), OnOffer(b), TInv
  PROVE  a = b
<1>1. Last(a) /\ Last(b) /\ auctions[a].item = i /\ auctions[b].item = i
  BY DEF Sane, Of
<1>2. a \in Nat /\ b \in Nat
  BY DEF Of, Auctions, TInv, Rows
<1>3. a <= b /\ b <= a
  BY <1>1 DEF Last
<1> QED
  BY <1>2, <1>3

\* What a scan has in hand is all it has of the item.
LEMMA NoOther ==
  ASSUME TInv, NEW h \in Handler, NEW i, Mine(h, i), Commits(h, i)
  PROVE  op[h].work \cap Of(i) = {}
<1>1. /\ Works(h) /\ op[h].pc \in Committed /\ Sane(i) /\ Phase(h, i) /\ WorkPhase(h, i)
      /\ op[h].scan \in BOOLEAN
  BY DEF TInv, Mine, Commits, CallType
<1>2. CASE ~op[h].scan
  BY <1>1, <1>2 DEF Works, Committed
<1>3. CASE op[h].scan
  <2>1. op[h].pc \in Scanning \ {"nextDue"}
    BY <1>1, <1>3 DEF Works, Committed
  <2>2. op[h].auction \in Of(i)
    BY <2>1, Target DEF Scanning
  <2>3. OnOffer(op[h].auction)
    BY <1>1, <2>1 DEF Phase, EndingPhase, SellingPhase, Scanning, Selling
  <2>4. ASSUME NEW b \in op[h].work \cap Of(i)
        PROVE  FALSE
    <3>1. OnOffer(b) /\ b # op[h].auction
      BY <1>1, <1>3 DEF WorkPhase, Works
    <3> QED
      BY <1>1, <2>2, <2>3, <3>1, OneOffer
  <2> QED
    BY <2>4
<1> QED
  BY <1>1, <1>2, <1>3

\* A call leaves an item at rest as it was, and is not or no longer about it.
LEMMA Rests ==
  ASSUME TInv, NEW h \in Handler, NEW i \in Item, SameItem(i), Mine(h, i), AtRest(i),
         ~Commits(h, i)', op'[h].work \subseteq op[h].work,
         op'[h].work # {} => op'[h].scan = op[h].scan
  PROVE  Mine(h, i)'
<1>1. SameRows(i) /\ Of(i)' = Of(i) /\ Sane(i) /\ WorkPhase(h, i)
  BY DEF SameItem, SameBooks, NoPayment, Mine, SameRows
<1>2. \A a \in Of(i) : auctions'[a].status = auctions[a].status
  BY <1>1 DEF SameRows
<1>3. WorkPhase(h, i)'
  BY <1>1, <1>2 DEF WorkPhase, OnOffer
<1>4. Sane(i)' /\ AtRest(i)'
  BY <1>1, SaneSame, RestSame
<1> QED
  BY <1>3, <1>4 DEF Mine

\* A step that leaves the rows as they were, of a call that goes on about an item.
LEMMA Proceeds ==
  ASSUME TInv, NEW h \in Handler, NEW i \in Item, SameRows(i), Mine(h, i),
         Commits(h, i)', Phase(h, i)', op'[h].work \subseteq op[h].work,
         op'[h].work # {} => op'[h].scan = op[h].scan
  PROVE  Mine(h, i)'
<1>1. Of(i)' = Of(i) /\ Sane(i) /\ WorkPhase(h, i)
  BY DEF Mine, SameRows
<1>2. \A a \in Of(i) : auctions'[a].status = auctions[a].status
  BY <1>1 DEF SameRows
<1>3. WorkPhase(h, i)'
  BY <1>1, <1>2 DEF WorkPhase, OnOffer
<1>4. Sane(i)'
  BY <1>1, SaneSame
<1> QED
  BY <1>3, <1>4 DEF Mine

\* Tables that no statement has written.
LEMMA TablesSame ==
  ASSUME TInv, Tables, NEW i
  PROVE  /\ SameRows(i)
         /\ Money /\ UNCHANGED owner => SameItem(i)
BY DEF Tables, Money, NoPayment, SameRows, SameItem, SameBooks, Of, Auctions

\* A call that has ended, or has not begun, is about no item.
LEMMA NotCommitted ==
  ASSUME NEW h, NEW i, op'[h].pc \notin Committed
  PROVE  ~Commits(h, i)'
BY DEF Commits

\* Where the checks of a call are made and nothing has moved, the item is at rest.
LEMMA Resting ==
  ASSUME TInv, NEW h \in Handler, NEW i, Mine(h, i), i \notin Halfway(h), ~At(h, "insert")
  PROVE  AtRest(i)
<1>1. CASE ~Commits(h, i)
  BY <1>1 DEF Mine
<1>2. CASE Commits(h, i)
  <2>1. Phase(h, i) /\ op[h].pc \in Committed
    BY <1>2 DEF Mine, Commits
  <2>2. CASE op[h].pc \in {"insert", "restore"}
    BY <1>2, <2>2, Target DEF Halfway, At, OnRow, Cancelling, Selling, Bidding
  <2>3. CASE op[h].pc \notin {"insert", "restore"}
    <3>1. i = ItemOf(h)
      BY <1>2, <2>3, Target
    <3>2. \/ op[h].pc \in {"cancel", "return", "dueWinning", "expire", "pay", "bidPay"}
          \/ op[h].pc = "paySeller" /\ op[h].scan
      BY <2>1, <2>3, <3>1 DEF Halfway, At, Committed
    <3>3. CASE op[h].pc = "bidPay"
      <4>1. /\ Placed(i) /\ OthersBalanced(i, op[h].auction) /\ Books(op[h].auction, 0)
        BY <2>1, <3>3 DEF Phase, BiddingPhase, Bidding, At
      <4> QED
        BY <4>1 DEF AtRest, Balanced, OthersBalanced
    <3>4. CASE op[h].pc # "bidPay"
      BY <2>1, <3>2, <3>4 DEF Phase, EndingPhase, SellingPhase, At, Selling
    <3> QED
      BY <3>3, <3>4
  <2> QED
    BY <2>2, <2>3
<1> QED
  BY <1>1, <1>2

\* A call that stops, or goes on with nothing checked.
LEMMA Stops ==
  ASSUME TInv, NEW h \in Handler, NEW i \in Item, Mine(h, i), SameItem(i),
         op'[h].pc \notin Committed, i \notin Halfway(h), ~At(h, "insert"),
         op'[h].work \subseteq op[h].work,
         op'[h].work # {} => op'[h].scan = op[h].scan
  PROVE  Mine(h, i)'
BY Resting, Rests, NotCommitted

\* An item given to a character, with nothing on offer.
LEMMA Given ==
  ASSUME TInv, NEW i \in Item, SameRows(i), SameBooks(i), Balanced(i),
         NEW c \in Character, owner'[i] = c, \A a \in Of(i) : ~OnOffer(a),
         \A a \in Of(i) : Last(a) /\ auctions[a].status = "sold" => auctions[a].sales[1].buyer = c
  PROVE  AtRest(i)'
<1>1. Balanced(i)'
  BY BalancedSame
<1>2. Of(i)' = Of(i) /\ c # Market
  BY MarketAssumption DEF SameRows
<1>3. \A a \in Of(i) : ~OnOffer(a)' /\ (Last(a)' <=> Last(a))
                       /\ auctions'[a].status = auctions[a].status
                       /\ auctions'[a].sales = auctions[a].sales
  BY RowFacts DEF SameRows
<1>4. Placed(i)'
  BY <1>2, <1>3 DEF Placed
<1> QED
  BY <1>1, <1>4 DEF AtRest

\* A call that ends with the item at rest.
LEMMA Settles ==
  ASSUME NEW h, NEW i, Sane(i)', AtRest(i)', op'[h].pc \notin Committed,
         op'[h].work \cap Of(i)' = {}
  PROVE  Mine(h, i)'
<1>1. WorkPhase(h, i)'
  BY DEF WorkPhase
<1> QED
  BY <1>1, NotCommitted DEF Mine

\* A new listing.
LEMMA NewRow ==
  ASSUME TInv, NEW h \in Handler, NEW i \in Item, At(h, "insert"),
         Len(auctions) < MaxAuctions, auctions' = Append(auctions, NewAuction(h))
  PROVE  \E n \in Nat :
           /\ \A b \in Auctions : auctions'[b] = auctions[b] /\ b < n
           /\ i # op[h].item => SameRows(i)
           /\ i = op[h].item => Of(i)' = Of(i) \cup {n}
           /\ auctions'[n].item = op[h].item /\ auctions'[n].status = "active"
           /\ auctions'[n].bids = <<>> /\ auctions'[n].sales = <<>>
           /\ ledger[n] = 0 /\ refused[n] = 0
<1> DEFINE n == Len(auctions) + 1
           r == NewAuction(h)
<1>1. /\ r \in Auction /\ r.item = op[h].item /\ r.status = "active"
      /\ r.bids = <<>> /\ r.sales = <<>>
      /\ IF r.isAuction THEN r.instantSalePrice \in Price ELSE r.bids = <<>>
  BY NewType
<1>2. auctions' = Append(auctions, r) /\ Rows
  BY DEF TInv
<1> HIDE DEF r
<1>3. /\ Auctions' = Auctions \cup {n} /\ n \notin Auctions /\ Len(auctions) \in Nat
      /\ auctions'[n] = r
      /\ \A b \in Auctions : auctions'[b] = auctions[b]
  BY <1>1, <1>2, AppendStep
<1>4. \A b \in Auctions : auctions'[b] = auctions[b] /\ b < n
  BY <1>3 DEF Auctions
<1>5. Of(i)' = {b \in Auctions' : auctions'[b].item = i}
  BY DEF Of
<1>6. i # op[h].item => Of(i)' = Of(i)
  BY <1>1, <1>3, <1>5 DEF Of
<1>7. i = op[h].item => Of(i)' = Of(i) \cup {n}
  BY <1>1, <1>3, <1>5 DEF Of
<1>8. i # op[h].item => SameRows(i)
  BY <1>3, <1>6 DEF SameRows, Of
<1>9. n \in Nat /\ n \in (1 .. MaxAuctions) \ Auctions
  BY <1>3, Numbers
<1> HIDE DEF n
<1>10. ledger[n] = 0 /\ refused[n] = 0
  BY <1>9 DEF TInv, Accounts
<1> QED
  BY <1>1, <1>3, <1>4, <1>7, <1>8, <1>9, <1>10

\* It is the one on offer, and what the market holds is as it should be.
LEMMA Listed ==
  ASSUME TInv, NEW h \in Handler, NEW i \in Item, At(h, "insert"), i = op[h].item, Mine(h, i),
         Len(auctions) < MaxAuctions, auctions' = Append(auctions, NewAuction(h)),
         NoPayment, owner'[i] = owner[i]
  PROVE  /\ Sane(i)' /\ AtRest(i)' /\ owner[i] = Market
         /\ \A a \in Of(i)' : Last(a)' => auctions'[a].status = "active"
<1>0. Of(i) \subseteq Auctions /\ Auctions \subseteq Nat
  BY DEF Of, Auctions, TInv, Rows
<1>1. PICK n \in Nat :
        /\ \A b \in Of(i) : auctions'[b] = auctions[b] /\ b < n /\ b \in Nat
        /\ Of(i)' = Of(i) \cup {n}
        /\ auctions'[n].item = i /\ auctions'[n].status = "active"
        /\ auctions'[n].bids = <<>> /\ auctions'[n].sales = <<>>
        /\ ledger[n] = 0 /\ refused[n] = 0
  <2>1. PICK n \in Nat :
          /\ \A b \in Auctions : auctions'[b] = auctions[b] /\ b < n
          /\ Of(i)' = Of(i) \cup {n}
          /\ auctions'[n].item = op[h].item /\ auctions'[n].status = "active"
          /\ auctions'[n].bids = <<>> /\ auctions'[n].sales = <<>>
          /\ ledger[n] = 0 /\ refused[n] = 0
    BY NewRow
  <2> QED
    BY <1>0, <2>1
<1>2. op[h].auction = 0
  BY DEF TInv, Knows, At, Listing
<1>3. Commits(h, i) /\ ListingPhase(h, i) /\ Sane(i)
  BY <1>2 DEF Mine, Commits, At, Committed, Phase, Listing
<1>4. owner[i] = Market /\ (\A b \in Of(i) : ~OnOffer(b)) /\ Balanced(i)
  BY <1>3 DEF ListingPhase
<1>5. \A b \in Of(i) : Books(b, 0)'
  <2>1. \A b \in Of(i) : Books(b, 0) /\ Rightful(b)' = Rightful(b) /\ Kept(b)' = Kept(b)
    BY <1>1, <1>4, RightfulSame DEF Balanced, Kept, NoPayment
  <2> QED
    BY <2>1 DEF Books
<1>6. Winning(n)' = {} /\ OnOffer(n)'
  BY <1>1 DEF Winning, OnOffer
<1>7. ASSUME NEW b \in Of(i)
      PROVE  ~OnOffer(b)' /\ Winning(b)' = Winning(b) /\ ~Last(b)'
  <2>1. auctions'[b] = auctions[b] /\ auctions[b].item = i /\ b < n /\ b \in Nat
    BY <1>1 DEF Of
  <2>2. ~OnOffer(b)' /\ Winning(b)' = Winning(b)
    BY <1>4, <2>1 DEF OnOffer, Winning, Bid
  <2>3. n \in Of(auctions[b].item)' /\ ~(n <= b)
    BY <1>1, <2>1
  <2>4. ~Last(b)'
    BY <1>1, <2>1, <2>3 DEF Last
  <2> QED
    BY <2>2, <2>4
<1>8. Last(n)'
  <2>1. \A b \in Of(i)' : b <= n
    BY <1>1
  <2> QED
    BY <1>1, <2>1 DEF Last
<1>9. Sane(i)'
  <2>1. ASSUME NEW b \in Of(i)
        PROVE  Record(b)'
    <3>1. Record(b) /\ Winning(b)' = Winning(b) /\ auctions'[b] = auctions[b]
      BY <1>1, <1>3, <1>7 DEF Sane
    <3> QED
      BY <3>1 DEF Record
  <2>2. Len(auctions'[n].sales) = 0
    BY <1>1
  <2>3. Record(n)'
    BY <1>1, <1>6, <2>2 DEF Record
  <2> QED
    BY <1>1, <1>6, <1>7, <1>8, <2>1, <2>3 DEF Sane
<1>10. Balanced(i)'
  <2>1. Rightful(n)' = {0}
    BY <1>1, <1>6 DEF Rightful
  <2>2. Kept(n)' = 0
    BY <1>1 DEF Kept, NoPayment
  <2>3. Books(n, 0)'
    BY <2>1, <2>2 DEF Books
  <2> QED
    BY <1>1, <1>5, <2>3 DEF Balanced
<1>11. Placed(i)'
  BY <1>1, <1>4, <1>7, <1>8 DEF Placed
<1> QED
  BY <1>1, <1>4, <1>7, <1>9, <1>10, <1>11 DEF AtRest

LEMMA ListingItem ==
  ASSUME TInv, NEW h \in Handler, NEW i \in Item, Mine(h, i),
         op'[h] # op[h] => i \notin Wronged(h),
         GetItem(h) \/ RemoveItem(h) \/ Insert(h) \/ InsertFails(h) \/ Restore(h)
  PROVE  Mine(h, i)'
<1> USE DEF At
<1>1. /\ op \in [Handler -> CallType] /\ op[h].pc \in Listing
      /\ Knows(h) /\ Works(h) /\ op[h] \in CallType
  BY DEF TInv, GetItem, RemoveItem, Insert, InsertFails, Restore, Listing
<1>2. /\ op[h].auction = 0 /\ op[h].item \in Item /\ op[h].who \in Character
      /\ op[h].scan = FALSE /\ op[h].work = {}
  BY <1>1 DEF Knows, Works, Listing, ForSomeone, Scanning, CallType
<1>3. op[h].pc # "restore" => i \notin Halfway(h)
  BY <1>1 DEF Halfway, Listing
<1>4. End(h) => op'[h].pc \notin Committed /\ op'[h].work = {} /\ op'[h].pc = "idle"
  BY <1>1, EndFields, IdleType DEF Committed
<1>5. ASSUME NEW pc \in {"removeItem", "insert", "restore"}, Goto(h, pc)
      PROVE  /\ op'[h].pc = pc /\ op'[h].who = op[h].who /\ op'[h].auction = 0
             /\ op'[h].item = op[h].item /\ op'[h].work = {} /\ op'[h].scan = FALSE
  <2>1. pc \in PCs
    BY DEF PCs, Listing
  <2> QED
    BY <1>1, <1>2, <1>5, <2>1, GotoFields
<1>6. i # op[h].item => /\ ~Commits(h, i)
                        /\ Goto(h, "insert") \/ Goto(h, "restore") => ~Commits(h, i)'
  BY <1>2, <1>5 DEF Commits
<1>7. CASE GetItem(h)
  <2>1. SameItem(i)
    BY <1>7, TablesSame DEF GetItem
  <2>2. op'[h].pc \notin Committed /\ op'[h].work = {}
    BY <1>4, <1>5, <1>7 DEF GetItem, Committed
  <2> QED
    BY <1>3, <1>7, <2>1, <2>2, Stops DEF GetItem
<1>8. CASE RemoveItem(h) /\ owner[op[h].item] = op[h].who
  <2>1. /\ AddItem(Market, op[h].item) /\ Goto(h, "insert") /\ Tables /\ Money
        /\ NoPayment
    BY <1>8 DEF RemoveItem, Money, NoPayment
  <2>2. SameRows(i)
    BY <2>1, TablesSame
  <2>3. AtRest(i)
    BY <1>3, <1>8, Resting DEF RemoveItem
  <2>4. owner \in [Item -> Character \cup {Market}]
    BY DEF TInv
  <2>5. CASE i = op[h].item
    <3>1. owner'[i] = Market /\ owner[i] = op[h].who /\ op[h].who # Market
      BY <1>2, <1>8, <2>1, <2>4, <2>5, MarketAssumption DEF AddItem
    <3>2. Balanced(i)'
      BY <2>1, <2>2, <2>3, NothingPaid, BalancedSame DEF AtRest
    <3>3. \A a \in Of(i) : ~OnOffer(a)
                           /\ (Last(a) /\ auctions[a].status = "sold"
                                 => auctions[a].sales[1].buyer = op[h].who)
      BY <2>3, <3>1 DEF AtRest, Placed
    <3>4. /\ Of(i)' = Of(i)
          /\ \A a \in Of(i) : /\ ~OnOffer(a)' /\ (Last(a)' <=> Last(a))
                              /\ auctions'[a].status = auctions[a].status
                              /\ auctions'[a].sales = auctions[a].sales
      BY <2>2, <3>3, RowFacts DEF SameRows
    <3>5. /\ op'[h].pc = "insert" /\ op'[h].who = op[h].who /\ op'[h].auction = 0
          /\ op'[h].item = i /\ op'[h].work = {}
      BY <1>5, <2>1, <2>5
    <3>6. ListingPhase(h, i)'
      BY <3>1, <3>2, <3>3, <3>4, <3>5 DEF ListingPhase
    <3>7. Commits(h, i)' /\ Phase(h, i)'
      BY <3>5, <3>6 DEF Commits, Committed, Phase, Selling, Bidding
    <3> QED
      BY <2>2, <3>5, <3>7, Proceeds
  <2>6. CASE i # op[h].item
    <3>1. owner'[i] = owner[i]
      BY <2>1, <2>4, <2>6 DEF AddItem
    <3>2. SameItem(i)
      BY <2>1, <2>2, <3>1 DEF SameItem, SameBooks, NoPayment
    <3>3. op'[h].work = {} /\ ~Commits(h, i)'
      BY <1>5, <1>6, <2>1, <2>6
    <3> QED
      BY <2>3, <3>2, <3>3, Rests
  <2> QED
    BY <2>5, <2>6
<1>9. CASE RemoveItem(h) /\ owner[op[h].item] # op[h].who
  <2>1. SameItem(i) /\ End(h)
    BY <1>9, TablesSame DEF RemoveItem
  <2> QED
    BY <1>3, <1>4, <1>9, <2>1, Stops DEF RemoveItem
<1>10. ASSUME op[h].pc = "insert", Len(auctions) < MaxAuctions,
              auctions' = Append(auctions, NewAuction(h)),
              NoPayment, owner' = owner, End(h) \/ Goto(h, "restore")
       PROVE  Mine(h, i)'
  <2>1. /\ op'[h].pc \in {"idle", "restore"} /\ op'[h].work = {}
        /\ op'[h].pc = "restore" => op'[h].who = op[h].who /\ op'[h].item = op[h].item
                                    /\ op'[h].auction = 0
    BY <1>4, <1>5, <1>10
  <2>2. CASE i # op[h].item
    <3>1. SameItem(i) /\ AtRest(i)
      BY <1>3, <1>6, <1>10, <2>2, NewRow DEF SameItem, SameBooks, NoPayment, Mine
    <3>2. ~Commits(h, i)'
      BY <1>4, <1>6, <1>10, <2>2, NotCommitted
    <3> QED
      BY <2>1, <3>1, <3>2, Rests
  <2>3. CASE i = op[h].item
    <3>1. /\ Sane(i)' /\ AtRest(i)' /\ owner'[i] = Market
          /\ \A a \in Of(i)' : Last(a)' => auctions'[a].status = "active"
      BY <1>10, <2>3, Listed
    <3>2. WorkPhase(h, i)'
      BY <2>1 DEF WorkPhase
    <3>3. CASE op'[h].pc = "idle"
      BY <2>1, <3>1, <3>3, Settles DEF Committed
    <3>4. CASE op'[h].pc = "restore"
      <4>1. ListingPhase(h, i)'
        BY <3>1, <3>4 DEF ListingPhase, AtRest
      <4>2. Commits(h, i)' /\ Phase(h, i)'
        BY <2>1, <2>3, <3>4, <4>1 DEF Commits, Committed, Phase, Selling, Bidding
      <4> QED
        BY <3>1, <3>2, <4>2 DEF Mine
    <3> QED
      BY <2>1, <3>3, <3>4
  <2> QED
    BY <2>2, <2>3
<1>11. CASE Insert(h)
  BY <1>10, <1>11 DEF Insert, Money, NoPayment
<1>12. CASE InsertFails(h) /\ auctions' # auctions
  BY <1>10, <1>12 DEF InsertFails, Money, NoPayment
<1>13. CASE InsertFails(h) /\ auctions' = auctions
  <2>1. Goto(h, "restore") /\ SameItem(i) /\ SameRows(i) /\ op[h].pc = "insert"
    BY <1>13, TablesSame DEF InsertFails, Tables, SameItem, SameBooks, NoPayment
  <2>2. /\ op'[h].pc = "restore" /\ op'[h].who = op[h].who /\ op'[h].auction = 0
        /\ op'[h].item = op[h].item /\ op'[h].work = {}
    BY <1>5, <2>1
  <2>3. CASE i # op[h].item
    BY <1>6, <2>1, <2>2, <2>3, Rests DEF Mine
  <2>4. CASE i = op[h].item
    <3>1. ListingPhase(h, i)
      BY <1>2, <2>1, <2>4 DEF Mine, Commits, Committed, Phase, Listing
    <3>2. Balanced(i)' /\ owner'[i] = Market
      BY <2>1, <3>1, BalancedSame DEF ListingPhase, SameItem, SameBooks, NoPayment
    <3>3. /\ Of(i)' = Of(i)
          /\ \A a \in Of(i) : /\ (Last(a)' <=> Last(a))
                              /\ auctions'[a].status = auctions[a].status
                              /\ auctions'[a].sales = auctions[a].sales
      BY <2>1, RowFacts DEF SameRows
    <3>4. owner[i] = Market
      BY <2>1, <3>1 DEF ListingPhase
    <3>5. ListingPhase(h, i)'
      BY <2>2, <3>1, <3>2, <3>3, <3>4 DEF ListingPhase
    <3>6. Commits(h, i)' /\ Phase(h, i)'
      BY <2>2, <2>4, <3>5 DEF Commits, Committed, Phase, Selling, Bidding
    <3> QED
      BY <2>1, <2>2, <3>6, Proceeds
  <2> QED
    BY <2>3, <2>4
<1>14. CASE Restore(h)
  <2>1. /\ End(h) /\ Tables /\ Money /\ AddItem(op[h].who, op[h].item) /\ SameRows(i)
        /\ op[h].pc = "restore" /\ NoPayment
        /\ owner \in [Item -> Character \cup {Market}]
    BY <1>14, TablesSame DEF Restore, Money, NoPayment, TInv
  <2>2. op'[h].work = {} /\ op'[h].pc = "idle" /\ op'[h].pc \notin Committed
    BY <1>4, <2>1
  <2>3. CASE i # op[h].item
    <3>1. SameItem(i)
      BY <2>1, <2>3 DEF SameItem, SameBooks, NoPayment, AddItem
    <3> QED
      BY <1>6, <2>2, <2>3, <3>1, Rests, NotCommitted DEF Mine
  <2>4. CASE i = op[h].item
    <3>1. ListingPhase(h, i) /\ Sane(i)
      BY <1>2, <2>1, <2>4 DEF Mine, Commits, Committed, Phase, Listing
    <3>2. i \notin Wronged(h)
      BY <2>1, <2>2
    <3>3. owner[i] \in {Market, op[h].who} /\ \A a \in Of(i) : ~OnOffer(a)
      BY <2>1, <2>4, <3>2 DEF Wronged, OnOffer
    <3>4. owner'[i] = op[h].who
      BY <2>1, <2>4 DEF AddItem
    <3>5. AtRest(i)'
      BY <1>2, <2>1, <3>1, <3>3, <3>4, NothingPaid, Given DEF ListingPhase
    <3> QED
      BY <2>1, <2>2, <3>1, <3>5, SaneSame, Settles
  <2> QED
    BY <2>3, <2>4
<1> QED
  BY <1>7, <1>8, <1>9, <1>11, <1>12, <1>13, <1>14

\* There is one last listing.
LEMMA OneLast ==
  ASSUME TInv, NEW i \in Item, NEW a \in Of(i), NEW b \in Of(i), Last(a), Last(b)
  PROVE  a = b
<1>1. auctions[a].item = i /\ auctions[b].item = i /\ a \in Nat /\ b \in Nat
  BY DEF Of, Auctions, TInv, Rows
<1>2. a <= b /\ b <= a
  BY <1>1 DEF Last
<1> QED
  BY <1>1, <1>2

\* The rows of the items that a statement on one row does not concern.
LEMMA OtherRows ==
  ASSUME TInv, NEW a \in Auctions, Auctions' = Auctions,
         auctions'[a].item = auctions[a].item,
         \A b \in Auctions : b # a => auctions'[b] = auctions[b], NEW i \in Item
  PROVE  /\ Of(i)' = Of(i)
         /\ auctions[a].item # i => SameRows(i)
         /\ \A b \in Of(i) : b # a => auctions'[b] = auctions[b]
<1>1. Of(i)' = {b \in Auctions' : auctions'[b].item = i}
  BY DEF Of
<1>2. Of(i)' = Of(i)
  BY <1>1 DEF Of
<1>3. \A b \in Of(i) : b # a => auctions'[b] = auctions[b]
  BY DEF Of
<1>4. auctions[a].item # i => SameRows(i)
  BY <1>2 DEF SameRows, Of
<1> QED
  BY <1>2, <1>3, <1>4

\* A listing is on offer no longer, and its books are balanced as the others' are.
LEMMA Closed ==
  ASSUME TInv, NEW i \in Item, Sane(i), NEW a \in Of(i), OnOffer(a), Of(i)' = Of(i),
         \A b \in Of(i) : b # a => auctions'[b] = auctions[b],
         auctions'[a].item = i, auctions'[a].status # "active",
         auctions'[a].bids = auctions[a].bids,
         auctions'[a].status = "sold" <=> Len(auctions'[a].sales) = 1,
         Len(auctions'[a].sales) <= 1, NoPayment, OthersBalanced(i, a), Books(a, 0)'
  PROVE  /\ Sane(i)' /\ Balanced(i)' /\ Last(a) /\ Last(a)'
         /\ \A b \in Of(i) : ~OnOffer(b)' /\ (Last(b)' => b = a)
<1>1. \A b \in Of(i) : auctions[b].item = i /\ auctions'[b].item = i
  BY DEF Of
<1>2. \A b \in Of(i) : Last(b)' <=> Last(b)
  BY <1>1 DEF Last
<1>3. Last(a)
  BY DEF Sane
<1>4. \A b \in Of(i) : Last(b)' => b = a
  BY <1>2, <1>3, OneLast
<1>5. \A b \in Of(i) : ~OnOffer(b)'
  <2>1. \A b \in Of(i) : b # a => ~OnOffer(b)
    BY OneOffer
  <2> QED
    BY <2>1 DEF OnOffer
<1>6. ASSUME NEW b \in Of(i)
      PROVE  Record(b)'
  <2>1. Record(b) /\ auctions'[b].bids = auctions[b].bids
    BY DEF Sane
  <2>2. Winning(b)' = Winning(b)
    BY <2>1 DEF Winning, Bid
  <2>3. CASE b = a
    BY <2>1, <2>2, <2>3 DEF Record
  <2>4. CASE b # a
    <3>1. auctions'[b] = auctions[b]
      BY <2>4
    <3> QED
      BY <2>1, <2>2, <3>1 DEF Record
  <2> QED
    BY <2>3, <2>4
<1>7. Sane(i)'
  BY <1>2, <1>3, <1>5, <1>6 DEF Sane
<1>8. Balanced(i)'
  <2>1. ASSUME NEW b \in Of(i), b # a
        PROVE  Books(b, 0)'
    <3>1. Books(b, 0) /\ Rightful(b)' = Rightful(b) /\ Kept(b)' = Kept(b)
      BY <2>1, RightfulSame DEF OthersBalanced, Kept, NoPayment
    <3> QED
      BY <3>1 DEF Books
  <2> QED
    BY <2>1 DEF Balanced
<1> QED
  BY <1>2, <1>3, <1>4, <1>5, <1>7, <1>8

\* A listing that nobody has bid on is withdrawn.
LEMMA Withdrawn ==
  ASSUME TInv, NEW i \in Item, Sane(i), AtRest(i), NEW a \in Of(i), OnOffer(a),
         Winning(a) = {}, Of(i)' = Of(i),
         \A b \in Of(i) : b # a => auctions'[b] = auctions[b],
         auctions'[a].item = i, auctions'[a].status \in {"cancelled", "expired"},
         auctions'[a].bids = auctions[a].bids, auctions'[a].sales = auctions[a].sales,
         NoPayment, owner'[i] = owner[i]
  PROVE  Sane(i)' /\ AtRest(i)' /\ \A b \in Of(i)' : b <= a
<1>1. \A b \in Of(i) : OnOffer(b) => b = a
  BY OneOffer
<1>2. OthersBalanced(i, a) /\ Books(a, 0)'
  <2>1. Balanced(i)
    BY DEF AtRest
  <2>2. Rightful(a) = {0} /\ Rightful(a)' = {0}
    <3>1. Winning(a)' = Winning(a)
      BY DEF Winning, Bid
    <3> QED
      BY <3>1 DEF Rightful, OnOffer
  <2>3. Kept(a)' = Kept(a)
    BY DEF Kept, NoPayment
  <2> QED
    BY <2>1, <2>2, <2>3 DEF Balanced, OthersBalanced, Books
<1>3. auctions'[a].status # "active" /\ auctions'[a].status # "sold"
  OBVIOUS
<1>4. Len(auctions'[a].sales) # 1 /\ Len(auctions'[a].sales) <= 1
  BY DEF Sane, Record, OnOffer
<1>5. /\ Sane(i)' /\ Balanced(i)' /\ Last(a)'
      /\ \A b \in Of(i) : ~OnOffer(b)' /\ (Last(b)' => b = a)
  BY <1>2, <1>3, <1>4, Closed
<1>6. Placed(i)'
  BY <1>3, <1>5 DEF Placed
<1>7. \A b \in Of(i)' : b <= a
  BY <1>5 DEF Last
<1> QED
  BY <1>5, <1>6, <1>7 DEF AtRest

\* What a call of the market on a row has, that is no scan.
LEMMA AlonePcs ==
  ASSUME TInv, NEW h \in Handler, op[h].pc \in OnRow, op[h].pc \notin Scanning
  PROVE  /\ op \in [Handler -> CallType] /\ op[h] \in CallType /\ Knows(h) /\ Rows
         /\ op[h].auction \in Auctions /\ op[h].auction # 0
         /\ op[h].who \in Character /\ op[h].scan = FALSE /\ op[h].work = {}
         /\ ItemOf(h) \in Item /\ op[h].auction \in Of(ItemOf(h))
<1>1. /\ op \in [Handler -> CallType] /\ op[h] \in CallType /\ Knows(h) /\ Works(h) /\ Rows
  BY DEF TInv
<1>2. op[h].auction \in Auctions /\ op[h].auction # 0 /\ op[h].who \in Character
  BY <1>1 DEF Knows, ForSomeone, Scanning, Auctions
<1>3. op[h].scan = FALSE
  BY <1>1 DEF Works, CallType, OnRow, Cancelling, Selling, Bidding
<1>4. op[h].work = {}
  BY <1>1, <1>3 DEF Works, OnRow, Cancelling, Selling, Bidding
<1>5. ItemOf(h) \in Item /\ op[h].auction \in Of(ItemOf(h))
  BY <1>1, <1>2, RowType DEF ItemOf, Of
<1> QED
  BY <1>1, <1>2, <1>3, <1>4, <1>5

\* An item is the one of a committed call on a row if it is the row's.
LEMMA OnItem ==
  ASSUME TInv, NEW h \in Handler, NEW i \in Item, op[h].auction # 0
  PROVE  Commits(h, i) <=> op[h].pc \in Committed /\ i = ItemOf(h)
BY DEF Commits

LEMMA OnItemNext ==
  ASSUME NEW h \in Handler, NEW i \in Item, op'[h].auction # 0,
         auctions'[op'[h].auction].item = i
  PROVE  Commits(h, i)' <=> op'[h].pc \in Committed
BY DEF Commits, ItemOf

LEMMA OffItemNext ==
  ASSUME NEW h \in Handler, NEW i \in Item, op'[h].auction # 0,
         auctions'[op'[h].auction].item # i
  PROVE  ~Commits(h, i)'
BY DEF Commits, ItemOf

LEMMA CancellingItem ==
  ASSUME TInv, NEW h \in Handler, NEW i \in Item, Mine(h, i),
         CancelListing(h) \/ CancelBids(h) \/ Cancel(h) \/ Return(h)
  PROVE  Mine(h, i)'
<1> USE DEF At
<1> DEFINE a == op[h].auction
<1>1. op[h].pc \in Cancelling /\ op[h].pc \in OnRow /\ op[h].pc \notin Scanning
  BY DEF CancelListing, CancelBids, Cancel, Return, Cancelling, OnRow, Scanning
<1>2. /\ op \in [Handler -> CallType] /\ Rows /\ a \in Auctions /\ a # 0
      /\ op[h].who \in Character /\ op[h].scan = FALSE /\ op[h].work = {}
      /\ a \in Of(ItemOf(h)) /\ auctions[a].item = ItemOf(h)
  BY <1>1, AlonePcs DEF ItemOf
<1>3. i \notin Halfway(h) /\ AtRest(i)
  <2>1. i \notin Halfway(h) /\ op[h].pc # "insert"
    BY <1>1 DEF Halfway, Cancelling
  <2> QED
    BY <2>1, Resting
<1>4. End(h) => op'[h].pc \notin Committed /\ op'[h].work = {}
  BY <1>2, EndFields, IdleType DEF Committed
<1>5. ASSUME NEW pc \in {"cancelBids", "cancel", "return"}, Goto(h, pc)
      PROVE  op'[h].pc = pc /\ op'[h].auction = a /\ op'[h].work = {}
  <2>1. pc \in PCs
    BY DEF PCs, Cancelling
  <2> QED
    BY <1>2, <1>5, <2>1, GotoFields
<1>6. ASSUME SameItem(i), End(h) \/ Goto(h, "cancelBids")
      PROVE  Mine(h, i)'
  <2>1. op'[h].pc \notin Committed /\ op'[h].work = {}
    BY <1>4, <1>5, <1>6 DEF Committed
  <2> QED
    BY <1>1, <1>3, <1>6, <2>1, Stops DEF Cancelling
<1>7. ASSUME Tables, Money, UNCHANGED owner, Goto(h, "cancel"), auctions[a].bids = <<>>
      PROVE  Mine(h, i)'
  <2>1. SameItem(i) /\ SameRows(i) /\ AtRest(i)' /\ auctions' = auctions
    BY <1>3, <1>7, TablesSame, RestSame DEF Tables, SameItem, SameBooks, NoPayment
  <2>2. op'[h].pc = "cancel" /\ op'[h].auction = a /\ op'[h].work = {}
    BY <1>5, <1>7
  <2>3. CASE i = ItemOf(h)
    <3>1. EndingPhase(h, i)'
      BY <1>7, <2>1, <2>2 DEF EndingPhase
    <3>2. Commits(h, i)' /\ Phase(h, i)'
      BY <1>2, <2>1, <2>2, <2>3, <3>1, OnItemNext DEF Phase, Committed, Listing, Selling, Bidding
    <3> QED
      BY <2>1, <2>2, <3>2, Proceeds
  <2>4. CASE i # ItemOf(h)
    <3>1. ~Commits(h, i)'
      BY <1>2, <2>1, <2>2, <2>4, OffItemNext
    <3> QED
      BY <1>3, <2>1, <2>2, <3>1, Rests
  <2> QED
    BY <2>3, <2>4
<1>8. CASE CancelListing(h)
  <2>1. Tables /\ Money /\ UNCHANGED owner /\ SameItem(i)
    BY <1>8, TablesSame DEF CancelListing
  <2>2. \/ End(h) \/ Goto(h, "cancelBids")
        \/ Goto(h, "cancel") /\ auctions[a].bids = <<>>
    BY <1>2, <1>8 DEF CancelListing, Rows
  <2> QED
    BY <1>6, <1>7, <2>1, <2>2
<1>9. CASE CancelBids(h)
  <2>1. Tables /\ Money /\ UNCHANGED owner /\ SameItem(i)
    BY <1>9, TablesSame DEF CancelBids
  <2>2. \/ End(h)
        \/ Goto(h, "cancel") /\ auctions[a].bids = <<>>
    BY <1>9 DEF CancelBids
  <2> QED
    BY <1>6, <1>7, <2>1, <2>2
<1>10. CASE Cancel(h) /\ ~Active(h)
  <2>1. SameItem(i) /\ End(h)
    BY <1>10, TablesSame DEF Cancel, Tables
  <2> QED
    BY <1>6, <2>1
<1>11. CASE Cancel(h) /\ Active(h)
  <2>1. SetStatus(a, "cancelled") /\ Goto(h, "return") /\ NoPayment /\ owner' = owner
    BY <1>11 DEF Cancel, Money, NoPayment
  <2>2. /\ Auctions' = Auctions /\ auctions'[a].status = "cancelled"
        /\ auctions'[a].item = ItemOf(h) /\ auctions'[a].sales = auctions[a].sales
        /\ auctions'[a].bids = auctions[a].bids
        /\ \A b \in Auctions : b # a => auctions'[b] = auctions[b]
    BY <1>2, <2>1, StatusStep DEF Status
  <2>3. /\ Of(i)' = Of(i)
        /\ auctions[a].item # i => SameRows(i)
        /\ \A b \in Of(i) : b # a => auctions'[b] = auctions[b]
    BY <1>2, <2>2, OtherRows
  <2>4. op'[h].pc = "return" /\ op'[h].auction = a /\ op'[h].work = {}
    BY <1>5, <2>1
  <2>5. CASE i = ItemOf(h)
    <3>1. Sane(i) /\ EndingPhase(h, i)
      BY <1>2, <1>11, <2>5, OnItem DEF Cancel, Mine, Phase, Committed
    <3>2. auctions[a].bids = <<>>
      BY <1>11, <3>1 DEF Cancel, EndingPhase
    <3>3. OnOffer(a) /\ Winning(a) = {}
      BY <1>11, <3>2 DEF Active, OnOffer, Winning
    <3>4. Sane(i)' /\ AtRest(i)' /\ \A b \in Of(i)' : b <= a
      BY <1>2, <1>3, <2>1, <2>2, <2>3, <2>5, <3>1, <3>3, Withdrawn
    <3>5. EndingPhase(h, i)'
      BY <2>2, <2>4, <2>5, <3>4 DEF EndingPhase, Last
    <3>6. Commits(h, i)' /\ Phase(h, i)'
      BY <1>2, <2>2, <2>4, <2>5, <3>5, OnItemNext DEF Phase, Committed, Listing, Selling, Bidding
    <3>7. WorkPhase(h, i)'
      BY <2>4 DEF WorkPhase
    <3> QED
      BY <3>4, <3>6, <3>7 DEF Mine
  <2>6. CASE i # ItemOf(h)
    <3>1. SameItem(i)
      BY <1>2, <2>1, <2>3, <2>6 DEF SameItem, SameBooks, NoPayment
    <3>2. ~Commits(h, i)'
      BY <1>2, <2>2, <2>4, <2>6, OffItemNext
    <3> QED
      BY <1>3, <2>4, <3>1, <3>2, Rests
  <2> QED
    BY <2>5, <2>6
<1>12. CASE Return(h)
  <2>1. /\ End(h) /\ AddItem(op[h].who, ItemOf(h)) /\ SameRows(i) /\ NoPayment
        /\ owner \in [Item -> Character \cup {Market}]
    BY <1>12, TablesSame DEF Return, Money, NoPayment, TInv
  <2>2. op'[h].pc \notin Committed /\ op'[h].work = {}
    BY <1>4, <2>1
  <2>3. CASE i # ItemOf(h)
    BY <1>6, <2>1, <2>3 DEF SameItem, SameBooks, NoPayment, AddItem
  <2>4. CASE i = ItemOf(h)
    <3>1. Sane(i) /\ EndingPhase(h, i)
      BY <1>2, <1>12, <2>4, OnItem DEF Return, Mine, Phase, Committed
    <3>2. Last(a) /\ auctions[a].status = "cancelled"
      BY <1>12, <3>1 DEF Return, EndingPhase
    <3>3. \A b \in Of(i) : Last(b) => b = a
      BY <1>2, <2>4, <3>2, OneLast
    <3>4. \A b \in Of(i) : ~OnOffer(b) /\ ~(Last(b) /\ auctions[b].status = "sold")
      BY <3>1, <3>2, <3>3 DEF Sane, OnOffer
    <3>5. owner'[i] = op[h].who
      BY <2>1, <2>4 DEF AddItem
    <3>6. AtRest(i)'
      BY <1>2, <1>3, <2>1, <3>4, <3>5, NothingPaid, Given DEF AtRest
    <3> QED
      BY <2>1, <2>2, <3>1, <3>6, SaneSame, Settles
  <2> QED
    BY <2>3, <2>4
<1> QED
  BY <1>8, <1>9, <1>10, <1>11, <1>12

\* Credits that move for a listing, or are to move, are booked on it, and on no
\* other.
LEMMA Booked ==
  ASSUME TInv, NEW c \in Character, NEW x \in Int, NEW a \in Auctions,
         AddCredits(c, x, a) \/ PayOut(c, x, a)
  PROVE  /\ Kept(a) \in Int /\ Kept(a)' = Kept(a) + -x
         /\ \A b \in Auctions : b # a => ledger'[b] = ledger[b] /\ refused'[b] = refused[b]
<1>1. /\ a \in 1 .. MaxAuctions /\ Auctions \subseteq 1 .. MaxAuctions
      /\ ledger \in [1 .. MaxAuctions -> Int] /\ refused \in [1 .. MaxAuctions -> Nat]
  BY AccountType DEF Accounts
<1>2. ledger[a] \in Int /\ refused[a] \in Int
  BY <1>1
<1>3. CASE AddCredits(c, x, a)
  <2>1. ledger' = [ledger EXCEPT ![a] = ledger[a] - x] /\ refused' = refused
    BY <1>3 DEF AddCredits
  <2>2. ledger'[a] = ledger[a] - x /\ refused'[a] = refused[a]
    BY <1>1, <2>1
  <2> QED
    BY <1>1, <1>2, <2>1, <2>2 DEF Kept
<1>4. CASE refused' = [refused EXCEPT ![a] = @ + x] /\ UNCHANGED <<credits, ledger>>
  <2>1. ledger'[a] = ledger[a] /\ refused'[a] = refused[a] + x
    BY <1>1, <1>4
  <2> QED
    BY <1>1, <1>2, <1>4, <2>1 DEF Kept
<1> QED
  BY <1>3, <1>4 DEF PayOut

\* A commission stays where it is.
LEMMA CommissionKept ==
  ASSUME NEW i \in Item, NEW a, auctions' = auctions, NoPayment
  PROVE  /\ \A p : HasCommission(a, p) => HasCommission(a, p)'
         /\ OthersBalanced(i, a) => OthersBalanced(i, a)'
<1>1. SameRows(i) /\ SameBooks(i)
  BY NothingPaid DEF SameRows, Of, Auctions
<1>2. Kept(a)' = Kept(a)
  BY DEF Kept, NoPayment
<1> QED
  BY <1>1, <1>2, BalancedSame DEF HasCommission

\* A payment for a listing is nothing to the books of the others, nor to those of
\* another item.
LEMMA OthersBooked ==
  ASSUME TInv, NEW a \in Auctions, auctions' = auctions,
         \A b \in Auctions : b # a => ledger'[b] = ledger[b] /\ refused'[b] = refused[b],
         NEW i \in Item
  PROVE  /\ auctions[a].item # i => SameBooks(i)
         /\ OthersBalanced(i, a) => OthersBalanced(i, a)'
<1>1. SameRows(i) /\ Of(i)' = Of(i) /\ Of(i) \subseteq Auctions
  BY DEF SameRows, Of, Auctions
<1>2. auctions[a].item # i => SameBooks(i)
  BY <1>1 DEF SameBooks, Of
<1>3. ASSUME OthersBalanced(i, a), NEW b \in Of(i), b # a
      PROVE  Books(b, 0)'
  <2>1. Books(b, 0) /\ ledger'[b] = ledger[b] /\ refused'[b] = refused[b]
    BY <1>1, <1>3 DEF OthersBalanced
  <2> QED
    BY <1>1, <2>1, BooksSame
<1> QED
  BY <1>1, <1>2, <1>3 DEF OthersBalanced

\* What a call on a row does to the items of other rows is nothing.
LEMMA Elsewhere ==
  ASSUME TInv, NEW h \in Handler, NEW i \in Item, Mine(h, i), SameItem(i), Grows,
         op[h].auction \in Auctions, i # ItemOf(h),
         op'[h].auction = op[h].auction \/ op'[h].pc \notin Committed,
         op'[h].work \subseteq op[h].work,
         op'[h].work # {} => op'[h].scan = op[h].scan
  PROVE  Mine(h, i)'
<1>1. op[h].auction # 0
  BY DEF Auctions
<1>2. ~Commits(h, i)
  BY <1>1, OnItem
<1>3. auctions'[op[h].auction].item # i
  BY DEF Grows, ItemOf
<1>4. ~Commits(h, i)'
  BY <1>1, <1>3, OffItemNext, NotCommitted
<1> QED
  BY <1>2, <1>4, Rests DEF Mine

\* What a sale has in hand.
LEMMA SalePcs ==
  ASSUME TInv, NEW h \in Handler, op[h].pc \in Selling \cup Bidding
  PROVE  /\ op \in [Handler -> CallType] /\ Rows /\ Knows(h)
         /\ op[h].auction \in Auctions /\ op[h].auction # 0 /\ op[h].pc \notin Listing
         /\ op[h].who \in Character /\ op[h].who # Market
         /\ ItemOf(h) \in Item /\ op[h].auction \in Of(ItemOf(h)) /\ SellerOf(h) \in Character
         /\ auctions[op[h].auction].item = ItemOf(h)
<1>1. op \in [Handler -> CallType] /\ Knows(h) /\ Rows
  BY DEF TInv
<1>2. op[h].pc \in OnRow /\ op[h].pc \in ForSomeone /\ op[h].pc \notin Listing
  BY DEF OnRow, ForSomeone, Selling, Bidding, Listing
<1>3. op[h].auction \in Auctions /\ op[h].auction # 0 /\ op[h].who \in Character
  BY <1>1, <1>2 DEF Knows, Auctions
<1>4. ItemOf(h) \in Item /\ op[h].auction \in Of(ItemOf(h)) /\ SellerOf(h) \in Character
  BY <1>1, <1>3, RowType DEF ItemOf, SellerOf, Of
<1> QED
  BY <1>1, <1>2, <1>3, <1>4, MarketAssumption DEF ItemOf

LEMMA InstantBuyItem ==
  ASSUME TInv, NEW h \in Handler, NEW i \in Item, Mine(h, i), InstantBuy(h)
  PROVE  Mine(h, i)'
<1> USE DEF At
<1> DEFINE a == op[h].auction
<1>1. /\ op \in [Handler -> CallType] /\ Rows /\ a \in Auctions /\ a # 0
      /\ op[h] \in CallType /\ op[h].work = {} /\ op[h].pc = "instantBuy"
      /\ a \in Of(ItemOf(h)) /\ auctions[a].item = ItemOf(h)
  BY AlonePcs DEF InstantBuy, OnRow, Scanning, ItemOf
<1>2. SameItem(i) /\ SameRows(i) /\ auctions' = auctions
  BY TablesSame DEF InstantBuy, Tables
<1>3. AtRest(i) /\ AtRest(i)'
  <2>1. ~Commits(h, i)
    BY <1>1 DEF Commits, Committed
  <2> QED
    BY <1>2, <2>1, RestSame DEF Mine
<1>4. CASE End(h)
  <2>1. op'[h].pc \notin Committed /\ op'[h].work = {}
    BY <1>1, <1>4, EndFields, IdleType DEF Committed
  <2> QED
    BY <1>2, <1>3, <2>1, Rests, NotCommitted
<1>5. CASE ~End(h)
  <2> DEFINE l == auctions[a]
             p == IF l.isAuction THEN l.instantSalePrice ELSE l.price
             r == [op[h] EXCEPT !.pc = "pay", !.price = p]
  <2>1. op' = [op EXCEPT ![h] = r] /\ OnOffer(a) /\ auctions[a].seller # op[h].who
    BY <1>5 DEF InstantBuy, OnOffer, Active
  <2>2. p \in Price
    BY <1>1, RowType DEF Rows
  <2> HIDE DEF p
  <2>3. r \in CallType /\ r.pc = "pay" /\ r.auction = a /\ r.work = op[h].work
    BY <1>1, <2>2 DEF CallType, PCs, Selling
  <2> HIDE DEF r
  <2>4. op'[h].pc = "pay" /\ op'[h].auction = a /\ op'[h].work = {}
    BY <1>1, <2>1, <2>3, ReplaceCall
  <2>5. CASE i = ItemOf(h)
    <3>1. OthersBalanced(i, a)'
      BY <1>3 DEF AtRest, Balanced, OthersBalanced
    <3>2. SellingPhase(h, i)'
      BY <1>2, <1>3, <2>1, <2>4, <3>1 DEF SellingPhase, OnOffer
    <3>3. Commits(h, i)' /\ Phase(h, i)'
      BY <1>1, <1>2, <2>4, <2>5, <3>2, OnItemNext DEF Phase, Committed, Listing, Bidding
    <3> QED
      BY <1>2, <2>4, <3>3, Proceeds
  <2>6. CASE i # ItemOf(h)
    <3>1. ~Commits(h, i)'
      BY <1>1, <1>2, <2>4, <2>6, OffItemNext
    <3> QED
      BY <1>2, <1>3, <2>4, <3>1, Rests
  <2> QED
    BY <2>5, <2>6
<1> QED
  BY <1>4, <1>5

LEMMA SellingItem ==
  ASSUME TInv, NEW h \in Handler, NEW i \in Item, Mine(h, i),
         op'[h] # op[h] => i \notin Wronged(h),
         Pay(h) \/ PaySeller(h) \/ Deliver(h) \/ SaleRead(h) \/ SaleWrite(h)
  PROVE  Mine(h, i)'
<1> USE DEF At
<1>0. PICK a, p : a = op[h].auction /\ p = op[h].price
  OBVIOUS
<1> USE <1>0
<1>1. op[h].pc \in Selling /\ op[h].pc \in Committed
  BY DEF Pay, PaySeller, Deliver, SaleRead, SaleWrite, Selling, Committed
<1>2. /\ op \in [Handler -> CallType] /\ Rows /\ Knows(h) /\ a \in Auctions /\ a # 0
      /\ op[h].who \in Character /\ op[h].who # Market /\ SellerOf(h) \in Character
      /\ ItemOf(h) \in Item /\ a \in Of(ItemOf(h)) /\ auctions[a].item = ItemOf(h)
  BY <1>1, SalePcs
<1>3. ASSUME NEW pc \in {"paySeller", "deliver", "saleRead", "saleWrite", "nextDue"}, Goto(h, pc)
      PROVE  /\ op'[h].pc = pc /\ op'[h].auction = a /\ op'[h].work = op[h].work
             /\ op'[h].scan = op[h].scan /\ op'[h].who = op[h].who /\ op'[h].price = op[h].price
  <2>1. pc \in PCs
    BY DEF PCs, Selling, Scanning
  <2> QED
    BY <1>2, <1>3, <2>1, GotoFields
<1>4. End(h) => op'[h].pc \notin Committed /\ op'[h].work = {}
  BY <1>2, EndFields, IdleType DEF Committed
<1>5. i = ItemOf(h) => SellingPhase(h, i) /\ Sane(i) /\ OnOffer(a) /\ op[h].work \cap Of(i) = {}
  <2>1. i = ItemOf(h) => Commits(h, i)
    BY <1>1, <1>2, OnItem
  <2>2. i = ItemOf(h) => SellingPhase(h, i) /\ Sane(i)
    BY <1>1, <2>1 DEF Mine, Phase
  <2> QED
    BY <2>1, <2>2, NoOther DEF SellingPhase
<1>6. ASSUME Tables, i = ItemOf(h), SellingPhase(h, i)',
             NEW pc \in {"paySeller", "deliver", "saleRead", "saleWrite"}, Goto(h, pc)
      PROVE  Mine(h, i)'
  <2>1. SameRows(i) /\ auctions' = auctions
    BY <1>6, TablesSame DEF Tables
  <2>2. op'[h].pc = pc /\ op'[h].auction = a /\ op'[h].work = op[h].work
        /\ op'[h].scan = op[h].scan
    BY <1>3, <1>6
  <2>3. Commits(h, i)' /\ Phase(h, i)'
    BY <1>2, <1>6, <2>1, <2>2, OnItemNext DEF Phase, Committed, Listing, Bidding
  <2> QED
    BY <2>1, <2>2, <2>3, Proceeds
<1>7. CASE Pay(h)
  <2>1. /\ Goto(h, "paySeller") /\ Tables /\ owner' = owner
        /\ AddCredits(op[h].who, -op[h].price, a) /\ op[h].pc = "pay"
    BY <1>7 DEF Pay
  <2>2. op[h].price \in Int /\ -op[h].price \in Int /\ - -op[h].price = op[h].price
    <3>1. op[h].price \in Price
      BY <1>1, <1>2 DEF Knows
    <3>2. op[h].price \in Int
      BY <3>1, Numbers
    <3> QED
      BY <3>2
  <2>3. /\ op'[h].pc = "paySeller" /\ op'[h].auction = a /\ op'[h].work = op[h].work
        /\ op'[h].scan = op[h].scan /\ op'[h].price = op[h].price
    BY <1>3, <2>1
  <2>4. /\ Kept(a) \in Int /\ Kept(a)' = Kept(a) + p
        /\ \A b \in Auctions : b # a => ledger'[b] = ledger[b] /\ refused'[b] = refused[b]
    BY <1>2, <2>1, <2>2, Booked
  <2>5. auctions' = auctions /\ SameRows(i) /\ Grows
    BY <2>1, TablesSame, TablesTypes DEF Tables
  <2>6. CASE i # ItemOf(h)
    <3>1. SameBooks(i)
      BY <1>2, <2>4, <2>5, <2>6, OthersBooked
    <3> QED
      BY <1>2, <2>1, <2>3, <2>5, <2>6, <3>1, Elsewhere DEF SameItem
  <2>7. CASE i = ItemOf(h)
    <3>1. i \notin Wronged(h)
      BY <2>1, <2>3
    <3>2. auctions[a].bids = <<>>
      BY <2>1, <2>7, <3>1 DEF Wronged
    <3>3. Winning(a) = {}
      BY <3>2 DEF Winning
    <3>4. AtRest(i) /\ a \in Of(i) /\ OnOffer(a) /\ Sane(i)
      BY <1>2, <1>5, <2>1, <2>7 DEF SellingPhase
    <3>5. \A b \in Of(i) : OnOffer(b) => b = a
      BY <3>4, OneOffer
    <3>6. Kept(a) = 0 /\ owner[i] = Market
      <4>1. Books(a, 0) /\ owner[i] = Market
        BY <3>4 DEF AtRest, Balanced, Placed
      <4>2. Rightful(a) = {0}
        BY <3>3, <3>4 DEF Rightful, OnOffer
      <4> QED
        BY <4>1, <4>2 DEF Books
    <3>7. Kept(a)' = p /\ OthersBalanced(i, a)'
      <4>1. OthersBalanced(i, a)
        BY <1>5, <2>7 DEF SellingPhase
      <4> QED
        BY <1>2, <2>2, <2>4, <2>5, <3>6, <4>1, OthersBooked
    <3>8. op[h].scan = FALSE
      BY <2>1 DEF TInv, Works, CallType, Scanning
    <3>9. SellingPhase(h, i)'
      BY <2>1, <2>3, <2>5, <3>4, <3>6, <3>7, <3>8 DEF SellingPhase, OnOffer
    <3> QED
      BY <1>6, <2>1, <2>7, <3>9
  <2> QED
    BY <2>6, <2>7
<1>8. CASE PaySeller(h)
  <2>1. /\ Goto(h, "deliver") /\ Tables /\ owner' = owner /\ op[h].pc = "paySeller"
    BY <1>8 DEF PaySeller
  <2>2. PICK rate \in Rate : PayOut(SellerOf(h), p - Commission(p, rate), a)
    BY <1>8 DEF PaySeller
  <2>3. /\ op'[h].pc = "deliver" /\ op'[h].auction = a /\ op'[h].work = op[h].work
        /\ op'[h].scan = op[h].scan /\ op'[h].price = p
    BY <1>3, <2>1
  <2>4. /\ Kept(a) \in Int /\ Kept(a)' = Kept(a) + -(p - Commission(p, rate))
        /\ \A b \in Auctions : b # a => ledger'[b] = ledger[b] /\ refused'[b] = refused[b]
        /\ p \in Int /\ Commission(p, rate) \in Int
    <3>1. p \in Price
      BY <1>1, <1>2 DEF Knows
    <3>2. p \in Int /\ Commission(p, rate) \in Int
      BY <3>1, Numbers, CommissionBounds
    <3> DEFINE x == p - Commission(p, rate)
    <3>3. x \in Int /\ PayOut(SellerOf(h), x, a)
      BY <2>2, <3>2
    <3> HIDE DEF x
    <3>4. /\ Kept(a) \in Int /\ Kept(a)' = Kept(a) + -x
          /\ \A b \in Auctions : b # a => ledger'[b] = ledger[b] /\ refused'[b] = refused[b]
      BY <1>2, <3>3, Booked
    <3> QED
      BY <3>2, <3>4 DEF x
  <2>5. auctions' = auctions /\ SameRows(i) /\ Grows
    BY <2>1, TablesSame, TablesTypes DEF Tables
  <2>6. CASE i # ItemOf(h)
    <3>1. SameBooks(i)
      BY <1>2, <2>4, <2>5, <2>6, OthersBooked
    <3> QED
      BY <1>2, <2>1, <2>3, <2>5, <2>6, <3>1, Elsewhere DEF SameItem
  <2>7. CASE i = ItemOf(h)
    <3>1. Kept(a) = p /\ owner[i] = Market /\ OnOffer(a) /\ OthersBalanced(i, a)
      BY <1>5, <2>1, <2>7 DEF SellingPhase
    <3>2. HasCommission(a, p)' /\ OthersBalanced(i, a)'
      <4>1. Kept(a)' = Commission(p, rate)
        BY <2>4, <3>1
      <4> QED
        BY <1>2, <2>3, <2>4, <2>5, <3>1, <4>1, OthersBooked DEF HasCommission
    <3>3. SellingPhase(h, i)'
      BY <2>1, <2>3, <2>5, <3>1, <3>2 DEF SellingPhase, OnOffer
    <3> QED
      BY <1>6, <2>1, <2>7, <3>3
  <2> QED
    BY <2>6, <2>7
<1>9. CASE Deliver(h)
  <2>1. /\ Goto(h, "saleRead") /\ Tables /\ NoPayment
        /\ AddItem(op[h].who, ItemOf(h)) /\ op[h].pc = "deliver"
        /\ owner \in [Item -> Character \cup {Market}]
    BY <1>9 DEF Deliver, Money, NoPayment, TInv
  <2>2. /\ op'[h].pc = "saleRead" /\ op'[h].auction = a /\ op'[h].work = op[h].work
        /\ op'[h].scan = op[h].scan /\ op'[h].who = op[h].who /\ op'[h].price = op[h].price
    BY <1>3, <2>1
  <2>3. auctions' = auctions /\ SameRows(i) /\ Grows
    BY <2>1, TablesSame, TablesTypes DEF Tables
  <2>4. owner'[i] = IF i = ItemOf(h) THEN op[h].who ELSE owner[i]
    BY <2>1 DEF AddItem
  <2>5. CASE i # ItemOf(h)
    BY <1>2, <2>1, <2>2, <2>3, <2>4, <2>5, Elsewhere DEF SameItem, SameBooks, NoPayment
  <2>6. CASE i = ItemOf(h)
    <3>1. OnOffer(a) /\ HasCommission(a, p)' /\ OthersBalanced(i, a)'
      BY <1>2, <1>5, <2>1, <2>3, <2>6, CommissionKept DEF SellingPhase
    <3>2. SellingPhase(h, i)'
      BY <2>2, <2>3, <2>4, <2>6, <3>1 DEF SellingPhase, OnOffer
    <3> QED
      BY <1>6, <2>1, <2>6, <3>2
  <2> QED
    BY <2>5, <2>6
<1>10. CASE SaleRead(h)
  <2>1. SameItem(i) /\ SameRows(i) /\ Grows /\ Tables /\ auctions' = auctions
        /\ owner' = owner /\ NoPayment /\ op[h].pc = "saleRead"
    BY <1>10, TablesSame, TablesTypes DEF SaleRead, Tables, Money, NoPayment
  <2>2. CASE i # ItemOf(h)
    <3>1. Goto(h, "saleWrite") \/ Goto(h, "nextDue") \/ End(h)
      BY <1>10 DEF SaleRead, AfterSale
    <3>2. /\ op'[h].auction = a \/ op'[h].pc \notin Committed
          /\ op'[h].work \subseteq op[h].work
          /\ op'[h].work # {} => op'[h].scan = op[h].scan
      BY <1>3, <1>4, <3>1
    <3> QED
      BY <1>2, <2>1, <2>2, <3>2, Elsewhere
  <2>3. CASE i = ItemOf(h)
    <3>1. Goto(h, "saleWrite")
      BY <1>5, <1>10, <2>3 DEF SaleRead, Active, OnOffer
    <3>2. /\ op'[h].pc = "saleWrite" /\ op'[h].auction = a /\ op'[h].who = op[h].who
          /\ op'[h].price = op[h].price
      BY <1>3, <3>1
    <3>3. SellingPhase(h, i)'
      <4>1. HasCommission(a, p)' /\ OthersBalanced(i, a)'
        BY <1>2, <1>5, <2>1, <2>3, CommissionKept DEF SellingPhase
      <4> QED
        BY <1>5, <2>1, <2>3, <3>2, <4>1 DEF SellingPhase, OnOffer
    <3> QED
      BY <1>6, <2>1, <2>3, <3>1, <3>3
  <2> QED
    BY <2>2, <2>3
<1>11. CASE SaleWrite(h)
  <2>1. /\ Grows /\ Auctions' = Auctions /\ auctions'[a].status = "sold"
        /\ auctions'[a].sales = Append(auctions[a].sales, SaleRecord(h))
        /\ SaleRecord(h) \in Sale
        /\ SaleRecord(h).buyer = op[h].who /\ SaleRecord(h).price = op[h].price
        /\ auctions'[a].bids = auctions[a].bids /\ auctions'[a].item = auctions[a].item
        /\ auctions[a].sales \in Seq(Sale)
        /\ \A b \in Auctions : b # a => auctions'[b] = auctions[b]
    BY <1>11, SaleRow
  <2>2. owner' = owner /\ NoPayment /\ op[h].pc = "saleWrite"
        /\ (Goto(h, "nextDue") \/ End(h))
    BY <1>11 DEF SaleWrite, AfterSale, Money, NoPayment
  <2>3. /\ op'[h].pc \notin Committed /\ op'[h].work \subseteq op[h].work
        /\ op'[h].work # {} => op'[h].scan = op[h].scan
    BY <1>3, <1>4, <2>2 DEF Committed
  <2>4. /\ Of(i)' = Of(i)
        /\ auctions[a].item # i => SameRows(i)
        /\ \A b \in Of(i) : b # a => auctions'[b] = auctions[b]
    BY <1>2, <2>1, OtherRows
  <2>5. CASE i # ItemOf(h)
    <3>1. SameItem(i)
      BY <1>2, <2>2, <2>4, <2>5 DEF SameItem, SameBooks, NoPayment
    <3> QED
      BY <1>2, <2>1, <2>3, <2>5, <3>1, Elsewhere
  <2>6. CASE i = ItemOf(h)
    <3>1. /\ HasCommission(a, p) /\ OthersBalanced(i, a)
          /\ owner[i] = op[h].who /\ OnOffer(a) /\ Sane(i) /\ a \in Of(i)
      BY <1>2, <1>5, <2>2, <2>6 DEF SellingPhase
    <3>2. Len(auctions[a].sales) # 1 /\ Len(auctions[a].sales) <= 1
          /\ Len(auctions[a].sales) \in Nat
      BY <2>1, <3>1 DEF Sane, Record, OnOffer
    <3>3. Len(auctions[a].sales) = 0
      <4>1. \A n \in Nat : n <= 1 /\ n # 1 => n = 0
        OBVIOUS
      <4> QED
        BY <3>2, <4>1
    <3>4. Len(auctions'[a].sales) = 1 /\ auctions'[a].sales[1] = SaleRecord(h)
      BY <1>2, <2>1, <3>3, AppendProperties
    <3>5. /\ auctions'[a].item = i /\ auctions'[a].status # "active"
          /\ auctions'[a].status = "sold" <=> Len(auctions'[a].sales) = 1
          /\ Len(auctions'[a].sales) <= 1
      BY <1>2, <2>1, <2>2, <2>6, <3>1, <3>4
    <3>6. /\ Sane(i)' /\ Balanced(i)'
          /\ \A b \in Of(i) : ~OnOffer(b)' /\ (Last(b)' => b = a)
      <4>1. Rightful(a)' = {Commission(p, rate) : rate \in Rate}
        BY <2>1, <3>4, <3>5 DEF Rightful
      <4>2. PICK rate \in Rate : Kept(a)' = Commission(p, rate)
        BY <2>2, <3>1 DEF HasCommission, Kept, NoPayment
      <4>3. Commission(p, rate) \in Int
        <5>1. op[h].price \in Price
          BY <1>2, <2>1 DEF Sale
        <5> QED
          BY <5>1, CommissionBounds
      <4>4. Books(a, 0)'
        BY <4>1, <4>2, <4>3 DEF Books
      <4> QED
        BY <2>1, <2>2, <2>4, <3>1, <3>4, <3>5, <4>4, Closed
    <3>7. owner'[i] = op[h].who /\ op[h].who # Market
      BY <1>2, <2>2, <3>1
    <3>8. Placed(i)'
      BY <2>1, <2>4, <3>4, <3>6, <3>7 DEF Placed
    <3>9. op'[h].work \cap Of(i)' = {}
      BY <1>5, <2>3, <2>4, <2>6
    <3> QED
      BY <2>3, <3>6, <3>8, <3>9, Settles DEF AtRest
  <2> QED
    BY <2>5, <2>6
<1> QED
  BY <1>7, <1>8, <1>9, <1>10, <1>11

\* A row has one winning bid, or none.
LEMMA OneFound ==
  ASSUME TInv, NEW i \in Item, Sane(i), NEW a \in Of(i), NEW m \in Found(a), NEW n \in Found(a)
  PROVE  /\ m = n
         /\ n = NoBid => Winning(a) = {}
         /\ n # NoBid => n \in Winning(a)
<1>1. a \in Auctions /\ Rows /\ Record(a)
  BY DEF Of, TInv, Sane
<1>2. \A k \in Winning(a) : k # NoBid
  BY <1>1, BidType DEF Winning
<1>3. \A k, l \in Winning(a) : k = l
  BY <1>1 DEF Record
<1>4. CASE Winning(a) = {}
  BY <1>4 DEF Found
<1>5. CASE Winning(a) # {}
  BY <1>2, <1>3, <1>5 DEF Found
<1> QED
  BY <1>4, <1>5

\* What the market has of a listing on offer: what is bid, and x more.
LEMMA BooksBid ==
  ASSUME TInv, NEW i \in Item, Sane(i), NEW a \in Of(i), OnOffer(a), NEW n \in Found(a),
         NEW x \in Int, Books(a, x)
  PROVE  Kept(a) = IF n = NoBid THEN x ELSE Bid(a, n).amount + x
<1>1. PICK y \in Rightful(a) \cap Int : Kept(a) = y + x
  BY DEF Books
<1>2. CASE n = NoBid
  <2>1. Winning(a) = {}
    BY <1>2, OneFound
  <2>2. Rightful(a) = {0}
    BY <2>1 DEF Rightful, OnOffer
  <2> QED
    BY <1>1, <1>2, <2>2
<1>3. CASE n # NoBid
  <2>1. n \in Winning(a)
    BY <1>3, OneFound
  <2>2. \A m \in Winning(a) : m = n
    BY <2>1, OneFound DEF Found
  <2>3. Rightful(a) = {Bid(a, m).amount : m \in Winning(a)}
    BY <2>1 DEF Rightful, OnOffer
  <2> QED
    BY <1>1, <1>3, <2>2, <2>3
<1> QED
  BY <1>2, <1>3

\* What the handler takes for an offer, the repository does too.
LEMMA OutbidsBeats ==
  ASSUME TInv, NEW a \in Auctions, NEW n \in Found(a), NEW p \in Price, Outbids(p, a, n)
  PROVE  Beats(p, a, n)
<1>1. CASE n = NoBid
  BY <1>1 DEF Outbids, Beats
<1>2. CASE n # NoBid
  <2>1. n \in DOMAIN auctions[a].bids /\ Rows
    BY <1>2 DEF Found, Winning, TInv
  <2>2. Bid(a, n).amount \in Price
    BY <2>1, BidType
  <2> DEFINE x == Bid(a, n).amount
  <2>3. x \in Nat /\ x > 0 /\ p \in Nat
    BY <2>2, Numbers
  <2>4. 100 * p >= 105 * x
    BY <1>2 DEF Outbids
  <2> HIDE DEF x
  <2>5. p >= x + 1
    BY <2>3, <2>4
  <2> QED
    BY <1>2, <2>5 DEF Beats, x
<1> QED
  BY <1>1, <1>2

LEMMA BidOpens ==
  ASSUME TInv, NEW h \in Handler, NEW i \in Item, Mine(h, i), PlaceBid(h) \/ BidWinning(h)
  PROVE  Mine(h, i)'
<1> USE DEF At
<1> DEFINE a == op[h].auction
<1>1. op[h].pc \in {"placeBid", "bidWinning"} /\ op[h].pc \in OnRow /\ op[h].pc \notin Scanning
  BY DEF PlaceBid, BidWinning, OnRow, Bidding, Scanning
<1>2. /\ op \in [Handler -> CallType] /\ Rows /\ a \in Auctions /\ a # 0
      /\ op[h] \in CallType /\ op[h].work = {}
      /\ a \in Of(ItemOf(h)) /\ auctions[a].item = ItemOf(h)
  BY <1>1, AlonePcs DEF ItemOf
<1>3. SameItem(i) /\ SameRows(i) /\ auctions' = auctions
  BY TablesSame DEF PlaceBid, BidWinning, Tables
<1>4. AtRest(i) /\ AtRest(i)'
  <2>1. ~Commits(h, i)
    BY <1>1 DEF Commits, Committed
  <2> QED
    BY <1>3, <2>1, RestSame DEF Mine
<1>5. CASE End(h) \/ Goto(h, "bidWinning")
  <2>1. "bidWinning" \in PCs
    BY DEF PCs, Bidding
  <2>2. op'[h].pc \notin Committed /\ op'[h].work = {}
    BY <1>2, <1>5, <2>1, EndFields, GotoFields, IdleType DEF Committed
  <2> QED
    BY <1>3, <1>4, <2>2, Rests, NotCommitted
<1>6. CASE ~(End(h) \/ Goto(h, "bidWinning"))
  <2>1. PICK n \in Found(a) :
          /\ Beats(op[h].price, a, n)
          /\ op' = [op EXCEPT ![h].pc = "bidPay", ![h].bid = n]
    <3>1. PICK n \in Found(a) :
            /\ Outbids(op[h].price, a, n)
            /\ op' = [op EXCEPT ![h].pc = "bidPay", ![h].bid = n]
      BY <1>6 DEF PlaceBid, BidWinning
    <3>2. op[h].pc = "bidWinning"
      BY <1>6 DEF PlaceBid, BidWinning
    <3>3. op[h].price \in Price
      BY <3>2 DEF TInv, Knows, Bidding
    <3> QED
      BY <1>2, <3>1, <3>3, OutbidsBeats
  <2> DEFINE r == [op[h] EXCEPT !.pc = "bidPay", !.bid = n]
  <2>2. n \in Nat
    BY <1>2, <2>1, BidType DEF Found, Winning, NoBid
  <2>3. r \in CallType /\ r.pc = "bidPay" /\ r.auction = a /\ r.work = op[h].work
        /\ r.bid = n /\ r.price = op[h].price
    BY <1>2, <2>2 DEF CallType, PCs, Bidding
  <2>4. op' = [op EXCEPT ![h] = r]
    BY <2>1
  <2> HIDE DEF r
  <2>5. op'[h].pc = "bidPay" /\ op'[h].auction = a /\ op'[h].work = {}
        /\ op'[h].bid = n /\ op'[h].price = op[h].price
    BY <1>2, <2>3, <2>4, ReplaceCall
  <2>6. CASE i = ItemOf(h)
    <3>1. Found(a)' = Found(op[h].auction)
      BY <1>3, <2>5 DEF Found, Winning, Bid
    <3>2. Books(op[h].auction, 0)' /\ OthersBalanced(i, op[h].auction)' /\ Placed(i)'
      <4>1. op'[h].auction \in Of(i)'
        BY <1>2, <1>3, <2>5, <2>6 DEF SameRows
      <4> QED
        BY <1>4, <4>1 DEF AtRest, Balanced, OthersBalanced
    <3>3. BiddingPhase(h, i)'
      BY <1>3, <2>1, <2>5, <3>1, <3>2 DEF BiddingPhase, Beats, Bid
    <3>4. Commits(h, i)' /\ Phase(h, i)'
      BY <1>2, <1>3, <2>5, <2>6, <3>3, OnItemNext DEF Phase, Committed, Listing, Selling
    <3> QED
      BY <1>3, <2>5, <3>4, Proceeds
  <2>7. CASE i # ItemOf(h)
    <3>1. ~Commits(h, i)'
      BY <1>2, <1>3, <2>5, <2>7, OffItemNext
    <3> QED
      BY <1>3, <1>4, <2>5, <3>1, Rests
  <2> QED
    BY <2>6, <2>7
<1> QED
  BY <1>5, <1>6

\* The bid that is written is the winning one, and what the market holds is its amount.
LEMMA BidWritten ==
  ASSUME TInv, NEW h \in Handler, NEW i \in Item, Mine(h, i), BidWrite(h)
  PROVE  Mine(h, i)'
<1> USE DEF At
<1>1. PICK a \in Auctions, p \in Price, c \in Character, k \in Nat :
        a = op[h].auction /\ p = op[h].price /\ c = op[h].who /\ k = op[h].bid
  <2>1. op[h].bid \in Nat
    BY DEF TInv, CallType
  <2> QED
    BY <2>1, BidWriteRow
<1>2. /\ Grows /\ Auctions' = Auctions
      /\ auctions[a].bids \in Seq(BidRow)
      /\ auctions'[a].bids = Rebid(auctions[a].bids, k, c, p)
      /\ auctions'[a].status = auctions[a].status /\ auctions'[a].item = auctions[a].item
      /\ auctions'[a].sales = auctions[a].sales
      /\ \A b \in Auctions : b # a => auctions'[b] = auctions[b]
  BY <1>1, BidWriteRow
<1>3. /\ op \in [Handler -> CallType] /\ a # 0 /\ a \in Of(ItemOf(h)) /\ op[h].pc = "bidWrite"
      /\ auctions[a].item = ItemOf(h) /\ End(h) /\ owner' = owner /\ NoPayment
  BY <1>1, SalePcs DEF BidWrite, Bidding, Money, NoPayment
<1>4. op'[h].pc \notin Committed /\ op'[h].work = {}
  BY <1>3, EndFields, IdleType DEF Committed
<1>5. /\ Of(i)' = Of(i)
      /\ auctions[a].item # i => SameRows(i)
      /\ \A b \in Of(i) : b # a => auctions'[b] = auctions[b]
  BY <1>2, OtherRows
<1>6. CASE i # ItemOf(h)
  <2>1. SameItem(i)
    BY <1>3, <1>5, <1>6 DEF SameItem, SameBooks, NoPayment
  <2> QED
    BY <1>1, <1>2, <1>4, <1>6, <2>1, Elsewhere
<1>7. CASE i = ItemOf(h)
  <2>1. /\ Placed(i) /\ Sane(i) /\ k \in Found(a) /\ OnOffer(a) /\ Kept(a) = p
        /\ a \in Of(i) /\ OthersBalanced(i, a)
    <3>1. Commits(h, i)
      BY <1>1, <1>3, <1>7, OnItem DEF Committed
    <3>2. BiddingPhase(h, i) /\ Sane(i)
      BY <1>3, <3>1 DEF Mine, Phase, Bidding
    <3> QED
      BY <1>1, <1>3, <1>7, <3>2 DEF BiddingPhase
  <2> DEFINE n == Len(auctions[a].bids) + 1
             new == [bidder |-> c, amount |-> p, winning |-> TRUE]
  <2>2. PICK last \in Nat :
          /\ DOMAIN auctions'[a].bids = DOMAIN auctions[a].bids \cup {last}
          /\ last \notin DOMAIN auctions[a].bids
          /\ auctions'[a].bids[last] = new
          /\ \A m \in DOMAIN auctions[a].bids :
               auctions'[a].bids[m] = Beaten(auctions[a].bids, k)[m]
    <3>1. n \in Nat /\ n \notin DOMAIN auctions[a].bids
      BY <1>2
    <3>2. /\ Rebid(auctions[a].bids, k, c, p) \in Seq(BidRow)
          /\ DOMAIN Rebid(auctions[a].bids, k, c, p) = DOMAIN auctions[a].bids \cup {n}
      <4>1. auctions[a].bids \in Seq(BidRow)
        BY <1>2
      <4> QED
        BY <4>1, RebidSeq
    <3>3. Rebid(auctions[a].bids, k, c, p)[n] = new
      BY <1>2, RebidNew
    <3>4. \A m \in DOMAIN auctions[a].bids :
            Rebid(auctions[a].bids, k, c, p)[m] = Beaten(auctions[a].bids, k)[m]
      BY <1>2, RebidOld
    <3> HIDE DEF n, new
    <3> QED
      BY <1>2, <3>1, <3>2, <3>3, <3>4
  <2>3. ASSUME NEW m \in DOMAIN auctions[a].bids
        PROVE  ~auctions'[a].bids[m].winning
    <3>1. auctions[a].bids[m] \in BidRow
      BY <1>2, Element
    <3>2. auctions'[a].bids[m] = IF m = k THEN [auctions[a].bids[m] EXCEPT !.winning = FALSE]
                                          ELSE auctions[a].bids[m]
      BY <2>2 DEF Beaten
    <3>3. CASE m = k
      BY <3>1, <3>2, <3>3 DEF BidRow
    <3>4. CASE m # k
      <4>1. m \notin Winning(a)
        <5>1. ASSUME m \in Winning(a)
              PROVE  FALSE
          <6>1. m \in Found(a)
            BY <5>1 DEF Found
          <6> QED
            BY <2>1, <3>4, <6>1, OneFound
        <5> QED
          BY <5>1
      <4> QED
        BY <3>2, <3>4, <4>1 DEF Winning, Bid
    <3> QED
      BY <3>3, <3>4
  <2>4. Winning(a)' = {last} /\ Bid(a, last)' = new
    <3>1. new.winning
      OBVIOUS
    <3>2. Winning(a)' = {m \in DOMAIN auctions'[a].bids : auctions'[a].bids[m].winning}
      BY DEF Winning, Bid
    <3>3. Bid(a, last)' = auctions'[a].bids[last]
      BY DEF Bid
    <3> HIDE DEF new
    <3> QED
      BY <2>2, <2>3, <3>1, <3>2, <3>3
  <2>5. new.amount = p
    OBVIOUS
  <2>6. p \in Int
    BY Numbers
  <2>7. \A b \in Of(i) : (Last(b)' <=> Last(b)) /\ (OnOffer(b)' <=> OnOffer(b))
                         /\ auctions'[b].status = auctions[b].status
                         /\ auctions'[b].sales = auctions[b].sales
                         /\ (OnOffer(b) => b = a)
    <3>1. \A b \in Of(i) : auctions[b].item = i /\ auctions'[b].item = i
                           /\ auctions'[b].status = auctions[b].status
                           /\ auctions'[b].sales = auctions[b].sales
      BY <1>2, <1>5 DEF Of
    <3>2. \A b \in Of(i) : OnOffer(b) => b = a
      BY <2>1, OneOffer
    <3> QED
      BY <1>5, <3>1, <3>2 DEF Last, OnOffer
  <2>8. Sane(i)'
    <3>1. ASSUME NEW b \in Of(i)
          PROVE  Record(b)'
      <4>1. Record(b)
        BY <2>1 DEF Sane
      <4>2. CASE b = a
        BY <2>4, <2>7, <4>1, <4>2 DEF Record
      <4>3. CASE b # a
        <5>1. auctions'[b] = auctions[b]
          BY <1>5, <4>3
        <5>2. Winning(b)' = Winning(b)
          BY <5>1 DEF Winning, Bid
        <5> QED
          BY <4>1, <5>1, <5>2 DEF Record
      <4> QED
        BY <4>2, <4>3
    <3> QED
      BY <1>5, <2>1, <2>7, <3>1 DEF Sane
  <2>9. Balanced(i)'
    <3>1. Rightful(a)' = {p} /\ Kept(a)' = p
      <4>1. Rightful(a)' = {Bid(a, m)'.amount : m \in Winning(a)'}
        BY <2>1, <2>4, <2>7 DEF Rightful, OnOffer
      <4>2. Kept(a)' = Kept(a)
        BY <1>3 DEF Kept, NoPayment
      <4> QED
        BY <2>1, <2>4, <2>5, <4>1, <4>2
    <3>2. Books(a, 0)'
      BY <2>6, <3>1 DEF Books
    <3>3. ASSUME NEW b \in Of(i), b # a
          PROVE  Books(b, 0)'
      <4>1. Books(b, 0) /\ auctions'[b] = auctions[b]
        BY <1>5, <2>1, <3>3 DEF OthersBalanced
      <4>2. Rightful(b)' = Rightful(b) /\ Kept(b)' = Kept(b)
        BY <1>3, <4>1, RightfulSame DEF Kept, NoPayment
      <4> QED
        BY <4>1, <4>2 DEF Books
    <3> QED
      BY <1>5, <3>2, <3>3 DEF Balanced
  <2>10. Placed(i)'
    BY <1>3, <1>5, <2>1, <2>7 DEF Placed
  <2> QED
    BY <1>4, <2>8, <2>9, <2>10, Settles DEF AtRest
<1> QED
  BY <1>6, <1>7

LEMMA BiddingItem ==
  ASSUME TInv, NEW h \in Handler, NEW i \in Item, Mine(h, i),
         op'[h] # op[h] => i \notin Wronged(h),
         BidPay(h) \/ BidRefund(h) \/ BidRead(h) \/ BidWrite(h) \/ BidUndo(h)
  PROVE  Mine(h, i)'
<1> USE DEF At
<1>0. PICK a : a = op[h].auction
  OBVIOUS
<1> USE <1>0
<1>1. op[h].pc \in Bidding /\ op[h].pc \in Committed
  BY DEF BidPay, BidRefund, BidRead, BidWrite, BidUndo, Bidding, Committed
<1>2. /\ op \in [Handler -> CallType] /\ Rows /\ Knows(h) /\ a \in Auctions /\ a # 0
      /\ op[h].who \in Character /\ ItemOf(h) \in Item /\ a \in Of(ItemOf(h))
      /\ auctions[a].item = ItemOf(h) /\ op[h] \in CallType
  BY <1>1, SalePcs
<1>3. PICK p \in Int : p = op[h].price
  <2>1. op[h].price \in Price
    BY <1>1, <1>2 DEF Knows
  <2>2. op[h].price \in Int
    BY <2>1, Numbers
  <2> QED
    BY <2>2
<1>4. ASSUME NEW pc \in {"bidRefund", "bidRead", "bidUndo"}, Goto(h, pc)
      PROVE  /\ op'[h].pc = pc /\ op'[h].auction = a /\ op'[h].work = op[h].work
             /\ op'[h].scan = op[h].scan /\ op'[h].bid = op[h].bid /\ op'[h].price = p
  <2>1. pc \in PCs
    BY DEF PCs, Bidding
  <2> QED
    BY <1>2, <1>3, <1>4, <2>1, GotoFields
<1>5. End(h) => op'[h].pc \notin Committed /\ op'[h].work = {}
  BY <1>2, EndFields, IdleType DEF Committed
<1>6. i = ItemOf(h) => BiddingPhase(h, i) /\ Sane(i) /\ a \in Of(i)
  <2>1. i = ItemOf(h) => Commits(h, i)
    BY <1>1, <1>2, OnItem
  <2> QED
    BY <1>1, <1>2, <2>1 DEF Mine, Phase
<1>7. ASSUME Tables, i = ItemOf(h), BiddingPhase(h, i)', op'[h].pc \in Bidding \ {"bidWinning"},
             op'[h].auction = a, op'[h].work = op[h].work, op'[h].scan = op[h].scan
      PROVE  Mine(h, i)'
  <2>1. SameRows(i) /\ auctions' = auctions
    BY <1>7, TablesSame DEF Tables
  <2>2. op'[h].pc \in Committed
    BY <1>7 DEF Bidding, Committed
  <2>3. Commits(h, i)' /\ Phase(h, i)'
    BY <1>2, <1>7, <2>1, <2>2, OnItemNext DEF Phase, Bidding, Listing, Selling
  <2> QED
    BY <1>7, <2>1, <2>3, Proceeds
<1>9. CASE BidPay(h)
  <2>1. /\ Tables /\ owner' = owner /\ op[h].pc = "bidPay" /\ -p \in Int /\ - -p = p
        /\ AddCredits(op[h].who, -p, a) /\ auctions' = auctions
        /\ Goto(h, IF op[h].bid = NoBid THEN "bidRead" ELSE "bidRefund")
    BY <1>3, <1>9 DEF BidPay, Tables
  <2>2. /\ op'[h].pc = IF op[h].bid = NoBid THEN "bidRead" ELSE "bidRefund"
        /\ op'[h].auction = a /\ op'[h].work = op[h].work
        /\ op'[h].scan = op[h].scan /\ op'[h].bid = op[h].bid /\ op'[h].price = p
    BY <1>4, <2>1
  <2>3. /\ Kept(a) \in Int /\ Kept(a)' = Kept(a) + p
        /\ \A b \in Auctions : b # a => ledger'[b] = ledger[b] /\ refused'[b] = refused[b]
    BY <1>2, <2>1, Booked
  <2>4. SameRows(i) /\ Grows
    BY <2>1, TablesSame, TablesTypes
  <2>5. CASE i # ItemOf(h)
    <3>1. SameBooks(i)
      BY <1>2, <2>1, <2>3, <2>5, OthersBooked
    <3> QED
      BY <1>2, <2>1, <2>2, <2>4, <2>5, <3>1, Elsewhere DEF SameItem
  <2>6. CASE i = ItemOf(h)
    <3>1. /\ Books(a, 0) /\ OthersBalanced(i, a) /\ Placed(i)
          /\ op[h].bid \in Found(a) /\ Beats(op[h].price, a, op[h].bid)
      BY <1>6, <2>1, <2>6 DEF BiddingPhase
    <3>2. Books(a, p)' /\ OthersBalanced(i, a)'
      <4>1. a \in Of(i) /\ p = 0 + p /\ 0 \in Int
        BY <1>6, <2>6
      <4>2. Books(a, p)'
        BY <2>3, <2>4, <3>1, <4>1, BooksMore
      <4> QED
        BY <1>2, <2>1, <2>3, <3>1, <4>2, OthersBooked
    <3>3. Placed(i)' /\ Of(i)' = Of(i)
      BY <2>1, <2>4, <3>1 DEF Placed, SameRows, OnOffer, Last
    <3>4. op'[h].bid \in Found(op[h].auction)' /\ Beats(op[h].price, op[h].auction, op[h].bid)'
      BY <1>3, <2>1, <2>2, <3>1 DEF Found, Winning, Bid, Beats
    <3>5. op'[h].pc \in Bidding \ {"bidWinning"} /\ op'[h].pc \in {"bidRead", "bidRefund"}
          /\ (op'[h].pc = "bidRead" => op'[h].bid = NoBid)
      BY <2>2 DEF Bidding
    <3>6. BiddingPhase(h, i)'
      BY <2>2, <3>2, <3>3, <3>4, <3>5 DEF BiddingPhase
    <3> QED
      BY <1>7, <2>1, <2>2, <2>6, <3>5, <3>6
  <2> QED
    BY <2>5, <2>6
<1>10. CASE BidRefund(h)
  <2>0. PICK beaten : beaten = Bid(a, op[h].bid)
    OBVIOUS
  <2> USE <2>0
  <2>1. /\ Tables /\ owner' = owner /\ op[h].pc = "bidRefund" /\ auctions' = auctions
        /\ PayOut(beaten.bidder, beaten.amount, a) /\ Goto(h, "bidRead")
    BY <1>10 DEF BidRefund, Tables
  <2>2. /\ op'[h].pc = "bidRead" /\ op'[h].auction = a /\ op'[h].work = op[h].work
        /\ op'[h].scan = op[h].scan /\ op'[h].bid = op[h].bid /\ op'[h].price = p
    BY <1>4, <2>1
  <2>3. beaten.bidder \in Character /\ beaten.amount \in Int
    <3>1. op[h].bid \in DOMAIN auctions[a].bids
      BY <1>2, <2>1 DEF Knows
    <3>2. beaten.bidder \in Character /\ beaten.amount \in Price
      BY <1>2, <3>1, BidType
    <3> QED
      BY <3>2, Numbers
  <2>4. /\ Kept(a) \in Int /\ Kept(a)' = Kept(a) + -beaten.amount
        /\ \A b \in Auctions : b # a => ledger'[b] = ledger[b] /\ refused'[b] = refused[b]
    BY <1>2, <2>1, <2>3, Booked
  <2>5. SameRows(i) /\ Grows
    BY <2>1, TablesSame, TablesTypes
  <2>6. CASE i # ItemOf(h)
    <3>1. SameBooks(i)
      BY <1>2, <2>1, <2>4, <2>6, OthersBooked
    <3> QED
      BY <1>2, <2>1, <2>2, <2>5, <2>6, <3>1, Elsewhere DEF SameItem
  <2>7. CASE i = ItemOf(h)
    <3>1. /\ Books(a, p) /\ OthersBalanced(i, a) /\ Placed(i)
          /\ op[h].bid \in Found(a) /\ Beats(op[h].price, a, op[h].bid)
      BY <1>3, <1>6, <2>1, <2>7 DEF BiddingPhase
    <3>2. i \notin Wronged(h) /\ op[h].bid # NoBid
      BY <1>2, <2>1, <2>2 DEF Knows
    <3>3. OnOffer(a)
      BY <2>1, <2>7, <3>2 DEF Wronged, Active, OnOffer
    <3>4. Kept(a) = beaten.amount + p
      BY <1>6, <2>7, <3>1, <3>2, <3>3, BooksBid
    <3>5. Kept(a)' = p /\ OthersBalanced(i, a)'
      <4>1. Kept(a)' = p
        BY <2>3, <2>4, <3>4
      <4> QED
        BY <1>2, <2>1, <2>4, <3>1, <4>1, OthersBooked
    <3>6. Placed(i)'
      BY <2>1, <2>5, <3>1 DEF Placed, SameRows, OnOffer, Last
    <3>7. /\ op'[h].bid \in Found(op[h].auction)' /\ OnOffer(op[h].auction)'
          /\ Beats(op[h].price, op[h].auction, op[h].bid)'
      BY <1>3, <2>1, <2>2, <3>1, <3>3 DEF Found, Winning, Bid, Beats, OnOffer
    <3>8. BiddingPhase(h, i)'
      BY <2>2, <3>2, <3>5, <3>6, <3>7 DEF BiddingPhase
    <3>9. op'[h].pc \in Bidding \ {"bidWinning"}
      BY <2>2 DEF Bidding
    <3> QED
      BY <1>7, <2>1, <2>2, <2>7, <3>8, <3>9
  <2> QED
    BY <2>6, <2>7
<1>11. CASE BidRead(h) /\ Goto(h, "bidUndo")
  <2>1. /\ Tables /\ owner' = owner /\ NoPayment /\ op[h].pc = "bidRead"
        /\ auctions' = auctions /\ SameItem(i) /\ SameRows(i) /\ Grows
    BY <1>11, TablesSame, TablesTypes DEF BidRead, Tables, Money, NoPayment
  <2>2. /\ op'[h].pc = "bidUndo" /\ op'[h].auction = a /\ op'[h].work = op[h].work
        /\ op'[h].scan = op[h].scan /\ op'[h].price = p
    BY <1>4, <1>11
  <2>3. PICK n \in Found(a) : ~(Active(h) /\ Beats(op[h].price, a, n))
    <3>1. PICK n \in Found(a) :
            IF Active(h) /\ Beats(op[h].price, a, n)
            THEN op' = [op EXCEPT ![h].pc = "bidWrite", ![h].bid = n]
            ELSE Goto(h, "bidUndo")
      BY <1>11 DEF BidRead
    <3>2. op' = [op EXCEPT ![h].pc = "bidWrite", ![h].bid = n] => op'[h].pc = "bidWrite"
      BY <1>2
    <3> QED
      BY <2>2, <3>1, <3>2
  <2>4. CASE i # ItemOf(h)
    BY <1>2, <2>1, <2>2, <2>4, Elsewhere
  <2>5. CASE i = ItemOf(h)
    <3>1. Placed(i) /\ op[h].bid \in Found(a) /\ Beats(op[h].price, a, op[h].bid)
      BY <1>6, <2>1, <2>5 DEF BiddingPhase
    <3>2. n = op[h].bid
      BY <1>6, <2>5, <3>1, OneFound
    <3>3. ~OnOffer(a)
      BY <2>3, <3>1, <3>2 DEF OnOffer, Active
    <3>4. Books(a, p) /\ OthersBalanced(i, a)
      BY <1>3, <1>6, <2>1, <2>5, <3>3 DEF BiddingPhase
    <3>5. Books(a, p)' /\ OthersBalanced(i, a)' /\ Placed(i)'
      BY <1>6, <2>1, <2>5, <3>1, <3>4, NothingPaid, BalancedSame, PlacedSame
    <3>6. BiddingPhase(h, i)'
      BY <2>2, <3>5 DEF BiddingPhase
    <3>7. op'[h].pc \in Bidding \ {"bidWinning"}
      BY <2>2 DEF Bidding
    <3> QED
      BY <1>7, <2>1, <2>2, <2>5, <3>6, <3>7
  <2> QED
    BY <2>4, <2>5
<1>12. CASE BidRead(h) /\ ~Goto(h, "bidUndo")
  <2>1. /\ Tables /\ owner' = owner /\ NoPayment /\ op[h].pc = "bidRead"
        /\ auctions' = auctions /\ SameItem(i) /\ SameRows(i) /\ Grows
    BY <1>12, TablesSame, TablesTypes DEF BidRead, Tables, Money, NoPayment
  <2>2. PICK n \in Found(a) : /\ Active(h)
                              /\ op' = [op EXCEPT ![h].pc = "bidWrite", ![h].bid = n]
    BY <1>12 DEF BidRead
  <2> DEFINE r == [op[h] EXCEPT !.pc = "bidWrite", !.bid = n]
  <2>3. n \in Nat
    BY <1>2, <2>2, BidType DEF Found, Winning, NoBid
  <2>4. /\ r \in CallType /\ r.pc = "bidWrite" /\ r.bid = n /\ r.auction = a
        /\ r.work = op[h].work /\ r.scan = op[h].scan /\ r.price = op[h].price
    BY <1>2, <2>3 DEF CallType, PCs, Bidding
  <2>5. op' = [op EXCEPT ![h] = r]
    BY <2>2
  <2> HIDE DEF r
  <2>6. /\ op'[h].pc = "bidWrite" /\ op'[h].auction = a /\ op'[h].work = op[h].work
        /\ op'[h].scan = op[h].scan /\ op'[h].price = p /\ op'[h].bid = n
    BY <1>2, <1>3, <2>4, <2>5, ReplaceCall
  <2>7. CASE i # ItemOf(h)
    BY <1>2, <2>1, <2>6, <2>7, Elsewhere
  <2>8. CASE i = ItemOf(h)
    <3>1. Placed(i) /\ op[h].bid \in Found(a) /\ Sane(i) /\ a \in Of(i)
      BY <1>6, <2>1, <2>8 DEF BiddingPhase
    <3>2. OnOffer(a)
      BY <2>2 DEF Active, OnOffer
    <3>3. Kept(a) = p
      <4>1. CASE op[h].bid # NoBid
        BY <1>3, <1>6, <2>1, <2>8, <4>1 DEF BiddingPhase
      <4>2. CASE op[h].bid = NoBid
        <5>1. Books(a, p)
          BY <1>3, <1>6, <2>1, <2>8, <4>2 DEF BiddingPhase
        <5> QED
          BY <3>1, <3>2, <4>2, <5>1, BooksBid
      <4> QED
        BY <4>1, <4>2
    <3>4. Placed(i)'
      BY <2>1, <3>1, PlacedSame
    <3>5. op'[h].bid \in Found(op[h].auction)' /\ OnOffer(op[h].auction)'
      BY <2>1, <2>2, <2>6, <3>2 DEF Found, Winning, Bid, OnOffer
    <3>6. BiddingPhase(h, i)'
      <4>1. OthersBalanced(i, a)' /\ Kept(a)' = p
        BY <1>6, <2>1, <2>8, <3>1, <3>3, NothingPaid, BalancedSame DEF BiddingPhase
      <4> QED
        BY <2>1, <2>6, <3>4, <3>5, <4>1 DEF BiddingPhase
    <3>7. op'[h].pc \in Bidding \ {"bidWinning"}
      BY <2>6 DEF Bidding
    <3> QED
      BY <1>7, <2>1, <2>6, <2>8, <3>6, <3>7
  <2> QED
    BY <2>7, <2>8
<1>13. CASE BidUndo(h)
  <2>1. /\ Tables /\ owner' = owner /\ op[h].pc = "bidUndo" /\ End(h)
        /\ PayOut(op[h].who, p, a) /\ auctions' = auctions
    BY <1>3, <1>13 DEF BidUndo, Tables
  <2>2. op'[h].pc \notin Committed /\ op'[h].work = {}
    BY <1>5, <2>1
  <2>3. /\ Kept(a) \in Int /\ Kept(a)' = Kept(a) + -p
        /\ \A b \in Auctions : b # a => ledger'[b] = ledger[b] /\ refused'[b] = refused[b]
    BY <1>2, <2>1, Booked
  <2>4. SameRows(i) /\ Grows
    BY <2>1, TablesSame, TablesTypes
  <2>5. CASE i # ItemOf(h)
    <3>1. SameBooks(i)
      BY <1>2, <2>1, <2>3, <2>5, OthersBooked
    <3> QED
      BY <1>2, <2>1, <2>2, <2>4, <2>5, <3>1, Elsewhere DEF SameItem
  <2>6. CASE i = ItemOf(h)
    <3>1. Books(a, p) /\ OthersBalanced(i, a) /\ Placed(i) /\ Sane(i)
      BY <1>3, <1>6, <2>1, <2>6 DEF BiddingPhase
    <3>2. Balanced(i)'
      <4>1. a \in Of(i) /\ -p \in Int /\ 0 = p + -p /\ 0 \in Int
        BY <1>6, <2>6
      <4>2. Books(a, 0)'
        BY <2>3, <2>4, <3>1, <4>1, BooksMore
      <4>3. OthersBalanced(i, a)'
        BY <1>2, <2>1, <2>3, <3>1, OthersBooked
      <4> QED
        BY <2>4, <4>2, <4>3 DEF Balanced, OthersBalanced, SameRows
    <3>3. Placed(i)'
      BY <2>1, <2>4, <3>1 DEF Placed, SameRows, OnOffer, Last
    <3> QED
      BY <2>2, <2>4, <3>1, <3>2, <3>3, SaneSame, Settles DEF AtRest
  <2> QED
    BY <2>5, <2>6
<1>14. CASE BidWrite(h)
  BY <1>14, BidWritten
<1> QED
  BY <1>9, <1>10, <1>11, <1>12, <1>13, <1>14

\* The latest listing of an item is its last.
LEMMA LatestIs ==
  ASSUME NEW i \in Item, Sane(i), Of(i) # {}
  PROVE  Latest(i) \in Of(i) /\ Last(Latest(i))
<1>1. PICK a \in Of(i) : Last(a)
  BY DEF Sane
<1>2. \A b \in Of(i) : auctions[b].item = i
  BY DEF Of
<1>3. \A b \in Of(i) : b <= a
  BY <1>1, <1>2 DEF Last
<1>4. Latest(i) \in Of(i) /\ \A b \in Of(i) : b <= Latest(i)
  BY <1>3 DEF Latest
<1> QED
  BY <1>2, <1>4 DEF Last

LEMMA RetrievingItem ==
  ASSUME TInv, NEW h \in Handler, NEW i \in Item, Mine(h, i),
         op'[h] # op[h] => i \notin Wronged(h),
         RetrieveExpired(h) \/ RetrieveCancelled(h) \/ HandBack(h) \/ HandedBack(h)
  PROVE  Mine(h, i)'
<1> USE DEF At
<1>1. /\ op \in [Handler -> CallType] /\ op[h] \in CallType /\ Knows(h) /\ Rows
      /\ op[h].pc \in Retrieving /\ op[h].pc \notin Committed /\ op[h].who \in Character
  BY DEF TInv, RetrieveExpired, RetrieveCancelled, HandBack, HandedBack, Retrieving, Committed,
         Knows, ForSomeone
<1>2. op[h].scan = FALSE /\ op[h].work \subseteq Auctions /\ Auctions \subseteq Nat
  <2>1. Works(h) /\ op[h].scan \in BOOLEAN
    BY <1>1 DEF TInv, CallType
  <2> QED
    BY <1>1, <2>1 DEF Works, Knows, Auctions, Rows, Retrieving, Scanning
<1>3. /\ AtRest(i) /\ WorkPhase(h, i) /\ Sane(i) /\ SameRows(i) /\ Sane(i)'
      /\ Of(i)' = Of(i) /\ auctions' = auctions
  <2>1. Tables
    BY DEF RetrieveExpired, RetrieveCancelled, HandBack, HandedBack
  <2>2. AtRest(i) /\ WorkPhase(h, i) /\ Sane(i)
    BY <1>1 DEF Mine, Commits
  <2> QED
    BY <2>1, <2>2, TablesSame, SaneSame DEF Tables, SameRows
<1>4. SameItem(i) => AtRest(i)'
  BY <1>3, RestSame
<1>5. ASSUME NEW pc \in {"retrieveCancelled", "handBack"}, NEW work \in SUBSET Auctions,
             op' = [op EXCEPT ![h] = [op[h] EXCEPT !.pc = pc, !.work = work]],
             SameItem(i),
             \A a \in work \cap Of(i) : auctions[a].status \in {"cancelled", "expired"}
      PROVE  Mine(h, i)'
  <2> DEFINE r == [op[h] EXCEPT !.pc = pc, !.work = work]
  <2>1. r \in CallType /\ r.pc = pc /\ r.work = work /\ r.scan = FALSE
    BY <1>1, <1>2 DEF CallType, PCs, Retrieving
  <2>2. op' = [op EXCEPT ![h] = r]
    BY <1>5
  <2> HIDE DEF r
  <2>3. op'[h].pc = pc /\ op'[h].work = work /\ op'[h].scan = FALSE
    BY <1>1, <2>1, <2>2, ReplaceCall
  <2>4. WorkPhase(h, i)'
    BY <1>3, <1>5, <2>3 DEF WorkPhase
  <2>5. ~Commits(h, i)'
    BY <2>3 DEF Commits, Committed
  <2> QED
    BY <1>3, <1>4, <1>5, <2>4, <2>5 DEF Mine
<1>6. CASE RetrieveExpired(h)
  <2> DEFINE work == OfSeller(op[h].who, "expired")
  <2>1. SameItem(i)
    BY <1>6, TablesSame DEF RetrieveExpired
  <2>2. /\ work \in SUBSET Auctions
        /\ \A a \in work \cap Of(i) : auctions[a].status \in {"cancelled", "expired"}
    BY DEF OfSeller
  <2>3. op' = [op EXCEPT ![h] = [op[h] EXCEPT !.pc = "retrieveCancelled", !.work = work]]
    BY <1>6 DEF RetrieveExpired
  <2> HIDE DEF work
  <2> QED
    BY <1>5, <2>1, <2>2, <2>3
<1>7. CASE RetrieveCancelled(h)
  <2> DEFINE work == op[h].work \cup OfSeller(op[h].who, "cancelled")
  <2>1. SameItem(i)
    BY <1>7, TablesSame DEF RetrieveCancelled
  <2>2. /\ work \in SUBSET Auctions
        /\ \A a \in work \cap Of(i) : auctions[a].status \in {"cancelled", "expired"}
    BY <1>2, <1>3 DEF OfSeller, WorkPhase
  <2>3. op' = [op EXCEPT ![h] = [op[h] EXCEPT !.pc = "handBack", !.work = work]]
    BY <1>7 DEF RetrieveCancelled
  <2> HIDE DEF work
  <2> QED
    BY <1>5, <2>1, <2>2, <2>3
<1>8. CASE HandBack(h)
  <2>1. PICK a \in op[h].work : /\ AddItem(op[h].who, auctions[a].item)
                                /\ op' = [op EXCEPT ![h].work = @ \ {a}]
    BY <1>8 DEF HandBack
  <2> DEFINE r == [op[h] EXCEPT !.work = op[h].work \ {a}]
  <2>2. r \in CallType /\ r.pc = "handBack" /\ r.work = op[h].work \ {a} /\ r.scan = FALSE
    BY <1>1, <1>2, <1>8 DEF CallType, HandBack
  <2>3. op' = [op EXCEPT ![h] = r]
    BY <2>1
  <2> HIDE DEF r
  <2>4. op'[h].pc = "handBack" /\ op'[h].work = op[h].work \ {a} /\ op'[h].scan = FALSE
    BY <1>1, <2>2, <2>3, ReplaceCall
  <2>5. owner \in [Item -> Character \cup {Market}] /\ NoPayment
    BY <1>8 DEF TInv, HandBack, Money, NoPayment
  <2>6. ~Commits(h, i)'
    BY <2>4 DEF Commits, Committed
  <2>7. CASE auctions[a].item # i
    <3>1. SameItem(i)
      BY <1>3, <2>1, <2>5, <2>7 DEF SameItem, SameBooks, NoPayment, AddItem
    <3> QED
      BY <1>2, <1>3, <2>4, <2>6, <3>1, Rests
  <2>8. CASE auctions[a].item = i
    <3>1. i \notin Wronged(h) /\ a \in Of(i)
      BY <1>2, <2>4, <2>8 DEF Of
    <3>2. a = Latest(i)
      BY <1>8, <2>8, <3>1 DEF Wronged, HandBack
    <3>3. Last(a) /\ auctions[a].status \in {"cancelled", "expired"}
      BY <1>2, <1>3, <3>1, <3>2, LatestIs DEF WorkPhase
    <3>4. \A b \in Of(i) : Last(b) => b = a
      BY <3>1, <3>3, OneLast
    <3>5. \A b \in Of(i) : ~OnOffer(b) /\ ~(Last(b) /\ auctions[b].status = "sold")
      BY <1>3, <3>3, <3>4 DEF Sane, OnOffer
    <3>6. owner'[i] = op[h].who
      BY <2>1, <2>5, <2>8 DEF AddItem
    <3>7. AtRest(i)'
      BY <1>1, <1>3, <2>5, <3>5, <3>6, NothingPaid, Given DEF AtRest
    <3>8. WorkPhase(h, i)'
      BY <1>2, <1>3, <2>4 DEF WorkPhase
    <3> QED
      BY <1>3, <2>6, <3>7, <3>8 DEF Mine
  <2> QED
    BY <2>7, <2>8
<1>9. CASE HandedBack(h)
  <2>1. SameItem(i) /\ End(h)
    BY <1>9, TablesSame DEF HandedBack
  <2>2. op'[h].pc \notin Committed /\ op'[h].work = {}
    BY <1>1, <2>1, EndFields, IdleType DEF Committed
  <2> QED
    BY <1>3, <2>1, <2>2, Rests, NotCommitted
<1> QED
  BY <1>6, <1>7, <1>8, <1>9

LEMMA ScanningItem ==
  ASSUME TInv, NEW h \in Handler, NEW i \in Item, Mine(h, i),
         ProcessExpired(h) \/ NextDue(h) \/ DueWinning(h) \/ Expire(h)
  PROVE  Mine(h, i)'
<1> USE DEF At
<1>1. /\ op \in [Handler -> CallType] /\ op[h] \in CallType /\ Knows(h) /\ Works(h) /\ Rows
      /\ op[h].work \subseteq Auctions /\ Auctions \subseteq Nat
  BY DEF TInv, Knows, Auctions, Rows
<1>2. ASSUME NEW pc \in {"expireRest", "expire", "nextDue"}, Goto(h, pc)
      PROVE  /\ op'[h].pc = pc /\ op'[h].auction = op[h].auction /\ op'[h].work = op[h].work
             /\ op'[h].scan = op[h].scan
  <2>1. pc \in PCs
    BY DEF PCs, Scanning
  <2> QED
    BY <1>1, <1>2, <2>1, GotoFields
<1>3. op[h].pc \in {"processExpired", "nextDue"} => ~Commits(h, i) /\ AtRest(i)
  BY DEF Commits, Committed, Mine
<1>4. CASE ProcessExpired(h)
  <2>1. PICK w \in SUBSET Due :
          op' = [op EXCEPT ![h].pc = "nextDue", ![h].scan = TRUE, ![h].work = w]
    BY <1>4 DEF ProcessExpired
  <2> DEFINE r == [op[h] EXCEPT !.pc = "nextDue", !.scan = TRUE, !.work = w]
  <2>2. w \subseteq Auctions
    BY DEF Due
  <2>3. r \in CallType /\ r.pc = "nextDue" /\ r.scan = TRUE /\ r.work = w
    BY <1>1, <2>2 DEF CallType, PCs, Scanning
  <2>4. op' = [op EXCEPT ![h] = r]
    BY <2>1
  <2> HIDE DEF r
  <2>5. op'[h].pc = "nextDue" /\ op'[h].scan = TRUE /\ op'[h].work = w
    BY <1>1, <2>3, <2>4, ReplaceCall
  <2>6. SameItem(i) /\ SameRows(i) /\ auctions' = auctions
    BY <1>4, TablesSame DEF ProcessExpired, Tables
  <2>7. Sane(i)' /\ AtRest(i)'
    BY <1>3, <1>4, <2>6, SaneSame, RestSame DEF ProcessExpired, Mine
  <2>8. WorkPhase(h, i)'
    BY <2>5, <2>6 DEF WorkPhase, OnOffer, Due
  <2>9. ~Commits(h, i)'
    BY <2>5 DEF Commits, Committed
  <2> QED
    BY <2>7, <2>8, <2>9 DEF Mine
<1>5. CASE NextDue(h) /\ op[h].work = {}
  <2>1. SameItem(i) /\ Goto(h, "expireRest") /\ AtRest(i)
    BY <1>3, <1>5, TablesSame DEF NextDue
  <2>2. op'[h].pc \notin Committed /\ op'[h].work = {}
    BY <1>2, <1>5, <2>1 DEF Committed
  <2> QED
    BY <2>1, <2>2, Rests, NotCommitted
<1>6. CASE NextDue(h) /\ op[h].work # {}
  <2>1. PICK a \in op[h].work :
          op' = [op EXCEPT ![h].pc = IF auctions[a].isAuction THEN "dueWinning" ELSE "expire",
                           ![h].auction = a, ![h].work = @ \ {a}]
    BY <1>6 DEF NextDue
  <2> DEFINE pc == IF auctions[a].isAuction THEN "dueWinning" ELSE "expire"
             r == [op[h] EXCEPT !.pc = pc, !.auction = a, !.work = op[h].work \ {a}]
  <2>2. a \in Auctions /\ a \in Nat /\ a # 0 /\ pc \in {"dueWinning", "expire"}
    BY <1>1 DEF Auctions
  <2>3. op' = [op EXCEPT ![h] = r]
    BY <2>1
  <2>4. pc = "expire" => auctions[a].bids = <<>>
    BY <1>1, <2>2 DEF Rows
  <2> HIDE DEF pc
  <2>5. /\ r \in CallType /\ r.pc = pc /\ r.scan = op[h].scan /\ r.work = op[h].work \ {a}
        /\ r.auction = a
    BY <1>1, <2>2 DEF CallType, PCs, Scanning
  <2> HIDE DEF r
  <2>6. /\ op'[h].pc \in {"dueWinning", "expire"} /\ op'[h].scan = op[h].scan
        /\ op'[h].work = op[h].work \ {a} /\ op'[h].auction = a
        /\ op'[h].pc = "expire" => auctions[a].bids = <<>>
    BY <1>1, <2>2, <2>3, <2>4, <2>5, ReplaceCall
  <2>7. SameItem(i) /\ SameRows(i) /\ auctions' = auctions /\ AtRest(i) /\ op[h].scan
    BY <1>1, <1>3, <1>6, TablesSame DEF NextDue, Tables, Works
  <2>8. CASE i # auctions[a].item
    <3>1. ~Commits(h, i)'
      BY <2>2, <2>6, <2>7, <2>8, OffItemNext
    <3> QED
      BY <2>6, <2>7, <3>1, Rests
  <2>9. CASE i = auctions[a].item
    <3>1. OnOffer(a)
      BY <2>2, <2>7, <2>9 DEF Mine, WorkPhase, Of
    <3>2. AtRest(i)'
      BY <2>7, RestSame
    <3>3. op'[h].pc = "expire" => Winning(op[h].auction)' = {}
      BY <2>6, <2>7 DEF Winning
    <3>4. EndingPhase(h, i)'
      BY <2>6, <2>7, <3>1, <3>2, <3>3 DEF EndingPhase, OnOffer
    <3>5. Commits(h, i)' /\ Phase(h, i)'
      BY <2>2, <2>6, <2>7, <2>9, <3>4, OnItemNext
      DEF Phase, Committed, Listing, Selling, Bidding
    <3> QED
      BY <2>6, <2>7, <3>5, Proceeds
  <2> QED
    BY <2>8, <2>9
<1>7. ASSUME op[h].pc \in {"dueWinning", "expire"}
      PROVE  /\ op[h].auction \in Auctions /\ op[h].auction # 0
             /\ op[h].auction \in Of(ItemOf(h)) /\ auctions[op[h].auction].item = ItemOf(h)
             /\ i = ItemOf(h) => EndingPhase(h, i) /\ Sane(i) /\ AtRest(i)
                                 /\ OnOffer(op[h].auction) /\ Commits(h, i)
  <2>1. op[h].auction \in Auctions /\ op[h].auction # 0
    BY <1>1, <1>7 DEF Knows, OnRow, Auctions
  <2>2. op[h].auction \in Of(ItemOf(h)) /\ auctions[op[h].auction].item = ItemOf(h)
    BY <2>1 DEF Of, ItemOf
  <2>3. ASSUME i = ItemOf(h)
        PROVE  EndingPhase(h, i) /\ Sane(i) /\ Commits(h, i)
    <3>1. Commits(h, i)
      BY <1>7, <2>1, <2>3, OnItem DEF Committed
    <3> QED
      BY <1>7, <3>1 DEF Mine, Phase
  <2> QED
    BY <1>7, <2>1, <2>2, <2>3 DEF EndingPhase
<1>8. CASE DueWinning(h)
  <2>1. PICK a \in Auctions : a = op[h].auction
    BY <1>7, <1>8 DEF DueWinning
  <2>2. /\ op[h].pc = "dueWinning" /\ SameItem(i) /\ SameRows(i) /\ auctions' = auctions
        /\ owner' = owner /\ NoPayment /\ Grows
    BY <1>8, TablesSame, TablesTypes DEF DueWinning, Tables, Money, NoPayment
  <2>3. /\ a # 0 /\ a \in Of(ItemOf(h)) /\ auctions[a].item = ItemOf(h)
        /\ i = ItemOf(h) => Sane(i) /\ AtRest(i) /\ OnOffer(a)
    BY <1>7, <2>1, <2>2
  <2>4. PICK n \in Found(a) :
          IF n = NoBid THEN Goto(h, "expire")
          ELSE op' = [op EXCEPT ![h].pc = "paySeller",
                                ![h].who = Bid(a, n).bidder, ![h].price = Bid(a, n).amount]
    BY <1>8, <2>1 DEF DueWinning
  <2>5. CASE n = NoBid
    <3>1. op'[h].pc = "expire" /\ op'[h].auction = a /\ op'[h].work = op[h].work
          /\ op'[h].scan = op[h].scan
      BY <1>2, <2>1, <2>4, <2>5
    <3>2. CASE i # ItemOf(h)
      BY <2>1, <2>2, <3>1, <3>2, Elsewhere
    <3>3. CASE i = ItemOf(h)
      <4>1. Winning(a) = {} /\ AtRest(i)'
        BY <2>2, <2>3, <2>5, <3>3, OneFound, RestSame
      <4>2. Winning(op[h].auction)' = {} /\ OnOffer(op[h].auction)'
        BY <2>2, <2>3, <3>1, <3>3, <4>1 DEF Winning, Bid, OnOffer
      <4>3. EndingPhase(h, i)'
        BY <3>1, <4>1, <4>2 DEF EndingPhase
      <4>4. Commits(h, i)' /\ Phase(h, i)'
        BY <2>2, <2>3, <3>1, <3>3, <4>3, OnItemNext
        DEF Phase, Committed, Listing, Selling, Bidding
      <4> QED
        BY <2>2, <3>1, <4>4, Proceeds
    <3> QED
      BY <3>2, <3>3
  <2>6. CASE n # NoBid
    <3>1. PICK who \in Character, p \in Price : who = Bid(a, n).bidder /\ p = Bid(a, n).amount
      <4>1. n \in DOMAIN auctions[a].bids
        BY <2>6 DEF Found, Winning
      <4> QED
        BY <1>1, <4>1, BidType
    <3> DEFINE r == [op[h] EXCEPT !.pc = "paySeller", !.who = who, !.price = p]
    <3>2. /\ r \in CallType /\ r.pc = "paySeller" /\ r.scan = op[h].scan
          /\ r.work = op[h].work /\ r.auction = a /\ r.price = p
      BY <1>1, <2>1 DEF CallType, PCs, Selling
    <3>3. op' = [op EXCEPT ![h] = r]
      BY <2>4, <2>6, <3>1
    <3> HIDE DEF r
    <3>4. /\ op'[h].pc = "paySeller" /\ op'[h].auction = a /\ op'[h].work = op[h].work
          /\ op'[h].scan = op[h].scan /\ op'[h].price = p
      BY <1>1, <3>2, <3>3, ReplaceCall
    <3>5. CASE i # ItemOf(h)
      BY <2>1, <2>2, <3>4, <3>5, Elsewhere
    <3>6. CASE i = ItemOf(h)
      <4>1. Kept(a) = p /\ owner[i] = Market /\ OthersBalanced(i, a)
        <5>1. Books(a, 0) /\ OthersBalanced(i, a) /\ owner[i] = Market
          BY <2>3, <3>6 DEF AtRest, Balanced, OthersBalanced, Placed
        <5>2. Kept(a) = Bid(a, n).amount + 0
          BY <2>3, <2>6, <3>6, <5>1, BooksBid
        <5>3. p \in Int
          BY Numbers
        <5> QED
          BY <3>1, <5>1, <5>2, <5>3
      <4>2. Kept(a)' = p /\ AtRest(i)' /\ OthersBalanced(i, a)'
        BY <2>2, <2>3, <3>6, <4>1, NothingPaid, BalancedSame, RestSame
      <4>3. SellingPhase(h, i)'
        BY <2>2, <2>3, <3>4, <3>6, <4>1, <4>2 DEF SellingPhase, OnOffer
      <4>4. Commits(h, i)' /\ Phase(h, i)'
        BY <2>2, <2>3, <3>4, <3>6, <4>3, OnItemNext
        DEF Phase, Committed, Listing, Bidding
      <4> QED
        BY <2>2, <3>4, <4>4, Proceeds
    <3> QED
      BY <3>5, <3>6
  <2> QED
    BY <2>5, <2>6
<1>9. CASE Expire(h)
  <2>1. PICK a \in Auctions : a = op[h].auction
    BY <1>7, <1>9 DEF Expire
  <2>2. /\ op[h].pc = "expire" /\ SetStatus(a, "expired") /\ Goto(h, "nextDue")
        /\ owner' = owner /\ NoPayment
    BY <1>9, <2>1 DEF Expire, Money, NoPayment
  <2>3. /\ a # 0 /\ a \in Of(ItemOf(h)) /\ auctions[a].item = ItemOf(h)
        /\ i = ItemOf(h) => Sane(i) /\ AtRest(i) /\ OnOffer(a) /\ Winning(a) = {}
                            /\ Commits(h, i)
    BY <1>7, <2>1, <2>2 DEF EndingPhase
  <2>4. op'[h].pc = "nextDue" /\ op'[h].work = op[h].work /\ op'[h].scan = op[h].scan
        /\ op'[h].pc \notin Committed
    BY <1>2, <2>2 DEF Committed
  <2>5. /\ Grows /\ Auctions' = Auctions /\ auctions'[a].status = "expired"
        /\ auctions'[a].item = auctions[a].item /\ auctions'[a].sales = auctions[a].sales
        /\ auctions'[a].bids = auctions[a].bids
        /\ \A b \in Auctions : b # a => auctions'[b] = auctions[b]
    BY <1>1, <2>2, StatusStep DEF Status
  <2>6. /\ Of(i)' = Of(i)
        /\ auctions[a].item # i => SameRows(i)
        /\ \A b \in Of(i) : b # a => auctions'[b] = auctions[b]
    BY <2>5, OtherRows
  <2>7. CASE i # ItemOf(h)
    <3>1. SameItem(i)
      BY <2>2, <2>3, <2>6, <2>7 DEF SameItem, SameBooks, NoPayment
    <3> QED
      BY <2>1, <2>4, <2>5, <2>7, <3>1, Elsewhere
  <2>8. CASE i = ItemOf(h)
    <3>1. Sane(i)' /\ AtRest(i)'
      BY <2>2, <2>3, <2>5, <2>6, <2>8, Withdrawn
    <3>2. op'[h].work \cap Of(i)' = {}
      BY <2>3, <2>4, <2>6, <2>8, NoOther
    <3> QED
      BY <2>4, <3>1, <3>2, Settles
  <2> QED
    BY <2>7, <2>8
<1> QED
  BY <1>4, <1>5, <1>6, <1>8, <1>9

\* A call that fails or is refused has done no wrong by the items it is not
\* halfway through.
LEMMA FailingItem ==
  ASSUME TInv, NEW h \in Handler, NEW i \in Item, Mine(h, i),
         Refuse(h) \/ ((ItemRefused(h) \/ Failed(h)) /\ i \notin Halfway(h))
  PROVE  Mine(h, i)'
<1> USE DEF At
<1>1. /\ op \in [Handler -> CallType] /\ op[h] \in CallType /\ Knows(h) /\ Works(h) /\ Rows
      /\ op[h].pc # "insert"
  BY DEF TInv, Refuse, ItemRefused, Failed
<1>2. /\ SameItem(i) /\ SameRows(i) /\ auctions' = auctions /\ Grows /\ owner' = owner
      /\ NoPayment
  BY TablesSame, TablesTypes DEF Refuse, ItemRefused, Failed, Tables, Money, NoPayment
<1>3. i \notin Halfway(h)
  BY DEF Refuse, Halfway
<1>4. AtRest(i)
  BY <1>1, <1>3, Resting
<1>5. ASSUME NEW pc \in {"saleRead", "restore", "nextDue"}, Goto(h, pc)
      PROVE  /\ op'[h].pc = pc /\ op'[h].auction = op[h].auction /\ op'[h].work = op[h].work
             /\ op'[h].scan = op[h].scan /\ op'[h].who = op[h].who /\ op'[h].item = op[h].item
  <2>1. pc \in PCs
    BY DEF PCs, Scanning, Listing
  <2> QED
    BY <1>1, <1>5, <2>1, GotoFields
<1>6. CASE End(h)
  <2>1. op'[h].pc \notin Committed /\ op'[h].work = {}
    BY <1>1, <1>6, EndFields, IdleType DEF Committed
  <2> QED
    BY <1>2, <1>4, <2>1, Rests, NotCommitted
<1>7. CASE At(h, "deliver") /\ Goto(h, "saleRead")
  <2>1. i # ItemOf(h) /\ op[h].auction \in Auctions
    BY <1>1, <1>3, <1>7 DEF Halfway, Knows, OnRow, Selling
  <2> QED
    BY <1>2, <1>5, <1>7, <2>1, Elsewhere
<1>8. CASE At(h, "removeItem") /\ Goto(h, "restore")
  <2>1. /\ op'[h].pc = "restore" /\ op'[h].auction = 0 /\ op'[h].work = op[h].work
        /\ op'[h].scan = op[h].scan /\ op'[h].who = op[h].who /\ op'[h].item = op[h].item
    BY <1>1, <1>5, <1>8 DEF Knows, Listing
  <2>2. CASE i # op[h].item
    <3>1. ~Commits(h, i)'
      BY <2>1, <2>2 DEF Commits
    <3> QED
      BY <1>2, <1>4, <2>1, <3>1, Rests
  <2>3. CASE i = op[h].item
    <3>1. owner[i] = Market => \A a \in Of(i) : ~(Last(a) /\ auctions[a].status = "sold")
      BY <1>4, OneLast DEF AtRest, Placed
    <3>2. Balanced(i)' /\ Placed(i)'
      BY <1>2, <1>4, RestSame DEF AtRest
    <3>3. /\ Of(i)' = Of(i)
          /\ \A a \in Of(i) : (Last(a)' <=> Last(a))
                              /\ auctions'[a].status = auctions[a].status
      BY <1>2, RowFacts DEF SameRows
    <3>4. ListingPhase(h, i)'
      BY <1>2, <2>1, <3>1, <3>2, <3>3 DEF ListingPhase, Placed
    <3>5. Commits(h, i)' /\ Phase(h, i)'
      BY <2>1, <2>3, <3>4 DEF Commits, Committed, Phase, Selling, Bidding
    <3> QED
      BY <1>2, <2>1, <3>5, Proceeds
  <2> QED
    BY <2>2, <2>3
<1>9. CASE Goto(h, "nextDue")
  <2>1. op'[h].pc \notin Committed /\ op'[h].work = op[h].work /\ op'[h].scan = op[h].scan
    BY <1>5, <1>9 DEF Committed
  <2> QED
    BY <1>2, <1>4, <2>1, Rests, NotCommitted
<1>10. CASE At(h, "handBack") /\ \E a \in op[h].work : op' = [op EXCEPT ![h].work = @ \ {a}]
  <2>1. PICK a \in op[h].work : op' = [op EXCEPT ![h].work = @ \ {a}]
    BY <1>10
  <2> DEFINE r == [op[h] EXCEPT !.work = op[h].work \ {a}]
  <2>2. r \in CallType /\ r.pc = "handBack" /\ r.work = op[h].work \ {a} /\ r.scan = op[h].scan
    BY <1>1, <1>10 DEF CallType
  <2>3. op' = [op EXCEPT ![h] = r]
    BY <2>1
  <2> HIDE DEF r
  <2>4. op'[h].pc \notin Committed /\ op'[h].work \subseteq op[h].work
        /\ op'[h].scan = op[h].scan
    BY <1>1, <2>2, <2>3, ReplaceCall DEF Committed
  <2> QED
    BY <1>2, <1>4, <2>4, Rests, NotCommitted
<1>11. \/ End(h) \/ Goto(h, "nextDue")
       \/ At(h, "deliver") /\ Goto(h, "saleRead")
       \/ At(h, "removeItem") /\ Goto(h, "restore")
       \/ At(h, "handBack") /\ \E a \in op[h].work : op' = [op EXCEPT ![h].work = @ \ {a}]
  BY DEF Refuse, ItemRefused, Failed
<1> QED
  BY <1>6, <1>7, <1>8, <1>9, <1>10, <1>11

-----------------------------------------------------------------------------
(* The steps of a call do nothing to the items it does not claim. *)

LEMMA OthersStay ==
  ASSUME TInv, NEW h \in Handler, Call(h) \/ Step(h), NEW g \in Handler, g # h
  PROVE  op'[g] = op[g]
<1>1. op \in [Handler -> CallType]
  BY DEF TInv
<1>2. ASSUME NEW pc, Goto(h, pc)
      PROVE  op'[g] = op[g]
  BY <1>1, <1>2 DEF Goto
<1>3. End(h) => op'[g] = op[g]
  BY <1>1 DEF End
<1>4. ASSUME NEW o, Begin(h, o)
      PROVE  op'[g] = op[g]
  BY <1>1, <1>4 DEF Begin
<1>5. AfterSale(h) => op'[g] = op[g]
  BY <1>2, <1>3 DEF AfterSale
<1>6. Call(h) => op'[g] = op[g]
  BY <1>4 DEF Call, CreateListing, OnAuction
<1>7. CASE \/ GetItem(h) \/ RemoveItem(h) \/ Insert(h) \/ InsertFails(h) \/ Restore(h)
           \/ CancelListing(h) \/ CancelBids(h) \/ Cancel(h) \/ Return(h)
  BY <1>2, <1>3, <1>7 DEF GetItem, RemoveItem, Insert, InsertFails, Restore, CancelListing,
                          CancelBids, Cancel, Return
<1>8. CASE \/ Refuse(h) \/ Pay(h) \/ PaySeller(h) \/ Deliver(h) \/ SaleRead(h) \/ SaleWrite(h)
  BY <1>2, <1>3, <1>5, <1>8 DEF Refuse, Pay, PaySeller, Deliver, SaleRead, SaleWrite
<1>9. CASE \/ PlaceBid(h) \/ BidPay(h) \/ BidRefund(h) \/ BidWrite(h) \/ BidUndo(h)
           \/ HandedBack(h) \/ Expire(h) \/ ExpireRest(h)
  BY <1>2, <1>3, <1>9 DEF PlaceBid, BidPay, BidRefund, BidWrite, BidUndo, HandedBack, Expire,
                          ExpireRest
<1>10. CASE InstantBuy(h)
  BY <1>1, <1>3, <1>10 DEF InstantBuy
<1>11. CASE BidWinning(h)
  BY <1>1, <1>3, <1>11 DEF BidWinning
<1>12. CASE BidRead(h)
  BY <1>1, <1>2, <1>12 DEF BidRead
<1>13. CASE RetrieveExpired(h) \/ RetrieveCancelled(h)
  BY <1>1, <1>13 DEF RetrieveExpired, RetrieveCancelled
<1>14. CASE HandBack(h) \/ ItemRefused(h)
  BY <1>1, <1>2, <1>3, <1>14 DEF HandBack, ItemRefused
<1>15. CASE ProcessExpired(h)
  BY <1>1, <1>15 DEF ProcessExpired
<1>16. CASE NextDue(h)
  BY <1>1, <1>2, <1>16 DEF NextDue
<1>17. CASE DueWinning(h)
  BY <1>1, <1>2, <1>17 DEF DueWinning
<1>18. CASE Failed(h)
  BY <1>2, <1>3, <1>18 DEF Failed
<1> QED
  BY <1>6, <1>7, <1>8, <1>9, <1>10, <1>11, <1>12, <1>13, <1>14, <1>15, <1>16, <1>17, <1>18 DEF Step

\* The steps that write no table.
Reads(h) ==
  \/ GetItem(h) \/ RemoveItem(h) \/ Restore(h) \/ CancelListing(h) \/ CancelBids(h) \/ Return(h)
  \/ InstantBuy(h) \/ Refuse(h) \/ Pay(h) \/ PaySeller(h) \/ Deliver(h) \/ SaleRead(h)
  \/ PlaceBid(h) \/ BidWinning(h) \/ BidPay(h) \/ BidRefund(h) \/ BidRead(h) \/ BidUndo(h)
  \/ RetrieveExpired(h) \/ RetrieveCancelled(h) \/ HandBack(h) \/ HandedBack(h)
  \/ ProcessExpired(h) \/ NextDue(h) \/ DueWinning(h) \/ ItemRefused(h) \/ Failed(h)

LEMMA ReadsOnly ==
  ASSUME NEW h, Reads(h)
  PROVE  Tables
<1>1. CASE \/ GetItem(h) \/ RemoveItem(h) \/ Restore(h) \/ CancelListing(h) \/ CancelBids(h)
           \/ Return(h) \/ InstantBuy(h) \/ Refuse(h) \/ Pay(h) \/ PaySeller(h) \/ Deliver(h)
           \/ SaleRead(h)
  BY <1>1 DEF GetItem, RemoveItem, Restore, CancelListing, CancelBids, Return, InstantBuy,
              Refuse, Pay, PaySeller, Deliver, SaleRead
<1>2. CASE \/ PlaceBid(h) \/ BidWinning(h) \/ BidPay(h) \/ BidRefund(h) \/ BidRead(h)
           \/ BidUndo(h) \/ RetrieveExpired(h) \/ RetrieveCancelled(h) \/ HandBack(h)
           \/ HandedBack(h)
  BY <1>2 DEF PlaceBid, BidWinning, BidPay, BidRefund, BidRead, BidUndo, RetrieveExpired,
              RetrieveCancelled, HandBack, HandedBack
<1>3. CASE ProcessExpired(h) \/ NextDue(h) \/ DueWinning(h) \/ ItemRefused(h) \/ Failed(h)
  BY <1>3 DEF ProcessExpired, NextDue, DueWinning, ItemRefused, Failed
<1> QED
  BY <1>1, <1>2, <1>3 DEF Reads

\* A step that writes a row: the row it writes, of an item it claims.
LEMMA WritesRow ==
  ASSUME TInv, NEW h \in Handler, Cancel(h) \/ SaleWrite(h) \/ BidWrite(h) \/ Expire(h)
  PROVE  /\ Rows' /\ Grows /\ Auctions' = Auctions /\ op[h].auction \in Auctions
         /\ auctions'[op[h].auction].item = ItemOf(h)
         /\ \A b \in Auctions : b # op[h].auction => auctions'[b] = auctions[b]
         /\ Commits(h, ItemOf(h)) /\ Money /\ owner' = owner
<1> DEFINE a == op[h].auction
<1> USE DEF At
<1>1. /\ Rows /\ Knows(h) /\ op[h].pc \in {"cancel", "saleWrite", "bidWrite", "expire"}
      /\ Money /\ owner' = owner
  BY DEF TInv, Cancel, SaleWrite, BidWrite, Expire
<1>2. a \in Auctions /\ a # 0 /\ Commits(h, ItemOf(h))
  BY <1>1 DEF Knows, OnRow, Cancelling, Selling, Bidding, Auctions, Commits, Committed
<1>3. CASE Cancel(h) /\ auctions' = auctions
  <2>1. Tables
    BY <1>3 DEF Cancel, Tables
  <2>2. Rows' /\ Grows
    BY <2>1, TablesTypes
  <2> QED
    BY <1>1, <1>2, <1>3, <2>2 DEF Auctions, ItemOf
<1>4. CASE SetStatus(a, "cancelled") \/ SetStatus(a, "expired")
  BY <1>1, <1>2, <1>4, StatusStep DEF Status, ItemOf
<1>5. CASE SaleWrite(h)
  BY <1>1, <1>2, <1>5, SaleRow DEF ItemOf
<1>6. CASE BidWrite(h)
  BY <1>1, <1>2, <1>6, BidWriteRow DEF ItemOf
<1> QED
  BY <1>3, <1>4, <1>5, <1>6 DEF Cancel, Expire

LEMMA StepGrows ==
  ASSUME TInv, NEW h \in Handler, Step(h)
  PROVE  Grows
<1>1. CASE Reads(h)
  BY <1>1, ReadsOnly, TablesTypes
<1>2. CASE Cancel(h) \/ SaleWrite(h) \/ BidWrite(h) \/ Expire(h)
  BY <1>2, WritesRow
<1>3. CASE Insert(h) \/ InsertFails(h)
  <2>1. At(h, "insert") /\ Len(auctions) < MaxAuctions /\ Rows
    BY <1>3 DEF Insert, InsertFails, TInv
  <2>2. auctions' = auctions \/ auctions' = Append(auctions, NewAuction(h))
    BY <1>3 DEF Insert, InsertFails
  <2>3. CASE auctions' = auctions
    BY <2>1, <2>3 DEF Rows, Grows, Auctions
  <2>4. CASE auctions' = Append(auctions, NewAuction(h))
    <3>1. /\ NewAuction(h) \in Auction
          /\ IF NewAuction(h).isAuction THEN NewAuction(h).instantSalePrice \in Price
             ELSE NewAuction(h).bids = <<>>
      BY <2>1, NewType
    <3> QED
      BY <2>1, <2>4, <3>1, AppendStep
  <2> QED
    BY <2>2, <2>3, <2>4
<1>4. CASE ExpireRest(h)
  BY <1>4, ExpireRows DEF ExpireRest, TInv
<1> QED
  BY <1>1, <1>2, <1>3, <1>4 DEF Step, Reads

\* A payment for a listing is no other listing's.
LEMMA PaidElsewhere ==
  ASSUME TInv, NEW c, NEW x, NEW a, AddCredits(c, x, a) \/ PayOut(c, x, a)
  PROVE  \A b \in Auctions : b # a => ledger'[b] = ledger[b] /\ refused'[b] = refused[b]
<1>1. /\ \A b \in Auctions : b \in 1 .. MaxAuctions
      /\ ledger \in [1 .. MaxAuctions -> Int] /\ refused \in [1 .. MaxAuctions -> Nat]
  <2>1. \A b \in Auctions : b \in 1 .. MaxAuctions
    BY AccountType
  <2> QED
    BY <2>1 DEF TInv, Accounts
<1>2. CASE AddCredits(c, x, a)
  BY <1>1, <1>2 DEF AddCredits
<1>3. CASE refused' = [refused EXCEPT ![a] = @ + x] /\ UNCHANGED <<credits, ledger>>
  BY <1>1, <1>3
<1> QED
  BY <1>2, <1>3 DEF PayOut

\* An item that a call does not claim, before a step of it or after.
LEMMA Untouched ==
  ASSUME TInv, NEW h \in Handler, NEW i \in Item, Step(h), ~ExpireRest(h),
         i \notin Claims(h), i \notin Claims(h)'
  PROVE  SameItem(i)
<1> USE DEF At
<1>1. /\ Knows(h) /\ op \in [Handler -> CallType] /\ owner \in [Item -> Character \cup {Market}]
      /\ Rows
  BY DEF TInv
<1>2. ~Commits(h, i) /\ ~Commits(h, i)' /\ \A a \in op[h].work : auctions[a].item # i
  BY ClaimsAre DEF Claims, Commits
<1>3. CASE \/ GetItem(h) \/ CancelListing(h) \/ CancelBids(h) \/ InstantBuy(h) \/ Refuse(h)
           \/ SaleRead(h) \/ PlaceBid(h) \/ BidWinning(h) \/ BidRead(h)
           \/ RetrieveExpired(h) \/ RetrieveCancelled(h) \/ HandedBack(h)
           \/ ProcessExpired(h) \/ NextDue(h) \/ DueWinning(h) \/ ItemRefused(h) \/ Failed(h)
  <2>1. Tables
    BY <1>3, ReadsOnly DEF Reads
  <2>2. CASE GetItem(h) \/ CancelListing(h) \/ CancelBids(h) \/ InstantBuy(h) \/ Refuse(h)
             \/ SaleRead(h) \/ PlaceBid(h) \/ BidWinning(h) \/ BidRead(h)
    BY <2>1, <2>2, TablesSame DEF GetItem, CancelListing, CancelBids, InstantBuy, Refuse,
                                  SaleRead, PlaceBid, BidWinning, BidRead
  <2>3. CASE \/ RetrieveExpired(h) \/ RetrieveCancelled(h) \/ HandedBack(h)
             \/ ProcessExpired(h) \/ NextDue(h) \/ DueWinning(h) \/ ItemRefused(h) \/ Failed(h)
    BY <2>1, <2>3, TablesSame DEF RetrieveExpired, RetrieveCancelled, HandedBack,
                                  ProcessExpired, NextDue, DueWinning, ItemRefused, Failed
  <2> QED
    BY <1>3, <2>2, <2>3
<1>4. ASSUME Tables, Money, NEW c, NEW j \in Item, j # i, AddItem(c, j)
      PROVE  SameItem(i)
  <2>1. SameRows(i) /\ NoPayment
    BY <1>4, TablesSame DEF Money, NoPayment
  <2>2. owner'[i] = owner[i]
    BY <1>1, <1>4 DEF AddItem
  <2> QED
    BY <2>1, <2>2 DEF SameItem, SameBooks, NoPayment
<1>5. CASE RemoveItem(h)
  <2>1. Tables /\ Money /\ op[h].pc = "removeItem"
    BY <1>5 DEF RemoveItem
  <2>2. CASE UNCHANGED owner
    BY <2>1, <2>2, TablesSame
  <2>3. CASE AddItem(Market, op[h].item) /\ Goto(h, "insert")
    <3>1. op[h].item \in Item /\ op[h].auction = 0
      BY <1>1, <2>1 DEF Knows, Listing
    <3>2. op'[h].pc = "insert" /\ op'[h].auction = 0 /\ op'[h].item = op[h].item
      BY <1>1, <2>3, <3>1, GotoFields DEF PCs, Listing
    <3>3. op[h].item # i
      BY <1>2, <3>2 DEF Commits, Committed
    <3> QED
      BY <1>4, <2>1, <2>3, <3>1, <3>3
  <2> QED
    BY <1>5, <2>2, <2>3 DEF RemoveItem
<1>6. CASE Restore(h)
  <2>1. /\ Tables /\ Money /\ op[h].pc = "restore" /\ AddItem(op[h].who, op[h].item)
    BY <1>6 DEF Restore
  <2>2. op[h].item \in Item /\ op[h].item # i
    BY <1>1, <1>2, <2>1 DEF Knows, Listing, Commits, Committed
  <2> QED
    BY <1>4, <2>1, <2>2
<1>7. CASE Return(h) \/ Deliver(h)
  <2>1. /\ Tables /\ Money /\ op[h].pc \in {"return", "deliver"} /\ AddItem(op[h].who, ItemOf(h))
    BY <1>7 DEF Return, Deliver
  <2>2. op[h].auction \in Auctions /\ op[h].auction # 0
    BY <1>1, <2>1 DEF Knows, OnRow, Cancelling, Selling, Auctions
  <2>3. ItemOf(h) \in Item
    BY <1>1, <2>2, RowType DEF ItemOf
  <2>4. ItemOf(h) # i
    BY <1>2, <2>1, <2>2 DEF Commits, Committed
  <2> QED
    BY <1>4, <2>1, <2>3, <2>4
<1>8. CASE HandBack(h)
  <2>1. Tables /\ Money
    BY <1>8 DEF HandBack
  <2>2. PICK a \in op[h].work : AddItem(op[h].who, auctions[a].item)
    BY <1>8 DEF HandBack
  <2>3. a \in Auctions
    BY <1>1, <2>2 DEF Knows
  <2>4. auctions[a].item \in Item /\ auctions[a].item # i
    BY <1>1, <1>2, <2>2, <2>3, RowType
  <2> QED
    BY <1>4, <2>1, <2>2, <2>4
<1>9. CASE Pay(h) \/ PaySeller(h) \/ BidPay(h) \/ BidRefund(h) \/ BidUndo(h)
  <2>1. /\ Tables /\ UNCHANGED owner /\ op[h].pc \in Selling \cup Bidding
        /\ op[h].pc \in Committed
    BY <1>9 DEF Pay, PaySeller, BidPay, BidRefund, BidUndo, Selling, Bidding, Committed
  <2>2. \A b \in Auctions : b # op[h].auction =>
          ledger'[b] = ledger[b] /\ refused'[b] = refused[b]
    <3>1. CASE Pay(h) \/ BidPay(h)
      BY <3>1, PaidElsewhere DEF Pay, BidPay
    <3>2. CASE PaySeller(h)
      BY <3>2, PaidElsewhere DEF PaySeller
    <3>3. CASE BidRefund(h) \/ BidUndo(h)
      BY <3>3, PaidElsewhere DEF BidRefund, BidUndo
    <3> QED
      BY <1>9, <3>1, <3>2, <3>3
  <2>3. op[h].auction # 0
    BY <2>1, SalePcs
  <2>4. ItemOf(h) # i
    BY <1>2, <2>1, <2>3 DEF Commits
  <2>5. SameBooks(i)
    BY <2>2, <2>4 DEF SameBooks, Of, ItemOf
  <2> QED
    BY <2>1, <2>5, TablesSame DEF SameItem
<1>10. CASE Cancel(h) \/ SaleWrite(h) \/ BidWrite(h) \/ Expire(h)
  <2>1. /\ Auctions' = Auctions /\ op[h].auction \in Auctions
        /\ auctions'[op[h].auction].item = ItemOf(h)
        /\ \A b \in Auctions : b # op[h].auction => auctions'[b] = auctions[b]
        /\ Commits(h, ItemOf(h)) /\ Money /\ owner' = owner
    BY <1>10, WritesRow
  <2>2. auctions[op[h].auction].item # i /\ auctions'[op[h].auction].item
          = auctions[op[h].auction].item
    BY <1>2, <2>1 DEF ItemOf
  <2>3. SameRows(i)
    BY <2>1, <2>2, OtherRows
  <2> QED
    BY <2>1, <2>3 DEF SameItem, SameBooks, Money, NoPayment
<1>11. CASE Insert(h) \/ InsertFails(h)
  <2>1. At(h, "insert") /\ Len(auctions) < MaxAuctions /\ Money /\ UNCHANGED <<owner, calls>>
    BY <1>11 DEF Insert, InsertFails
  <2>2. op[h].item # i
    BY <1>1, <1>2, <2>1 DEF Knows, Listing, Commits, Committed
  <2>3. auctions' = auctions \/ auctions' = Append(auctions, NewAuction(h))
    BY <1>11 DEF Insert, InsertFails
  <2>4. CASE auctions' = auctions
    BY <2>1, <2>4, TablesSame DEF Tables
  <2>5. CASE auctions' = Append(auctions, NewAuction(h))
    <3>1. SameRows(i)
      BY <2>1, <2>2, <2>5, NewRow
    <3> QED
      BY <2>1, <3>1 DEF SameItem, SameBooks, Money, NoPayment
  <2> QED
    BY <2>3, <2>4, <2>5
<1> QED
  BY <1>3, <1>5, <1>6, <1>7, <1>8, <1>9, <1>10, <1>11 DEF Step

\* expireListings: an item whose listing it takes off the market has no bid and
\* no call that claims it, or it is in dispute.
LEMMA ExpireRestItem ==
  ASSUME TInv, NEW h \in Handler, NEW i \in Item, ExpireRest(h), ItemInv(i), i \notin Wronged(h)
  PROVE  ItemInv(i)'
<1> USE DEF At
<1>1. /\ op[h].pc = "expireRest" /\ End(h) /\ Money /\ owner' = owner /\ Rows
      /\ op \in [Handler -> CallType] /\ Works(h)
  BY DEF ExpireRest, TInv
<1>2. /\ Grows /\ Auctions' = Auctions
      /\ \A b \in Auctions :
           /\ b \notin Due => auctions'[b] = auctions[b]
           /\ b \in Due => auctions'[b].status = "expired"
           /\ auctions'[b].item = auctions[b].item /\ auctions'[b].sales = auctions[b].sales
           /\ auctions'[b].bids = auctions[b].bids /\ auctions'[b].price = auctions[b].price
  BY <1>1, ExpireRows DEF ExpireRest
<1>3. Of(i)' = Of(i)
  BY <1>2 DEF Of
<1>4. /\ op'[h].pc \notin Committed /\ op'[h].work = {}
      /\ \A g \in Handler : g # h => op'[g] = op[g]
  BY <1>1, EndFields, IdleType DEF Committed
<1>5. i \notin Claims(h) /\ i \notin Claims(h)'
  <2>1. op[h].work = {}
    BY <1>1 DEF Works, Scanning
  <2> QED
    BY <1>1, <1>4, <2>1 DEF Claims, Committed
<1>6. CASE Of(i) \cap Due = {}
  <2>1. \A b \in Of(i) : auctions'[b] = auctions[b] /\ auctions[b].item = i
    BY <1>2, <1>6 DEF Of
  <2>2. SameItem(i)
    BY <1>1, <1>3, <2>1 DEF SameItem, SameBooks, NoPayment, SameRows, Money
  <2> QED
    BY <1>2, <1>4, <1>5, <2>2, LeftAlone
<1>7. CASE Of(i) \cap Due # {}
  <2>1. PICK a \in Of(i) : a \in Due
    BY <1>7
  <2>2. a \in Auctions /\ auctions[a].item = i /\ OnOffer(a)
    BY <2>1 DEF Of, Due, OnOffer
  <2>3. auctions[a].bids = <<>> /\ Quiet(i)
    BY <1>1, <2>1, <2>2 DEF Wronged
  <2>4. Sane(i) /\ AtRest(i)
    BY <2>3, ClaimsAre DEF Quiet, ItemInv
  <2>5. Winning(a) = {}
    BY <2>3 DEF Winning
  <2>6. \A b \in Of(i) : b # a => auctions'[b] = auctions[b]
    <3>1. \A b \in Of(i) : b # a => b \notin Due
      BY <2>2, <2>4, OneOffer DEF Due, OnOffer
    <3> QED
      BY <1>2, <3>1 DEF Of
  <2>7. Sane(i)' /\ AtRest(i)'
    BY <1>1, <1>2, <1>3, <2>1, <2>2, <2>4, <2>5, <2>6, Withdrawn DEF Money, NoPayment
  <2>8. Mine(h, i)'
    BY <1>4, <2>7, Settles
  <2>9. \A g \in Handler : g # h => i \notin Claims(g)'
    BY <1>2, <1>4, <2>3, ClaimsStay DEF Quiet
  <2> QED
    BY <2>8, <2>9, OnlyMine
<1> QED
  BY <1>6, <1>7

\* A call begins, with nothing checked.
LEMMA BeginItem ==
  ASSUME TInv, NEW h \in Handler, NEW i \in Item, Call(h), ItemInv(i)
  PROVE  Grows /\ ItemInv(i)'
<1> USE DEF At
<1>1. op \in [Handler -> CallType] /\ Works(h)
  BY DEF TInv
<1>2. ASSUME NEW o, Begin(h, o), o.pc \notin Committed, o.work = {}
      PROVE  /\ UNCHANGED <<auctions, owner, credits, ledger, refused>>
             /\ op[h].pc = "idle" /\ op'[h].pc \notin Committed /\ op'[h].work = {}
  BY <1>1, <1>2 DEF Begin
<1>3. /\ UNCHANGED <<auctions, owner, credits, ledger, refused>>
      /\ op[h].pc = "idle" /\ op'[h].pc \notin Committed /\ op'[h].work = {}
  <2>1. CASE \E c \in Character, j \in Item, p \in Price, isAuction \in BOOLEAN :
               CreateListing(h, c, j, p, isAuction)
    BY <1>2, <2>1 DEF CreateListing, Idle, Committed
  <2>2. CASE \E c \in Character, a \in Auctions, pc \in {"cancelListing", "instantBuy"} :
               OnAuction(h, pc, c, a)
    BY <1>2, <2>2 DEF OnAuction, Idle, Committed
  <2>3. CASE \E c \in Character, a \in Auctions, p \in Price :
               Begin(h, [Idle EXCEPT !.pc = "placeBid", !.who = c, !.auction = a, !.price = p])
    BY <1>2, <2>3 DEF Idle, Committed
  <2>4. CASE \/ \E c \in Character : Begin(h, [Idle EXCEPT !.pc = "retrieve", !.who = c])
             \/ Begin(h, [Idle EXCEPT !.pc = "processExpired"])
    BY <1>2, <2>4 DEF Idle, Committed
  <2> QED
    BY <2>1, <2>2, <2>3, <2>4 DEF Call
<1>4. i \notin Claims(h) /\ i \notin Claims(h)'
  <2>1. op[h].work = {}
    BY <1>1, <1>3 DEF Works, Scanning
  <2> QED
    BY <1>3, <2>1 DEF Claims, Committed
<1>5. Grows /\ SameItem(i)
  BY <1>3 DEF TInv, Rows, Grows, Auctions, SameItem, SameBooks, NoPayment, SameRows, Of
<1>6. \A g \in Handler : g # h => op'[g] = op[g]
  BY OthersStay
<1> QED
  BY <1>4, <1>5, <1>6, LeftAlone

\* A step of a call keeps what is so of an item that it does not bring into dispute.
LEMMA StepItem ==
  ASSUME TInv, NEW h \in Handler, NEW i \in Item, Step(h), ItemInv(i),
         i \notin Clash, i \notin Clash',
         op'[h] # op[h] => i \notin Wronged(h),
         ItemRefused(h) \/ Failed(h) => i \notin Halfway(h)
  PROVE  ItemInv(i)'
<1>1. Grows /\ \A g \in Handler : g # h => op'[g] = op[g]
  BY StepGrows, OthersStay
<1>2. CASE ExpireRest(h)
  <2>1. op'[h] # op[h]
    BY <1>2, EndFields, IdleType DEF ExpireRest, At, TInv
  <2> QED
    BY <1>2, <2>1, ExpireRestItem
<1>3. CASE ~ExpireRest(h) /\ i \notin Claims(h) /\ i \notin Claims(h)'
  BY <1>1, <1>3, Untouched, LeftAlone
<1>4. CASE ~ExpireRest(h) /\ (i \in Claims(h) \/ i \in Claims(h)')
  <2>1. Mine(h, i) /\ \A g \in Handler : g # h => i \notin Claims(g) /\ i \notin Claims(g)'
    BY <1>1, <1>4, OnlyOne
  <2>2. Mine(h, i)'
    <3>1. CASE GetItem(h) \/ RemoveItem(h) \/ Insert(h) \/ InsertFails(h) \/ Restore(h)
      BY <2>1, <3>1, ListingItem
    <3>2. CASE CancelListing(h) \/ CancelBids(h) \/ Cancel(h) \/ Return(h)
      BY <2>1, <3>2, CancellingItem
    <3>3. CASE InstantBuy(h)
      BY <2>1, <3>3, InstantBuyItem
    <3>4. CASE Pay(h) \/ PaySeller(h) \/ Deliver(h) \/ SaleRead(h) \/ SaleWrite(h)
      BY <2>1, <3>4, SellingItem
    <3>5. CASE PlaceBid(h) \/ BidWinning(h)
      BY <2>1, <3>5, BidOpens
    <3>6. CASE BidPay(h) \/ BidRefund(h) \/ BidRead(h) \/ BidWrite(h) \/ BidUndo(h)
      BY <2>1, <3>6, BiddingItem
    <3>7. CASE RetrieveExpired(h) \/ RetrieveCancelled(h) \/ HandBack(h) \/ HandedBack(h)
      BY <2>1, <3>7, RetrievingItem
    <3>8. CASE ProcessExpired(h) \/ NextDue(h) \/ DueWinning(h) \/ Expire(h)
      BY <2>1, <3>8, ScanningItem
    <3>9. CASE Refuse(h) \/ ItemRefused(h) \/ Failed(h)
      BY <2>1, <3>9, FailingItem
    <3> QED
      BY <1>4, <3>1, <3>2, <3>3, <3>4, <3>5, <3>6, <3>7, <3>8, <3>9 DEF Step
  <2> QED
    BY <2>1, <2>2, OnlyMine
<1> QED
  BY <1>2, <1>3, <1>4

LEMMA MarketInit ==
  ASSUME DisputeInit
  PROVE  MInv
<1>1. Init /\ TInv
  BY TypesInit DEF DisputeInit
<1>2. \A h \in Handler : op[h] = Idle
  BY <1>1 DEF Init
<1>3. \A i \in Item : Of(i) = {}
  BY <1>1 DEF Init, Of, Auctions
<1>4. \A h \in Handler : Claims(h) = {}
  BY <1>2, IdleType DEF Claims, Committed
<1>5. Clash = {}
  BY <1>4 DEF Clash
<1>6. ASSUME NEW i \in Item
      PROVE  ItemInv(i)
  <2>1. owner[i] # Market
    BY <1>1, MarketAssumption, BazaarAssumption DEF Init, BazaarAssumption
  <2>2. Sane(i) /\ AtRest(i)
    BY <1>3, <2>1 DEF Sane, AtRest, Balanced, Placed
  <2>3. \A h \in Handler : ~Commits(h, i) /\ WorkPhase(h, i)
    BY <1>2, IdleType DEF Commits, Committed, WorkPhase
  <2> QED
    BY <2>2, <2>3 DEF ItemInv
<1> QED
  BY <1>1, <1>5, <1>6 DEF MInv

\* What a step of the market leaves out of dispute.
LEMMA Undisputed ==
  ASSUME MInv, DisputeNext, NEW i \in Item, i \notin disputed'
  PROVE  /\ i \notin disputed /\ ItemInv(i) /\ i \notin Clash /\ i \notin Clash'
         /\ \A h \in Handler : op'[h] # op[h] => i \notin Wronged(h)
         /\ \A h \in Handler : ItemRefused(h) \/ Failed(h) => i \notin Halfway(h)
BY DEF MInv, DisputeNext

LEMMA MarketStep ==
  ASSUME MInv, [DisputeNext]_<<vars, disputed>>
  PROVE  MInv'
<1>1. TInv
  BY DEF MInv
<1>2. TInv'
  <2>1. [Next]_vars
    BY DEF DisputeNext
  <2> QED
    BY <1>1, <2>1, TypesStep
<1>3. CASE DisputeNext
  <2>1. Clash' \subseteq disputed'
    BY <1>3 DEF DisputeNext
  <2>2. ASSUME NEW i \in Item, i \notin disputed'
        PROVE  ItemInv(i)'
    <3>1. ItemInv(i) /\ i \notin Clash /\ i \notin Clash'
      BY <1>3, <2>2, Undisputed
    <3>2. \A h \in Handler : /\ op'[h] # op[h] => i \notin Wronged(h)
                             /\ ItemRefused(h) \/ Failed(h) => i \notin Halfway(h)
      BY <1>3, <2>2, Undisputed
    <3>3. CASE \E h \in Handler : Call(h)
      BY <1>1, <3>1, <3>3, BeginItem
    <3>4. CASE \E h \in Handler : Step(h)
      BY <1>1, <3>1, <3>2, <3>4, StepItem
    <3>5. CASE \E a \in Auctions : TimePasses(a)
      <4>1. PICK a \in Auctions : TimePasses(a)
        BY <3>5
      <4>2. /\ Grows /\ Auctions' = Auctions
            /\ \A b \in Auctions :
                 /\ auctions'[b].item = auctions[b].item
                 /\ auctions'[b].sales = auctions[b].sales
                 /\ auctions'[b].bids = auctions[b].bids
                 /\ auctions'[b].price = auctions[b].price
                 /\ auctions'[b].status = auctions[b].status
        BY <1>1, <4>1, TimeStep
      <4>3. UNCHANGED <<owner, credits, ledger, refused, op, calls>>
        BY <4>1 DEF TimePasses, Money
      <4>4. SameItem(i)
        BY <4>2, <4>3 DEF SameItem, SameBooks, NoPayment, SameRows, Of
      <4> QED
        BY <1>1, <3>1, <4>2, <4>3, <4>4, LeftAlone
    <3> QED
      BY <1>3, <3>3, <3>4, <3>5 DEF DisputeNext, Next
  <2> QED
    BY <1>2, <2>1, <2>2 DEF MInv
<1>4. CASE UNCHANGED <<vars, disputed>>
  <2>1. /\ auctions' = auctions /\ owner' = owner /\ NoPayment /\ op' = op
        /\ calls' = calls /\ disputed' = disputed /\ credits' = credits
    BY <1>4 DEF vars, NoPayment
  <2>2. \A h : Claims(h)' = Claims(h)
    BY <2>1 DEF Claims, ItemOf
  <2>3. Clash' = Clash
    BY <2>2 DEF Clash
  <2>4. Grows
    BY <1>1, <2>1, TablesTypes DEF Tables
  <2>5. ASSUME NEW i \in Item, i \notin disputed
        PROVE  ItemInv(i)'
    <3>1. SameItem(i)
      BY <1>1, <2>1, TablesSame DEF Tables, Money, NoPayment
    <3> QED
      BY <1>1, <2>1, <2>4, <2>5, <3>1, LeftAlone DEF MInv
  <2> QED
    BY <1>2, <2>1, <2>3, <2>5 DEF MInv
<1> QED
  BY <1>3, <1>4

LEMMA MarketInvariant == DisputeSpec => []MInv
<1>1. DisputeInit => MInv
  BY MarketInit
<1>2. MInv /\ [DisputeNext]_<<vars, disputed>> => MInv'
  BY MarketStep
<1> QED
  BY <1>1, <1>2, PTL DEF DisputeSpec

-----------------------------------------------------------------------------
(* What follows from the invariant. *)

LEMMA SettledRests ==
  ASSUME MInv, NEW i \in Item, Settled(i)
  PROVE  /\ TInv /\ Sane(i) /\ Balanced(i) /\ Placed(i)
         /\ \A a \in Of(i) : Last(a) <=> a = Latest(i)
<1>1. /\ TInv /\ ItemInv(i)
  BY DEF MInv, Settled
<1>2. \A h \in Handler : ~Commits(h, i)
  BY ClaimsAre DEF Settled, Quiet
<1>3. Sane(i) /\ AtRest(i)
  BY <1>1, <1>2 DEF ItemInv
<1>4. \A a \in Of(i) : Last(a) <=> a = Latest(i)
  BY <1>1, <1>3, LatestIs, OneLast
<1> QED
  BY <1>1, <1>3, <1>4 DEF AtRest

LEMMA BooksFollow == MInv => BooksBalance
<1> SUFFICES ASSUME MInv, NEW i \in Item, Settled(i), NEW a \in Of(i)
             PROVE  ledger[a] - refused[a] \in Rightful(a)
  BY DEF BooksBalance
<1>1. Books(a, 0)
  BY SettledRests DEF Balanced
<1>2. PICK y \in Rightful(a) \cap Int : Kept(a) = y + 0
  BY <1>1 DEF Books
<1> QED
  BY <1>2 DEF Kept

LEMMA SoldFollow == MInv => SoldToPayer
<1> SUFFICES ASSUME MInv, NEW i \in Item, Settled(i), NEW a \in Of(i)
             PROVE  /\ auctions[a].status = "sold" <=> Len(auctions[a].sales) = 1
                    /\ Len(auctions[a].sales) <= 1
                    /\ auctions[a].status = "sold" /\ a = Latest(i)
                         => owner[i] = auctions[a].sales[1].buyer
  BY DEF SoldToPayer
<1>1. Sane(i) /\ Placed(i) /\ (Last(a) <=> a = Latest(i))
  BY SettledRests
<1> QED
  BY <1>1 DEF Sane, Record, Placed

LEMMA OffersFollow == MInv => MarketHoldsOffered
<1> SUFFICES ASSUME MInv, NEW i \in Item, Settled(i)
             PROVE  /\ \A a \in Of(i) : auctions[a].status = "active"
                                          => a = Latest(i) /\ owner[i] = Market
                    /\ owner[i] = Market =>
                         /\ Of(i) # {}
                         /\ auctions[Latest(i)].status \in {"active", "cancelled", "expired"}
  BY DEF MarketHoldsOffered
<1>1. /\ Sane(i) /\ Placed(i) /\ TInv
      /\ \A a \in Of(i) : Last(a) <=> a = Latest(i)
  BY SettledRests
<1>2. \A a \in Of(i) : auctions[a].status = "active" => a = Latest(i) /\ owner[i] = Market
  BY <1>1 DEF Sane, Placed, OnOffer
<1>3. ASSUME owner[i] = Market
      PROVE  /\ Of(i) # {}
             /\ auctions[Latest(i)].status \in {"active", "cancelled", "expired"}
  <2>1. PICK a \in Of(i) : Last(a) /\ auctions[a].status # "sold"
    BY <1>1, <1>3 DEF Placed
  <2>2. auctions[a] \in Auction
    BY <1>1, RowType DEF Of, TInv
  <2>3. auctions[a].status \in Status
    BY <2>2 DEF Auction
  <2> QED
    BY <1>1, <2>1, <2>3 DEF Status
<1> QED
  BY <1>2, <1>3

\* The update of a sale and that of an expiry name the auction and not its status:
\* it is on offer, unless its item is in dispute.
LEMMA EndedStep ==
  ASSUME MInv, DisputeNext, NEW a \in Auctions, auctions[a].status # "active",
         auctions[a].item \notin disputed'
  PROVE  auctions'[a].status = auctions[a].status
<1>1. TInv /\ Rows /\ auctions[a].item \in Item
  BY RowType DEF MInv, TInv
<1>2. ItemInv(auctions[a].item)
  BY <1>1, Undisputed
<1>3. ASSUME NEW h \in Handler, Step(h)
      PROVE  auctions'[a].status = auctions[a].status
  <2>1. CASE Reads(h)
    BY <2>1, ReadsOnly DEF Tables
  <2>2. CASE Insert(h) \/ InsertFails(h)
    <3>1. At(h, "insert") /\ Len(auctions) < MaxAuctions /\ auctions[a].item \in Item
      BY <1>1, <2>2 DEF Insert, InsertFails
    <3>2. auctions' = auctions \/ auctions' = Append(auctions, NewAuction(h))
      BY <2>2 DEF Insert, InsertFails
    <3> QED
      BY <1>1, <3>1, <3>2, NewRow
  <2>3. CASE Cancel(h) \/ SaleWrite(h) \/ BidWrite(h) \/ Expire(h)
    <3>1. /\ Commits(h, ItemOf(h)) /\ op[h].auction \in Auctions
          /\ \A b \in Auctions : b # op[h].auction => auctions'[b] = auctions[b]
      BY <1>1, <2>3, WritesRow
    <3>2. CASE a # op[h].auction
      BY <3>1, <3>2
    <3>3. CASE a = op[h].auction
      <4>1. Phase(h, auctions[a].item)
        BY <1>2, <3>1, <3>3 DEF ItemInv, ItemOf
      <4>2. CASE Cancel(h)
        BY <3>3, <4>2 DEF Cancel, Active
      <4>3. ~SaleWrite(h) /\ ~Expire(h)
        BY <3>3, <4>1 DEF SaleWrite, Expire, At, Phase, SellingPhase, EndingPhase, OnOffer,
                          Selling
      <4>4. CASE BidWrite(h)
        BY <1>1, <3>3, <4>4, BidWriteRow
      <4> QED
        BY <2>3, <4>2, <4>3, <4>4
    <3> QED
      BY <3>2, <3>3
  <2>4. CASE ExpireRest(h)
    <3>1. a \notin Due
      BY DEF Due
    <3> QED
      BY <1>1, <2>4, <3>1, ExpireRows DEF ExpireRest
  <2> QED
    BY <1>3, <2>1, <2>2, <2>3, <2>4 DEF Step, Reads
<1>4. ASSUME NEW h \in Handler, Call(h)
      PROVE  auctions'[a].status = auctions[a].status
  <2>1. auctions' = auctions
    BY <1>4 DEF Call, CreateListing, OnAuction, Begin
  <2> QED
    BY <2>1
<1>5. ASSUME NEW b \in Auctions, TimePasses(b)
      PROVE  auctions'[a].status = auctions[a].status
  BY <1>1, <1>5, TimeStep
<1> QED
  BY <1>3, <1>4, <1>5 DEF DisputeNext, Next

\* Of every listing of an item about which nothing has gone wrong, and which no call
\* is working on, the market has its winning bid while it is active, the commission of
\* the recorded sale once it is sold, and nothing otherwise, but for what addCredits has
\* refused to pay out: every other bid is paid back, once, and a seller gets the price
\* less the commission (bazaar-handler.ts:789, :799, :938, :958, :1298).
THEOREM BazaarBooksBalance == DisputeSpec => []BooksBalance
BY MarketInvariant, BooksFollow, PTL

\* A listing is sold when there is one sale record of it, and a sold item is with the
\* buyer of that record, until it is listed again (bazaar-handler.ts:807, :811).
THEOREM BazaarSoldToPayer == DisputeSpec => []SoldToPayer
BY MarketInvariant, SoldFollow, PTL

\* An item that is on offer is the market's and is offered once, and an item that the
\* market has is on offer or waits for its seller (bazaar-handler.ts:517, :543, :615, :1131).
THEOREM BazaarMarketHoldsOffered == DisputeSpec => []MarketHoldsOffered
BY MarketInvariant, OffersFollow, PTL

\* A listing that was sold, cancelled or has expired stays that, although the statements
\* that sell and expire one do not ask for its status, as long as its item is not in
\* dispute (market-repository.ts:308, :550).
THEOREM BazaarEndedStaysEnded == DisputeSpec => EndedStaysEnded
<1>1. MInv /\ [DisputeNext]_<<vars, disputed>> =>
        [\A a \in Auctions :
           auctions[a].status # "active" /\ auctions[a].item \notin disputed'
             => auctions'[a].status = auctions[a].status]_<<vars, disputed>>
  BY EndedStep
<1> QED
  BY <1>1, MarketInvariant, PTL DEF DisputeSpec, EndedStaysEnded

=============================================================================
