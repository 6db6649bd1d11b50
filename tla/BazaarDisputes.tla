--------------------------- MODULE BazaarDisputes ---------------------------
(***************************************************************************)
(* What the market promises for an item about which nothing has gone       *)
(* wrong.  disputed collects the items that a gap of the code has touched: *)
(* two calls past their checks at once; a step that fails, or an addItem   *)
(* that does nothing, when money or the item has moved (an addCredits that *)
(* does nothing is no dispute: refused accounts for it); an instant sale   *)
(* of an auction with bids; one with bids that expires unsold; a bidder    *)
(* who is paid back although the auction has ended; an item handed back or *)
(* restored although it is on offer or gone.                               *)
(***************************************************************************)
EXTENDS Bazaar

VARIABLE disputed

-----------------------------------------------------------------------------
\* Calls that have made their checks, or have moved something.
Committed == {"insert", "restore", "cancel", "return", "pay", "paySeller", "deliver",
              "saleRead", "saleWrite", "bidPay", "bidRefund", "bidRead", "bidWrite",
              "bidUndo", "dueWinning", "expire"}

\* The items a call has checked and may yet change something about.
Claims(h) ==
  {auctions[a].item : a \in op[h].work}
    \cup (IF op[h].pc \notin Committed THEN {}
          ELSE IF op[h].auction = 0 THEN {op[h].item} ELSE {ItemOf(h)})

Clash == {i \in Item : \E g, h \in Handler : g # h /\ i \in Claims(g) \cap Claims(h)}

Quiet(i) == \A h \in Handler : i \notin Claims(h)

Of(i) == {a \in Auctions : auctions[a].item = i}

Latest(i) == CHOOSE a \in Of(i) : \A b \in Of(i) : b <= a

\* The item of a call that has moved money, or an item, when it stops.
Halfway(h) ==
  IF At(h, "restore") THEN {op[h].item}
  ELSE IF \/ op[h].pc \in {"deliver", "saleRead", "saleWrite", "bidRefund", "bidRead",
                            "bidWrite", "bidUndo"}
          \/ At(h, "paySeller") /\ ~op[h].scan
       THEN {ItemOf(h)} ELSE {}

\* The items the next step of a call, as it is, does wrong by.
Wronged(h) ==
  CASE At(h, "pay") -> IF auctions[op[h].auction].bids # <<>> THEN {ItemOf(h)} ELSE {}
    [] At(h, "bidRefund") -> IF Active(h) THEN {} ELSE {ItemOf(h)}
    [] At(h, "restore") ->
         IF \/ owner[op[h].item] \notin {Market, op[h].who}
            \/ \E a \in Of(op[h].item) : auctions[a].status = "active"
         THEN {op[h].item} ELSE {}
    [] At(h, "expireRest") ->
         {auctions[a].item : a \in {b \in Due : auctions[b].bids # <<>>
                                                  \/ ~Quiet(auctions[b].item)}}
    [] At(h, "handBack") ->
         {auctions[a].item : a \in {b \in op[h].work : b # Latest(auctions[b].item)
                                                  \/ owner[auctions[b].item] # Market}}
    [] OTHER -> {}

DisputeInit == Init /\ disputed = {}

DisputeNext ==
  /\ Next
  /\ disputed' = disputed \cup Clash'
       \cup (UNION {Wronged(h) : h \in {g \in Handler : op'[g] # op[g]}})
       \cup (UNION {Halfway(h) : h \in {g \in Handler : ItemRefused(g) \/ Failed(g)}})

DisputeSpec == DisputeInit /\ [][DisputeNext]_<<vars, disputed>>

-----------------------------------------------------------------------------
(* Properties. *)

Settled(i) == i \notin disputed /\ Quiet(i)

\* What the market may keep of what was paid for a listing: the winning bid
\* while it is active, and of a sale its commission at some terminal's rate.
Rightful(a) ==
  IF auctions[a].status = "active" /\ Winning(a) # {}
  THEN {Bid(a, n).amount : n \in Winning(a)}
  ELSE IF auctions[a].status = "sold"
  THEN {Commission(auctions[a].sales[1].price, rate) : rate \in Rate}
  ELSE {0}

\* Of every listing the market has what it may keep, and what addCredits has
\* refused to pay out, which nobody notices: no bid is kept that was beaten,
\* none is paid back twice, and the seller gets the price of the sale record
\* less the commission, once (bazaar-handler.ts:789, :799, :938, :958, :1298).
BooksBalance ==
  \A i \in Item : Settled(i) => \A a \in Of(i) : ledger[a] - refused[a] \in Rightful(a)

\* A sold item went to the one whose sale is recorded, once, and the market has
\* it no longer (bazaar-handler.ts:807, :811).
SoldToPayer ==
  \A i \in Item : Settled(i) =>
    \A a \in Of(i) :
      /\ auctions[a].status = "sold" <=> Len(auctions[a].sales) = 1
      /\ Len(auctions[a].sales) <= 1
      /\ auctions[a].status = "sold" /\ a = Latest(i)
           => owner[i] = auctions[a].sales[1].buyer

\* An item on offer is the market's, and is offered once; and an item the market
\* holds is on offer, or its seller may have it back: it is not lost
\* (bazaar-handler.ts:517, :543, :615, :1131).
MarketHoldsOffered ==
  \A i \in Item : Settled(i) =>
    /\ \A a \in Of(i) : auctions[a].status = "active" => a = Latest(i) /\ owner[i] = Market
    /\ owner[i] = Market =>
         /\ Of(i) # {}
         /\ auctions[Latest(i)].status \in {"active", "cancelled", "expired"}

\* What has ended has ended: no step takes an auction that was sold, cancelled or
\* expired to another status, unless its item is in dispute (market-repository.ts:308, :550).
EndedStaysEnded ==
  [][\A a \in Auctions :
       auctions[a].status # "active" /\ auctions[a].item \notin disputed'
         => auctions'[a].status = auctions[a].status]_<<vars, disputed>>
=============================================================================
