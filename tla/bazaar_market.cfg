SPECIFICATION DisputeSpec
CONSTANTS
  h1 = h1  h2 = h2  seller = seller  anna = anna  ben = ben
  Character = {seller, anna, ben}
  Seller = seller
  Item = {knife}
  Price = {20, 30}
  Rate = {10}
  Credits = 40
  Handler = {h1, h2}
  PageSize = 1
  MaxAuctions = 2
  MaxCalls = 5
SYMMETRY Symmetry
CONSTRAINT Undisputed
INVARIANTS TypeOK BooksBalance SoldToPayer MarketHoldsOffered
PROPERTY EndedStaysEnded
CHECK_DEADLOCK FALSE
