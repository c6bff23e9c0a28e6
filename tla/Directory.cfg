SPECIFICATION FairSpec
CONSTANTS
  a = a
  b = b
  c = c
  k1 = k1
  office = office
  holder1 = holder1
  holder2 = holder2
  Names = {a, b, c, office, holder1, holder2}
  Keys = {k1}
  Ids = {1, 2}
  Writers = {w1}
  Writes <- Filings
  Clerks = {c1, c2}
  Requests <- Asked
  MaxOps = 2
  MaxPuts = 2
  Logins = {holder1}
INVARIANTS TypeOK FiledInTimeFollows ReversedExactly HistoryNamesHolder
PROPERTY CachesSettle
