SPECIFICATION BoundedSpec
CONSTANTS
  Accounts = {a1}
  Instruments = {i1, i2}
  Prices <- CentPrices
  Quantities <- Lots
  InitialCash <- StartingCash
INVARIANTS MoneyIsConserved FlatCostsNothing AverageIsAPrice
