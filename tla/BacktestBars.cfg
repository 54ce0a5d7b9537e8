SPECIFICATION Spec
CONSTANTS
  RiskDivisor = 10
  Unit = 100
  CostRate = 1
  Prices <- Levels
  Ranges = {0, 2}
  SlipDivisor = 10
  MaxBars = 3
  Capital = 10000
CHECK_DEADLOCK FALSE
INVARIANTS TypeOK  
