SPECIFICATION FairSpec
CONSTANTS
  s1 = s1
  o1 = o1
  MaxEvents = 2
  Engine <- OneEngine
  Others <- OneElsewhere
  MaxFaults = 3
INVARIANTS TypeOK DeliveredMeansSent
PROPERTIES ImplementsCardQueue CardSettles
