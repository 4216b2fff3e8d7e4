SPECIFICATION FairSpec
CONSTANTS
  Procs = {p1, p2, p3}
  Res = {11, 12}
  Units <- MCUnits
  Combos <- MCCombos
  ComboUnits <- MCComboUnits
  Parties = {1, 2}
  Ranges <- MCRanges
  Capacities <- OneCapacity
  Blackouts = {4}
  BlackoutRange <- MCBlackoutRange
  Ttl = 1
  MaxClock = 0
  Venues <- OpenVenue
  SweepLimit = 1
  Commands <- FairCommands
PROPERTY TransactionsEnd
