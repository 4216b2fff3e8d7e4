SPECIFICATION Spec
CONSTANTS
  Procs = {p1, p2}
  Res = {11, 12}
  Units <- MCUnits
  Combos <- MCCombos
  ComboUnits <- MCComboUnits
  Parties = {1, 2}
  Ranges <- MCRanges
  Capacities <- MCCapacities
  Blackouts = {4}
  BlackoutRange <- MCBlackoutRange
  Ttl = 1
  MaxClock = 1
  Venues <- OpenVenue
  SweepLimit = 1
  Commands <- ConfigCommands
SYMMETRY Symmetry
INVARIANT NothingStranded
