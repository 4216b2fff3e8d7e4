SPECIFICATION Spec
CONSTANTS
  Res = {11, 12}
  Units <- MCUnits
  Combos <- MCCombos
  ComboUnits <- MCComboUnits
  Parties = {2}
  Ranges <- MCRanges
  Capacities <- MCCapacities
  Blackouts = {4}
  BlackoutRange <- MCBlackoutRange
  Ttl = 1
  MaxClock = 1
  Periods <- MCPeriods
  SlotStep = 1
  Window <- MCWindow
  Limit = 2
  MaxStarts = 3
  Reach = 2
INVARIANT OffersBookable OffersComplete
