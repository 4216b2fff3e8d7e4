SPECIFICATION Spec
CONSTANTS
  Procs = {p1, p2}
  Res = {11, 12}
  Units <- MCUnits
  Combos <- MCCombos
  ComboUnits <- MCComboUnits
  Parties = {1, 2}
  Ranges <- MCRanges
  Capacities <- OneCapacity
  Blackouts = {}
  BlackoutRange <- NoBlackouts
  Ttl = 1
  MaxClock = 1
  Venues <- OpenVenue
  SweepLimit = 1
  Commands <- BookingCommands
SYMMETRY Symmetry
INVARIANT NoDoubleBooking OverlapSetComplete InsertNeverWaits
PROPERTY NoLateConfirm Atomic
