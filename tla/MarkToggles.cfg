SPECIFICATION Spec
CONSTANTS
  MaxInFlight = 3
  MaxFaults = 2
INVARIANTS TypeOK SettledAgrees FavoriteStandsOvertaking
