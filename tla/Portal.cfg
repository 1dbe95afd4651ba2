CONSTANTS
  MaxPresses = 2
  Stops = {"customer", "admin"}
  Tours <- PortalTours
SPECIFICATION TabSpec
INVARIANTS
  OwnChangeShows
  NotDoneTwice
PROPERTY ToldThenShown
