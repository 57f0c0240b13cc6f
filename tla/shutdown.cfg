SPECIFICATION FairSpec
CONSTANTS
  Server = {s1, s2}
  MaxMade = 2
  MaxListed = 2
INVARIANTS TypeOK ClosedMeansDown ClosesItsChannel OpenHasWaiter
PROPERTIES SignalCloses ImplementsGroup
