CONSTANTS
  Viewers = {v, w}
  MaxLaunches = 2
  MaxGenerations = 3

SPECIFICATION FairSpec

INVARIANT BrokerInv

PROPERTY ViewersAreReleased
