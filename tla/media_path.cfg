SPECIFICATION FairSpec
CONSTANTS
  MaxFaults = 3
  MaxPeers = 6
INVARIANTS ConnectedShowsScreen OnePeer
 
CHECK_DEADLOCK FALSE
