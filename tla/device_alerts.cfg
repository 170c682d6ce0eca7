SPECIFICATION AlertFairSpec
CONSTANTS
  OfflineAfter = 3
  TicketModes <- Modes
  Window = 3
  NoTicket = NoTicket
 
PROPERTIES HeardIsClosed FreedIsClosed
