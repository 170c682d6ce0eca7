SPECIFICATION AlertSpec
CONSTANTS
  OfflineAfter = 3
  TicketModes <- Modes
  Window = 3
  NoTicket = NoTicket
INVARIANT LowDiskFromLatest
