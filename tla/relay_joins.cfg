SPECIFICATION Spec
CONSTANTS
  Process = {p1, p2}
  Conn = {c1, c2, c3}
  Room = {r1}
  Ticket = {t1, t2, t3}
  r1 = r1
  TicketRoom <- MCTicketRoom
  MaxPeers = 2
  MaxConnections = 3
  NoProcess = NoProcess
  NoTicket = NoTicket
SYMMETRY Symmetry
INVARIANTS TypeOK  CeilingUnlessDropped ExistingPeersTold ChannelFollowsRooms
CHECK_DEADLOCK FALSE
