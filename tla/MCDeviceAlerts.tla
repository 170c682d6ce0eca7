--------------------------- MODULE MCDeviceAlerts ---------------------------
(* DeviceAlerts with small ages.                                            *)
EXTENDS DeviceAlerts

Modes == {NoTicket, 0, 2}
=============================================================================
