---------------------------- MODULE MCDeviceWork ----------------------------
(* DeviceWork on small sets; polls and technicians are interchangeable.     *)
EXTENDS DeviceWork, TLC

Symmetry == Permutations(Polls) \cup Permutations(Staff) \cup Permutations(Actions)
=============================================================================
