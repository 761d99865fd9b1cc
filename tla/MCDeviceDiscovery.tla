--------------------------- MODULE MCDeviceDiscovery ---------------------------
(* A small instance of the discovery: the defaults are 3 s and 10 s. *)
EXTENDS DeviceDiscovery
=============================================================================
