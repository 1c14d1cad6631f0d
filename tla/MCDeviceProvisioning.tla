------------------------ MODULE MCDeviceProvisioning -----------------------
(***************************************************************************)
(* A device, a simulator and one CA for TLC.                               *)
(***************************************************************************)
EXTENDS DeviceProvisioning

CONSTANTS Tracker, Simulator

TrackerAndSimulator == {Tracker, Simulator}

OneSimulator == {Simulator}
=============================================================================
