---------------------------- MODULE MCDeviceGrant ----------------------------
(***************************************************************************)
(* DeviceGrant with a volume of one pod or of two.                         *)
(***************************************************************************)
EXTENDS DeviceGrant

CONSTANTS p1, p2, c0, c1

TwoPods == {p1, p2}

\* The credential on the volume and one to replace it.
TwoCredentials == {c0, c1}
===============================================================================
