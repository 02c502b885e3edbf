-------------------------- MODULE MCDeviceRegistry --------------------------
(* Instances of DeviceRegistry for TLC. *)
EXTENDS DeviceRegistry

CONSTANTS p1, p2, t1

\* Phones on a cable; phones on a cable and in the network.
Cables == {Usb(p) : p \in Phones}
Everywhere == Serials
=============================================================================
