--------------------------- MODULE MCSoapyDevice ----------------------------
(* TLC instance of SoapyDevice: an application with one device that        *)
(* transmits, and one with two devices that do not.                        *)
EXTENDS SoapyDevice

MCDevices == {1, 2}

MCApplications ==
  {[devices |-> {1}, transmits |-> TRUE],
   [devices |-> {1, 2}, transmits |-> FALSE]}
=============================================================================
