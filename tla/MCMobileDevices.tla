---------------------------- MODULE MCMobileDevices ----------------------------
(***************************************************************************)
(* Instances of MobileDevices: d1 is the seeded device, d2 is registered   *)
(* by a call.                                                              *)
(***************************************************************************)
EXTENDS MobileDevices

CONSTANTS t1, t2, t3, d1, d2, s1, s2
==============================================================================
