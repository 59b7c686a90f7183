---------------------------- MODULE MCLiveStream ----------------------------
(***************************************************************************)
(* Instance of LiveStream: batches of one or two rows, events every second *)
(* batch.                                                                  *)
(***************************************************************************)
EXTENDS LiveStream
==============================================================================
