---------------------------- MODULE MCUDPClient ----------------------------
(* UDPClient for TLC: its constants are model values. *)
EXTENDS UDPClient
=============================================================================
