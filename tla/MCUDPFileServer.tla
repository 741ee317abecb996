---- MODULE MCUDPFileServer ----
(* UDPFileServer with the constants of its .cfg. *)
EXTENDS UDPFileServer
====
