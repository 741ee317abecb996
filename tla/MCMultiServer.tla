---------------------------- MODULE MCMultiServer ----------------------------
(* Model values for MultiServer: r3 goes to the time service, the other       *)
(* datagrams to echo; file is configured but cmd/server has no object for it. *)
EXTENDS MultiServer
CONSTANTS echo, time, file, r1, r2, r3
ToService == [r \in Request |-> IF r = r3 THEN time ELSE echo]
=============================================================================
