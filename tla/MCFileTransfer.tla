---- MODULE MCFileTransfer ----
(* Model values for FileTransfer: one client types more than the others. *)
EXTENDS FileTransfer, TLC
CONSTANTS c1, Long, Short
Commands == [c \in Client |-> IF c = c1 THEN Long ELSE Short]
====
