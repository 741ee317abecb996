---- MODULE MCSelectMux ----
(* Model values for SelectMux: c1 sends most, c3 only connects and leaves. *)
EXTENDS SelectMux
CONSTANTS c1, c2, Long, Short
Commands == [c \in Client |-> IF c = c1 THEN Long ELSE IF c = c2 THEN Short ELSE 0]
====
