------------------------------- MODULE TaskPool -------------------------------
(***************************************************************************)
(* What a caller of lab4's domain.ThreadPool may rely on                    *)
(* (src/lab4/internal/domain/service.go, type ThreadPool): a bounded queue  *)
(* served in order, each accepted task run at most once, a refusal only     *)
(* for a full queue or a pool that stops, and no running task at the moment *)
(* Stop returns.  How many workers there are is not part of the promise.    *)
(***************************************************************************)
EXTENDS Naturals, Sequences

CONSTANTS Task, Capacity

VARIABLES
    gate,       \* "open"; "closing": Stop was called; "closed"; "stopped"
    backlog,    \* tasks accepted and not begun, oldest first
    running, finished, refused

vars == <<gate, backlog, running, finished, refused>>

New == Task \ ({backlog[i] : i \in DOMAIN backlog}
               \union running \union finished \union refused)

Init ==
    /\ gate = "open" /\ backlog = <<>>
    /\ running = {} /\ finished = {} /\ refused = {}

Accept(t) ==
    /\ t \in New /\ gate \in {"open", "closing"} /\ Len(backlog) < Capacity
    /\ backlog' = Append(backlog, t)
    /\ UNCHANGED <<gate, running, finished, refused>>

Refuse(t) ==
    /\ t \in New
    /\ gate # "open" \/ Len(backlog) = Capacity
    /\ refused' = refused \union {t}
    /\ UNCHANGED <<gate, backlog, running, finished>>

Begin ==
    /\ backlog # <<>>
    /\ running' = running \union {Head(backlog)}
    /\ backlog' = Tail(backlog)
    /\ UNCHANGED <<gate, finished, refused>>

End(t) ==
    /\ t \in running
    /\ running' = running \ {t}
    /\ finished' = finished \union {t}
    /\ UNCHANGED <<gate, backlog, refused>>

Stop ==
    /\ \/ gate = "open" /\ gate' = "closing"
       \/ gate = "closing" /\ gate' = "closed"
       \/ gate = "closed" /\ running = {} /\ gate' = "stopped"
    /\ UNCHANGED <<backlog, running, finished, refused>>

Next == Stop \/ Begin \/ \E t \in Task : Accept(t) \/ Refuse(t) \/ End(t)

Spec == Init /\ [][Next]_vars
=============================================================================
