------------------------------ MODULE Reliability ------------------------------
(***************************************************************************)
(* lab2's reliability manager and connection manager,                       *)
(* src/lab2/internal/infrastructure/network/reliability.go and              *)
(* udp_connection.go: the table of packets that wait for an acknowledgement,*)
(* the loop that should send them again, and a window for each peer.        *)
(***************************************************************************)
EXTENDS SlidingWindow

CONSTANTS
    Peer,                \* addresses
    MaxRetransmissions,  \* config.UDP.MaxRetransmissions
    None

ASSUME ReliabilityAssumption ==
    None \notin Peer /\ MaxRetransmissions \in Nat \ {0}

VARIABLES
    pending,      \* rm.pendingPackets: for each number the packet, or None
    packetsSent, packetsLost, retransmits,
    windows,      \* ucm.clients: for each peer its window, or None
    written,      \* history: datagrams given to the socket
    replaced,     \* history: packets pushed out of pending by another one
    released,     \* history: packets taken out of pending by an acknowledgement
    misused       \* history: peers whose window was not used as it must be

tableVars == <<pending, packetsSent, replaced>>
relVars == <<tableVars, packetsLost, retransmits, written, released>>
windowVars == <<windows, misused>>

Pending == {n \in Number : pending[n] # None}

RelInit ==
    /\ pending = [n \in Number |-> None]
    /\ packetsSent = 0 /\ packetsLost = 0 /\ retransmits = 0
    /\ windows = [p \in Peer |-> None]
    /\ written = 0 /\ replaced = 0 /\ released = 0
    /\ misused = {}

-----------------------------------------------------------------------------
(* SendPacket: enter the packet under the lock, then write it.  A write     *)
(* that fails leaves the entry.                                             *)

\* Mutant of Enter: only packets that are new to the table are counted.
EnterNew(p, n) ==
    /\ pending' = [pending EXCEPT ![n] = p]
    /\ packetsSent' = IF n \in Pending THEN packetsSent ELSE packetsSent + 1
    /\ replaced' = replaced + (IF n \in Pending THEN 1 ELSE 0)

\* The table knows a packet by its number alone, not by its peer p.
Enter(p, n) ==
    /\ pending' = [pending EXCEPT ![n] = p]
    /\ packetsSent' = packetsSent + 1
    /\ replaced' = replaced + (IF n \in Pending THEN 1 ELSE 0)

Write == written' = written + 1

\* ReceivePacket of an accepted ACK, from whatever peer: the packet of that
\* number leaves the table.
Release(n) ==
    /\ pending' = [pending EXCEPT ![n] = None]
    /\ released' = released + (IF n \in Pending THEN 1 ELSE 0)
    /\ UNCHANGED <<packetsSent, packetsLost, retransmits, written, replaced>>

-----------------------------------------------------------------------------
(* checkRetransmissions.                                                    *)

RetransmitCount(n) == 0

\* A retransmission has no address.
Target(n) == None

\* One pass over the packets whose timeout is over: give up, or write again; a
\* write without an address fails.
CheckRetransmissions(overdue) ==
    LET lost == {n \in overdue : RetransmitCount(n) >= MaxRetransmissions}
        again == {n \in overdue \ lost : Target(n) # None}
    IN  /\ pending' = [n \in Number |-> IF n \in lost THEN None ELSE pending[n]]
        /\ packetsLost' = packetsLost + Cardinality(lost)
        /\ retransmits' = retransmits + Cardinality(again)
        /\ written' = written + Cardinality(again)
        /\ UNCHANGED <<packetsSent, replaced, released>>

-----------------------------------------------------------------------------
(* The connection manager.                                                  *)

GetOrCreateClient(p) == IF windows[p] = None THEN NewSlidingWindow ELSE windows[p]

Misuse(p, fits) == misused' = IF fits THEN misused ELSE misused \union {p}

\* SendReliablePacket with room in the window; the write may fail.
SendReliablePacket(p, n) ==
    LET w == GetOrCreateClient(p)
    IN  /\ CanSend(w)
        /\ windows' = [windows EXCEPT ![p] = AddPacket(w, n)]
        /\ Misuse(p, FitsAdd(w, n))
        /\ Enter(p, n)
        /\ Write \/ UNCHANGED written
        /\ UNCHANGED <<packetsLost, retransmits, released>>

\* "sliding window full"
RefusePacket(p) ==
    LET w == GetOrCreateClient(p)
    IN  /\ ~CanSend(w)
        /\ windows' = [windows EXCEPT ![p] = w]
        /\ UNCHANGED <<relVars, misused>>

\* HandleAckPacket with AckNum = n.
HandleAckPacket(p, n) ==
    LET w == GetOrCreateClient(p)
    IN  /\ windows' = [windows EXCEPT ![p] = AckPacket(w, n)]
        /\ Misuse(p, FitsAck(w, n))
        /\ UNCHANGED relVars

\* CleanupExpiredClients finds that p has not been heard of for five minutes.
ForgetClient(p) ==
    /\ windows[p] # None
    /\ windows' = [windows EXCEPT ![p] = None]
    /\ misused' = misused \ {p}
    /\ UNCHANGED relVars

-----------------------------------------------------------------------------
(* Properties.                                                              *)

RelTypeOK ==
    /\ pending \in [Number -> Peer \union {None}]
    /\ packetsSent \in Nat /\ packetsLost \in Nat /\ retransmits \in Nat
    /\ windows \in [Peer -> Window \union {None}]
    /\ written \in Nat /\ replaced \in Nat /\ released \in Nat
    /\ misused \subseteq Peer

\* Every packet that was ever sent is waiting still, or was pushed out by another
\* one of its number, to whatever peer, or was released by an acknowledgement of
\* its number, from whatever peer, or was given up and counted as lost; and no
\* datagram is written but by a send or by a retransmission that is counted.
PendingAccounted ==
    /\ packetsSent = Cardinality(Pending) + replaced + released + packetsLost
    /\ written <= packetsSent + retransmits

\* As long as its caller numbers the packets one after the other and acknowledges
\* none that was not sent, a window holds exactly the packets from the oldest one
\* that is not acknowledged to the newest, never more than its size, across the
\* wrap of the numbers and with acknowledgements in any order and repeated.
WindowExact == \A p \in Peer \ misused : windows[p] # None => Exact(windows[p])

=============================================================================
