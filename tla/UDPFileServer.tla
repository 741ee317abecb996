----------------------------- MODULE UDPFileServer -----------------------------
(***************************************************************************)
(* lab2's server, src/lab2/internal/infrastructure/network/udp_server.go,   *)
(* with cmd/server: a goroutine for every packet, the sessions they share,  *)
(* the reliability manager they answer through, and two calls of Stop.      *)
(*                                                                          *)
(* The windows are used by the senders of files only.  As a process is one  *)
(* or the other, so is a behaviour; a third kind passes one packet through  *)
(* the codec.                                                               *)
(***************************************************************************)
EXTENDS Reliability, PacketCodec, Sequences

CONSTANTS
    ServerAddr,   \* the peer of a sender
    Arriving,     \* the numbers of the packets a server receives
    MaxArrivals,  \* bound: how many it accepts
    MaxSends      \* bound: packets a sender of files sends

ASSUME ServerAssumption == ServerAddr \in Peer /\ Arriving \subseteq Number

VARIABLES
    role,        \* "server", "sender" or "codec"
    handler,     \* the goroutine of each packet accepted, None when it is done
    sessions,    \* keys of s.sessions: <<peer, sequence number>>
    socket,      \* the connection is open
    stopChan,    \* rm.stopChan is open
    ticking,     \* retransmissionLoop is running
    cancelled,   \* the context of cmd/server
    main,        \* progress of cmd/server after the signal
    panicked,    \* a second close of stopChan killed the process
    seqNum,      \* of sendFile in the sender
    sample       \* the packet that is sent and received

stopVars == <<socket, stopChan, ticking, cancelled, main, panicked>>
serverVars == <<handler, sessions>>
vars == <<relVars, windowVars, role, serverVars, stopVars, seqNum, sample>>

Alive == main # "exited" /\ ~panicked

Init ==
    /\ RelInit
    /\ role \in {"server", "sender", "codec"}
    /\ handler = <<>> /\ sessions = {}
    /\ socket = TRUE /\ stopChan = TRUE /\ ticking = TRUE
    /\ cancelled = FALSE /\ main = "serving" /\ panicked = FALSE
    /\ seqNum = 0 /\ sample = None

-----------------------------------------------------------------------------
(* Start: the loop that receives.                                           *)

\* The first step of the handler for a COMMAND or a SYN, for DATA and for a FIN.
FirstSteps == {"enter", "lookup", "delete"}

\* A packet the codec accepts.  What it rejects is reported and forgotten, and the
\* other types have no effect.
Receive ==
    /\ socket
    /\ Len(handler) < MaxArrivals
    /\ \E p \in Peer, n \in Arriving, step \in FirstSteps :
           handler' = Append(handler, [peer |-> p, seq |-> n, at |-> step])
    /\ UNCHANGED <<relVars, windowVars, sessions, stopVars, seqNum>>

\* ReceivePacket of an ACK; the server does nothing else with it.
ReceiveAck ==
    /\ socket
    /\ \E n \in Pending : Release(n)
    /\ UNCHANGED <<windowVars, serverVars, stopVars, seqNum>>

-----------------------------------------------------------------------------
(* handlePacket, in a goroutine for every packet.                           *)

At(i, point) == handler[i] # None /\ handler[i].at = point

Move(i, from, to) == At(i, from) /\ handler' = [handler EXCEPT ![i].at = to]

End(i, from) == At(i, from) /\ handler' = [handler EXCEPT ![i] = None]

Key(i) == <<handler[i].peer, handler[i].seq>>

\* SendPacket of the answer: a response, a SYN-ACK or a FIN-ACK, with the number
\* after the one received.
EnterAnswer(i) ==
    /\ Move(i, "enter", "write")
    /\ Enter(handler[i].peer, Succ(handler[i].seq))
    /\ UNCHANGED <<packetsLost, retransmits, written, released, windowVars, sessions, stopVars, seqNum>>

\* A write fails on a closed socket, and may fail on an open one.
WriteAnswer(i) ==
    /\ End(i, "write")
    /\ (socket /\ Write) \/ UNCHANGED written
    /\ UNCHANGED <<tableVars, packetsLost, retransmits, released, windowVars, sessions, stopVars, seqNum>>

\* handleDataPacket, under the read lock: is there a session?
LookupSession(i) ==
    /\ At(i, "lookup")
    /\ Move(i, "lookup", IF Key(i) \in sessions THEN "save" ELSE "insert")
    /\ UNCHANGED <<relVars, windowVars, sessions, stopVars, seqNum>>

\* Under the lock: put a new one in, over whatever is there by now.
InsertSession(i) ==
    /\ Move(i, "insert", "save")
    /\ sessions' = sessions \union {Key(i)}
    /\ UNCHANGED <<relVars, windowVars, stopVars, seqNum>>

\* SaveFile of a session, whose FileName nobody sets: it opens the upload directory
\* for writing, which fails, and the handler returns without an acknowledgement.
SaveFails(i) ==
    /\ End(i, "save")
    /\ UNCHANGED <<relVars, windowVars, sessions, stopVars, seqNum>>

DeleteSession(i) ==
    /\ Move(i, "delete", "enter")
    /\ sessions' = sessions \ {Key(i)}
    /\ UNCHANGED <<relVars, windowVars, stopVars, seqNum>>

HandlerStep ==
    \E i \in DOMAIN handler :
        \/ EnterAnswer(i) \/ WriteAnswer(i)
        \/ LookupSession(i) \/ InsertSession(i) \/ SaveFails(i) \/ DeleteSession(i)

\* cleanupRoutine: as LastUpdate stays what it was, any session may have expired.
Cleanup ==
    /\ ~cancelled
    /\ \E k \in sessions : sessions' = sessions \ {k}
    /\ UNCHANGED <<relVars, windowVars, handler, stopVars, seqNum>>

-----------------------------------------------------------------------------
(* retransmissionLoop and Stop.                                             *)

Tick ==
    /\ ticking
    /\ \E overdue \in SUBSET Pending : CheckRetransmissions(overdue)
    /\ UNCHANGED <<windowVars, serverVars, stopVars, seqNum>>

LoopEnds ==
    /\ ticking /\ ~stopChan
    /\ ticking' = FALSE
    /\ UNCHANGED <<relVars, windowVars, serverVars, socket, stopChan, cancelled, main, panicked, seqNum>>

\* Stop up to the wait for the loop: a channel cannot be closed twice.
CloseAll == socket' = FALSE /\ stopChan' = FALSE /\ panicked' = ~stopChan

\* main after the signal: Stop, then the deferred calls, of which cancel is the
\* last, and the end of the process.
MainStep ==
    /\ \/ /\ main = "serving" /\ main' = "stopping"
          /\ CloseAll /\ UNCHANGED cancelled
       \/ /\ main = "stopping" /\ ~ticking /\ main' = "stopped"
          /\ UNCHANGED <<socket, stopChan, cancelled, panicked>>
       \/ /\ main = "stopped" /\ main' = "cancelled"
          /\ cancelled' = TRUE /\ UNCHANGED <<socket, stopChan, panicked>>
       \/ /\ main = "cancelled" /\ main' = "exited"
          /\ UNCHANGED <<socket, stopChan, cancelled, panicked>>
    /\ UNCHANGED <<relVars, windowVars, serverVars, ticking, seqNum>>

\* The loop of Start sees the context and calls Stop a second time.
StartStops ==
    /\ cancelled
    /\ CloseAll
    /\ UNCHANGED <<relVars, windowVars, serverVars, ticking, cancelled, main, seqNum>>

ServerStep ==
    /\ role = "server"
    /\ Receive \/ ReceiveAck \/ HandlerStep \/ Cleanup \/ Tick \/ LoopEnds \/ MainStep \/ StartStops

-----------------------------------------------------------------------------
(* The use that sendFile of udp_client.go makes of the window, with the     *)
(* calls of the interface that no program makes: HandleAckPacket and        *)
(* CleanupExpiredClients.                                                   *)

\* Every file begins with 0.
BeginFile == seqNum' = 0 /\ UNCHANGED <<relVars, windowVars>>

SendBlock ==
    /\ packetsSent < MaxSends
    /\ SendReliablePacket(ServerAddr, seqNum)
    /\ seqNum' = Succ(seqNum)

\* The window is full: sendFile returns the error.
SendBlockFails == RefusePacket(ServerAddr) /\ UNCHANGED seqNum

\* testBufferSizes, between two blocks: packets with the number 0, past the window.
TestBuffers ==
    /\ packetsSent < MaxSends
    /\ Enter(ServerAddr, 0)
    /\ Write \/ UNCHANGED written
    /\ UNCHANGED <<packetsLost, retransmits, released, windowVars, seqNum>>

Acknowledge == \E n \in Number : HandleAckPacket(ServerAddr, n) /\ UNCHANGED seqNum

SenderReceivesAck == \E n \in Pending : Release(n) /\ UNCHANGED <<windowVars, seqNum>>

SenderStep ==
    /\ role = "sender"
    /\ \/ BeginFile \/ SendBlock \/ SendBlockFails \/ TestBuffers
       \/ Acknowledge \/ SenderReceivesAck \/ Tick
       \/ ForgetClient(ServerAddr) /\ UNCHANGED seqNum
    /\ UNCHANGED <<serverVars, stopVars>>

\* One packet goes through Serialize and DeserializePacket.
CodecStep ==
    /\ role = "codec" /\ sample = None
    /\ sample' \in Packet
    /\ UNCHANGED <<relVars, windowVars, serverVars, stopVars, seqNum>>

Next ==
    /\ Alive
    /\ ((ServerStep \/ SenderStep) /\ UNCHANGED sample) \/ CodecStep
    /\ UNCHANGED role

Spec == Init /\ [][Next]_vars

-----------------------------------------------------------------------------
(* Properties.                                                              *)

Points == {"lookup", "insert", "save", "delete", "enter", "write"}

\* The types of the variables.
TypeOK ==
    /\ RelTypeOK
    /\ role \in {"server", "sender", "codec"}
    /\ handler \in Seq([peer : Peer, seq : Number, at : Points] \union {None})
    /\ sessions \subseteq Peer \X Number
    /\ {socket, stopChan, ticking, cancelled, panicked} \subseteq BOOLEAN
    /\ main \in {"serving", "stopping", "stopped", "cancelled", "exited"}
    /\ seqNum \in Number
    /\ sample \in Packet \union {None}

\* Whatever packet comes to the receiver: see SafePacket.
RoundTrip == sample # None => SafePacket(sample)

=============================================================================
