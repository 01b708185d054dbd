------------------------------- MODULE Bridge -------------------------------
(***************************************************************************)
(* Two ports A and B of one Router that bridges between them: Router::     *)
(* inbound on a packet received on one port forwards it with the other     *)
(* port's PortTop::forward_packet (router.rs 416-434, after the router      *)
(* mutex is dropped), while a local application sends on each port with    *)
(* send_message.  Each port is an instance of Port; the executor, and so   *)
(* `running`, is shared.                                                   *)
(*                                                                         *)
(* The transport driver of a port (spec 6.4) passes received packets to    *)
(* inbound and drains its port with outbound/outbound_done.  With          *)
(* CombinedDrivers, one task per port does both, so it cannot drain its    *)
(* port while it is inside inbound forwarding to the other port.           *)
(***************************************************************************)
EXTENDS Naturals

CONSTANTS
    SA, SB,           \* local senders on ports A and B
    DA, DB,           \* transport drivers of ports A and B
    QueueDepth, MaxFrags, MaxMsgs, MaxFwds,
    MaxMtu, Mtus, Lens,  \* MAX_MTU, MTUs given to build, forwarded lengths
    CombinedDrivers,  \* each driver receives and drains in one task
    None

VARIABLES
    running,
    qA, wA, pktA, msgA, spcA, chA, frA, doneA, msgsA, fpcA, lenA, fwdsA, mtuA,
    qB, wB, pktB, msgB, spcB, chB, frB, doneB, msgsB, fpcB, lenB, fwdsB, mtuB

varsA == <<qA, wA, pktA, msgA, spcA, chA, frA, doneA, msgsA, fpcA, lenA, fwdsA, mtuA>>
varsB == <<qB, wB, pktB, msgB, spcB, chB, frB, doneB, msgsB, fpcB, lenB, fwdsB, mtuB>>
vars == <<running, varsA, varsB>>

\* Port A: SA sends on it, DB forwards into it (packets received on B).
PA == INSTANCE Port
        WITH Senders <- {SA}, Forwarders <- {DB}, FragErrors <- FALSE,
             queue <- qA, wire <- wA, pktLock <- pktA, msgLock <- msgA,
             spc <- spcA, schunks <- chA, sfrags <- frA, sdone <- doneA,
             smsgs <- msgsA, fpc <- fpcA, flen <- lenA, ffwds <- fwdsA,
             mtu <- mtuA

\* Port B: SB sends on it, DA forwards into it (packets received on A).
PB == INSTANCE Port
        WITH Senders <- {SB}, Forwarders <- {DA}, FragErrors <- FALSE,
             queue <- qB, wire <- wB, pktLock <- pktB, msgLock <- msgB,
             spc <- spcB, schunks <- chB, sfrags <- frB, sdone <- doneB,
             smsgs <- msgsB, fpc <- fpcB, flen <- lenB, ffwds <- fwdsB,
             mtu <- mtuB

Init == PA!Init /\ PB!Init

\* The steps of the producers of a port: its local sender and the driver
\* of the other port forwarding into it.
ProducersA ==
    \/ \E c \in PA!Chunks, n \in 1 .. MaxFrags : PA!send_message(SA, c, n)
    \/ PA!LockMessage(SA) \/ PA!LockPackets(SA) \/ PA!Fragment(SA)
    \/ PA!SenderBlocks(SA)
    \/ (\E n \in Lens : PA!forward_packet(DB, n)) \/ PA!ForwardLocked(DB)
    \/ PA!ForwarderBlocks(DB)

ProducersB ==
    \/ \E c \in PB!Chunks, n \in 1 .. MaxFrags : PB!send_message(SB, c, n)
    \/ PB!LockMessage(SB) \/ PB!LockPackets(SB) \/ PB!Fragment(SB)
    \/ PB!SenderBlocks(SB)
    \/ (\E n \in Lens : PB!forward_packet(DA, n)) \/ PB!ForwardLocked(DA)
    \/ PB!ForwarderBlocks(DA)

\* The driver of a port takes its oldest packet; a combined driver only
\* when it is not suspended inside inbound's forward into the other port.
DrainA == PA!outbound_done /\ (CombinedDrivers => fpcB[DA] = "idle")
DrainB == PB!outbound_done /\ (CombinedDrivers => fpcA[DB] = "idle")

Terminated == PA!AllCallsMade /\ PB!AllCallsMade /\ UNCHANGED vars

Next ==
    \/ ProducersA /\ UNCHANGED varsB
    \/ ProducersB /\ UNCHANGED varsA
    \/ DrainA /\ UNCHANGED varsB
    \/ DrainB /\ UNCHANGED varsA
    \/ Terminated

\* Each task is polled when ready and each driver keeps draining.
Fairness ==
    /\ WF_vars(ProducersA /\ UNCHANGED varsB)
    /\ WF_vars(ProducersB /\ UNCHANGED varsA)
    /\ WF_vars(DrainA /\ UNCHANGED varsB)
    /\ WF_vars(DrainB /\ UNCHANGED varsA)

Spec == Init /\ [][Next]_vars /\ Fairness

-----------------------------------------------------------------------------
\* Spec 5 (deadlock discipline): send_message may await a slot while it
\* holds the producer mutex because "the queue itself does not depend on
\* the router"; so every send_message and every forward from inbound on
\* either port returns.
BridgeCallsReturn == PA!CallsReturn /\ PB!CallsReturn

=============================================================================
