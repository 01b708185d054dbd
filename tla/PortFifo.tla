------------------------------ MODULE PortFifo ------------------------------
(***************************************************************************)
(* What a port promises (spec 4.1, 4.2, 5 and 8.2-8.3), with no mutexes,   *)
(* no scheduler and no fragment loop: producers commit packets one at a    *)
(* time into a bounded FIFO and the transport takes them in commit order.  *)
(* A message of several packets is committed as an unbroken run: while a   *)
(* producer's message is open, only its next fragment may be committed.   *)
(* A message ends with its last fragment or with an empty packet (the      *)
(* slot committed with len 0 on a fragmenter error).                        *)
(***************************************************************************)
EXTENDS Naturals, Sequences

CONSTANTS
    Producers,  \* tasks that commit packets
    Calls,      \* call numbers of a producer
    Frags,      \* fragment indices
    Depth,      \* slots of the queue
    None

VARIABLES
    sent,  \* every packet committed, in commit order
    wire,  \* the prefix of sent the transport has taken
    open   \* the producer whose message is partly committed, or None

vars == <<sent, wire, open>>

Packet == [from : Producers, call : Calls, frag : Frags, empty : BOOLEAN]

Init == sent = <<>> /\ wire = <<>> /\ open = None

\* p may be committed next: it starts a new message when none is open, and
\* otherwise is the following fragment of the open one.
Follows(p) ==
    IF open = None THEN p.frag = 0
    ELSE LET prev == sent[Len(sent)] IN
         /\ p.from = open /\ p.call = prev.call /\ p.frag = prev.frag + 1

\* A producer commits p into a free slot; `closes` says p ends its message.
Commit(p, closes) ==
    /\ Len(sent) - Len(wire) < Depth
    /\ Follows(p)
    /\ p.empty => closes
    /\ sent' = Append(sent, p)
    /\ open' = IF closes THEN None ELSE p.from
    /\ UNCHANGED wire

\* The transport takes the oldest committed packet.
Transmit ==
    /\ Len(wire) < Len(sent)
    /\ wire' = Append(wire, sent[Len(wire) + 1])
    /\ UNCHANGED <<sent, open>>

Next == (\E p \in Packet, c \in BOOLEAN : Commit(p, c)) \/ Transmit

\* The transport keeps draining: every committed packet is sent.
Spec == Init /\ [][Next]_vars /\ WF_vars(Transmit)

=============================================================================
