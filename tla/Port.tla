-------------------------------- MODULE Port --------------------------------
(***************************************************************************)
(* One MCTP port of the mctp-estack Router (src/mctp-estack/src/router.rs):*)
(* the producer side PortTop with its two async mutexes (`packets` around  *)
(* the queue Sender, `message` around the flatten buffer), the zero-copy    *)
(* queue of FORWARD_QUEUE packet slots, and the consumer side PortBottom   *)
(* driven by the transport.  Producers are local senders (send_message,   *)
(* called by app_send_message) and forwarders (forward_packet, called by   *)
(* inbound).                                                               *)
(*                                                                         *)
(* Scheduling is single-core cooperative (spec section 5): the task being  *)
(* polled (`running`) runs until it reaches an await that is not ready;    *)
(* only then may another task run.  An await on a mutex or on a free slot  *)
(* is ready as soon as the mutex is free or the queue has room (embassy's  *)
(* Mutex and zerocopy Channel wake their waiters when that happens).       *)
(***************************************************************************)
EXTENDS Naturals, Sequences

CONSTANTS
    Senders,      \* tasks calling PortTop::send_message
    Forwarders,   \* tasks calling PortTop::forward_packet (via inbound)
    QueueDepth,   \* FORWARD_QUEUE: slots of the port's PortStorage
    MaxFrags,     \* most packets the fragmenter makes of one message
    FragErrors,   \* the fragmenter may return SendOutput::Error
    MaxMsgs,      \* bound on send_message calls per sender
    MaxFwds,      \* bound on forward_packet calls per forwarder
    MaxMtu,       \* MAX_MTU: the size of a PktBuf's data
    Mtus,         \* MTUs the application may pass to PortBuilder::build
    Lens,         \* lengths of the packets inbound forwards to this port
    None

ASSUME /\ QueueDepth \in Nat \ {0} /\ MaxFrags \in Nat \ {0}
       /\ FragErrors \in BOOLEAN /\ MaxMsgs \in Nat /\ MaxFwds \in Nat
       /\ Senders \cap Forwarders = {}
       /\ MaxMtu \in Nat /\ Mtus \subseteq Nat /\ Lens \subseteq Nat \ {0}

Tasks == Senders \cup Forwarders

\* How the caller's buffers reach send_message: a single slice, several
\* slices that fit MAX_PAYLOAD, or several slices that do not.
Chunks == {"one", "many", "too_big"}

VARIABLES
    queue,     \* committed slots not yet consumed (zerocopy Channel)
    wire,      \* packets the transport has taken with outbound_done
    pktLock,   \* holder of PortTop::packets, or None
    msgLock,   \* holder of PortTop::message, or None
    running,   \* the task being polled, or None between polls
    spc,       \* sender control point
    schunks,   \* the sender's buffers, one of Chunks
    sfrags,    \* packets the sender's fragmenter will make of its message
    sdone,     \* packets of the current message committed so far
    smsgs,     \* send_message calls made by the sender
    fpc,       \* forwarder control point
    flen,      \* the length of the forwarder's packet (0: none yet)
    ffwds,     \* forward_packet calls made by the forwarder
    mtu        \* PortTop::mtu, fixed by PortBuilder::build

vars == <<queue, wire, pktLock, msgLock, running, spc, schunks, sfrags, sdone,
          smsgs, fpc, flen, ffwds, mtu>>
senderVars == <<spc, schunks, sfrags, sdone, smsgs>>
fwdVars == <<fpc, flen, ffwds>>

\* A queued packet: its producer, which of its calls made it, its index in
\* the message, and whether it is the empty slot committed on an error.
Packet == [from : Tasks, call : Nat, frag : Nat, empty : BOOLEAN]

\* Every variable holds a value of its type; in particular the packet queue
\* never holds more than its depth (embassy Channel capacity).
TypeOK ==
    /\ queue \in Seq(Packet) /\ Len(queue) <= QueueDepth
    /\ wire \in Seq(Packet)
    /\ pktLock \in Tasks \cup {None} /\ msgLock \in Senders \cup {None}
    /\ running \in Tasks \cup {None}
    /\ spc \in [Senders -> {"idle", "lock_msg", "lock_pkts", "slot"}]
    /\ schunks \in [Senders -> Chunks]
    /\ sfrags \in [Senders -> 0 .. MaxFrags]
    /\ sdone \in [Senders -> 0 .. MaxFrags]
    /\ smsgs \in [Senders -> 0 .. MaxMsgs]
    /\ fpc \in [Forwarders -> {"idle", "lock_pkts", "panicked"}]
    /\ flen \in [Forwarders -> Lens \cup {0}]
    /\ ffwds \in [Forwarders -> 0 .. MaxFwds]
    /\ mtu \in Mtus

\* Mutant: build accepts an MTU one past MAX_MTU.
BuildPastMax(m) == m <= MaxMtu + 1

\* PortBuilder::build(mtu): BadArgument when mtu > MAX_MTU, otherwise the
\* PortTop (holding mtu) and PortBottom of the storage's channel.
build(m) == m <= MaxMtu

\* PortStorage::new, then a successful build: the port exists only then.
Init ==
    /\ mtu \in {m \in Mtus : build(m)}
    /\ queue = <<>> /\ wire = <<>>
    /\ pktLock = None /\ msgLock = None /\ running = None
    /\ spc = [s \in Senders |-> "idle"]
    /\ schunks = [s \in Senders |-> "one"]
    /\ sfrags = [s \in Senders |-> 0]
    /\ sdone = [s \in Senders |-> 0]
    /\ smsgs = [s \in Senders |-> 0]
    /\ fpc = [f \in Forwarders |-> "idle"]
    /\ flen = [f \in Forwarders |-> 0]
    /\ ffwds = [f \in Forwarders |-> 0]

\* Task t may be polled: nobody is running, or t is.
MayRun(t) == running \in {None, t}

\* t reached an await that is not ready: the executor moves on.
Suspend(t) == running = t /\ running' = None

-----------------------------------------------------------------------------
(* PortTop::send_message                                                   *)

\* Entry: a single slice is used in place; several are flattened into the
\* `message` buffer under its mutex.  `n` is how many packets the
\* fragmenter built by Stack::start_send will make.
send_message(s, c, n) ==
    /\ MayRun(s) /\ spc[s] = "idle" /\ smsgs[s] < MaxMsgs
    /\ spc' = [spc EXCEPT ![s] = IF c = "one" THEN "lock_pkts" ELSE "lock_msg"]
    /\ schunks' = [schunks EXCEPT ![s] = c]
    /\ sfrags' = [sfrags EXCEPT ![s] = n]
    /\ sdone' = [sdone EXCEPT ![s] = 0]
    /\ smsgs' = [smsgs EXCEPT ![s] = @ + 1]
    /\ running' = s
    /\ UNCHANGED <<queue, wire, pktLock, msgLock, fwdVars, mtu>>

\* self.message.lock().await, then msg.clear() and extend_from_slice for
\* every chunk: NoSpace past MAX_PAYLOAD returns, dropping the guard.  The
\* guard `msg` otherwise lives until send_message returns.
LockMessage(s) ==
    /\ MayRun(s) /\ spc[s] = "lock_msg" /\ msgLock = None
    /\ IF schunks[s] = "too_big"
       THEN /\ spc' = [spc EXCEPT ![s] = "idle"]
            /\ running' = None
            /\ UNCHANGED msgLock
       ELSE /\ msgLock' = s
            /\ spc' = [spc EXCEPT ![s] = "lock_pkts"]
            /\ running' = s
    /\ UNCHANGED <<queue, wire, pktLock, schunks, sfrags, sdone, smsgs, fwdVars, mtu>>

\* Top of the loop: self.packets.lock().await.
LockPackets(s) ==
    /\ MayRun(s) /\ spc[s] = "lock_pkts" /\ pktLock = None
    /\ pktLock' = s
    /\ spc' = [spc EXCEPT ![s] = "slot"]
    /\ running' = s
    /\ UNCHANGED <<queue, wire, msgLock, schunks, sfrags, sdone, smsgs, fwdVars, mtu>>

\* Mutant: an off-by-one in the test for a free slot.
SlotOffByOne == Len(queue) <= QueueDepth

\* sender.send().await is ready: the queue has a free slot.
HasSlot == Len(queue) < QueueDepth

\* Mutant: send_message returns Ok without dropping the `packets` guard.
SendReturnsKeepingPackets(s) ==
    /\ UNCHANGED pktLock
    /\ msgLock' = IF msgLock = s THEN None ELSE msgLock
    /\ spc' = [spc EXCEPT ![s] = "idle"]
    /\ running' = None

\* The end of send_message: both guards are dropped.
SendReturns(s) ==
    /\ pktLock' = None
    /\ msgLock' = IF msgLock = s THEN None ELSE msgLock
    /\ spc' = [spc EXCEPT ![s] = "idle"]
    /\ running' = None

\* A packet that is not the last: the `sender` guard is dropped at the end
\* of the loop body and the loop starts again, with no await in between.
Loop(s) ==
    /\ pktLock' = None
    /\ spc' = [spc EXCEPT ![s] = "lock_pkts"]
    /\ running' = s
    /\ UNCHANGED msgLock

\* sender.send().await has a slot: the fragmenter writes the next packet
\* into it in place and send_done() commits it.  Packet: drop the sender
\* guard and loop, or return Ok(tag) when is_done().  Error: commit the
\* slot with len = 0 and return Err.
Fragment(s) ==
    /\ MayRun(s) /\ spc[s] = "slot" /\ HasSlot
    /\ \/ LET last == sdone[s] + 1 = sfrags[s] IN
          /\ queue' = Append(queue, [from |-> s, call |-> smsgs[s],
                                     frag |-> sdone[s], empty |-> FALSE])
          /\ sdone' = [sdone EXCEPT ![s] = @ + 1]
          /\ IF last THEN SendReturns(s) ELSE Loop(s)
       \/ /\ FragErrors
          /\ queue' = Append(queue, [from |-> s, call |-> smsgs[s],
                                     frag |-> sdone[s], empty |-> TRUE])
          /\ SendReturns(s)
          /\ UNCHANGED sdone
    /\ UNCHANGED <<wire, schunks, sfrags, smsgs, fwdVars, mtu>>

\* An await of send_message that is not ready: the message mutex, the
\* packets mutex, or a slot of a full queue (still holding `packets`).
SenderBlocks(s) ==
    /\ \/ spc[s] = "lock_msg" /\ msgLock # None
       \/ spc[s] = "lock_pkts" /\ pktLock # None
       \/ spc[s] = "slot" /\ ~HasSlot
    /\ Suspend(s)
    /\ UNCHANGED <<queue, wire, pktLock, msgLock, senderVars, fwdVars, mtu>>

-----------------------------------------------------------------------------
(* PortTop::forward_packet                                                 *)

\* inbound() hands over a valid packet routed to this port.
forward_packet(f, n) ==
    /\ MayRun(f) /\ fpc[f] = "idle" /\ ffwds[f] < MaxFwds
    /\ fpc' = [fpc EXCEPT ![f] = "lock_pkts"]
    /\ flen' = [flen EXCEPT ![f] = n]
    /\ ffwds' = [ffwds EXCEPT ![f] = @ + 1]
    /\ running' = f
    /\ UNCHANGED <<queue, wire, pktLock, msgLock, senderVars, mtu>>

\* PktBuf::set: data.get_mut(..len) fails (NoSpace) past MAX_MTU.
set_fits(n) == n <= MaxMtu

\* With `packets` held and no await: NoSpace above the port MTU, TxFailure
\* when try_send() finds the queue full, otherwise slot.set(pkt).unwrap()
\* (a panic if set fails) and send_done().
ForwardLocked(f) ==
    LET taken == flen[f] <= mtu /\ Len(queue) < QueueDepth IN
    /\ MayRun(f) /\ fpc[f] = "lock_pkts" /\ pktLock = None
    /\ queue' = IF taken /\ set_fits(flen[f])
                THEN Append(queue, [from |-> f, call |-> ffwds[f], frag |-> 0,
                                    empty |-> FALSE])
                ELSE queue
    /\ fpc' = [fpc EXCEPT ![f] = IF taken /\ ~set_fits(flen[f]) THEN "panicked"
                                 ELSE "idle"]
    /\ running' = None
    /\ UNCHANGED <<wire, pktLock, msgLock, senderVars, flen, ffwds, mtu>>

\* self.packets.lock().await is not ready.
ForwarderBlocks(f) ==
    /\ fpc[f] = "lock_pkts" /\ pktLock # None
    /\ Suspend(f)
    /\ UNCHANGED <<queue, wire, pktLock, msgLock, senderVars, fwdVars, mtu>>

-----------------------------------------------------------------------------
(* PortBottom: the transport peeks the oldest slot with outbound() or      *)
(* try_outbound() as often as it likes, sends it, then outbound_done().    *)
\* Mutant: the transport sends the peeked packet but the slot is not
\* released, so the same packet is sent again.
outbound_done_no_advance ==
    /\ running = None /\ queue # <<>>
    /\ wire' = Append(wire, Head(queue))
    /\ UNCHANGED <<queue, pktLock, msgLock, running, senderVars, fwdVars, mtu>>

outbound_done ==
    /\ running = None /\ queue # <<>>
    /\ wire' = Append(wire, Head(queue))
    /\ queue' = Tail(queue)
    /\ UNCHANGED <<pktLock, msgLock, running, senderVars, fwdVars, mtu>>

-----------------------------------------------------------------------------
AllCallsMade ==
    /\ \A s \in Senders : spc[s] = "idle" /\ smsgs[s] = MaxMsgs
    /\ \A f \in Forwarders : fpc[f] = "idle" /\ ffwds[f] = MaxFwds
    /\ queue = <<>>

\* Every call made and every packet sent: the bounded run ends here.
Terminated == AllCallsMade /\ UNCHANGED vars

Next ==
    \/ \E s \in Senders :
          \/ \E c \in Chunks, n \in 1 .. MaxFrags : send_message(s, c, n)
          \/ LockMessage(s)
          \/ LockPackets(s) \/ Fragment(s) \/ SenderBlocks(s)
    \/ \E f \in Forwarders :
          \/ \E n \in Lens : forward_packet(f, n)
          \/ ForwardLocked(f) \/ ForwarderBlocks(f)
    \/ outbound_done
    \/ Terminated

\* The executor polls every woken task and the transport keeps draining.
Fairness ==
    /\ \A s \in Senders :
          WF_vars(LockMessage(s) \/ LockPackets(s) \/ Fragment(s)
                  \/ SenderBlocks(s))
    /\ \A f \in Forwarders : WF_vars(ForwardLocked(f) \/ ForwarderBlocks(f))
    /\ WF_vars(outbound_done)

Spec == Init /\ [][Next]_vars /\ Fairness

-----------------------------------------------------------------------------
(* Properties.                                                              *)

\* Every packet the port has committed, in queue order.
Committed == wire \o queue

\* forward_packet's slot.set(pkt).unwrap() (line 142) never panics: the
\* MTU check before try_send (line 129) and build's rejection of an MTU
\* above MAX_MTU (line 282) together keep every packet that reaches set()
\* within the slot's MAX_MTU buffer.
SetNeverPanics == \A f \in Forwarders : fpc[f] # "panicked"

\* Every send_message and forward_packet call returns, as long as the
\* transport drains the queue.
CallsReturn ==
    /\ \A s \in Senders : spc[s] # "idle" ~> spc[s] = "idle"
    /\ \A f \in Forwarders : fpc[f] # "idle" ~> fpc[f] = "idle"

(* Refinement: the port implements PortFifo.  The abstract queue history *)
(* is wire \o queue; the open message is that of a sender between two of  *)
(* its fragments.                                                          *)
OpenMessage ==
    LET mid == {s \in Senders : spc[s] \in {"lock_pkts", "slot"} /\ sdone[s] > 0}
    IN IF mid = {} THEN None ELSE CHOOSE s \in mid : TRUE

Fifo == INSTANCE PortFifo
            WITH Producers <- Tasks, Calls <- 1 .. MaxMsgs + MaxFwds,
                 Frags <- 0 .. MaxFrags - 1, Depth <- QueueDepth,
                 sent <- Committed, wire <- wire, open <- OpenMessage

\* Spec 8.2-8.3: the port is a bounded FIFO that takes each message as an
\* unbroken run of fragments in generated order, ended by the last one or
\* by the empty slot of a fragmenter error, and the transport receives every
\* committed packet once, in commit order.
PortFifoSpec == Fifo!Spec

\* The comment on PortTop::packets ("will not be held over an await") and
\* spec 4.1 (forwarding "must not block, drops on overflow"): a forwarder
\* never waits for the packets mutex while the queue is full.
ForwardNeverWaitsOnFullQueue ==
    \A f \in Forwarders :
        ~(fpc[f] = "lock_pkts" /\ pktLock # None /\ running # f
          /\ Len(queue) = QueueDepth)

\* Spec 4.2 and 5: the flatten buffer's mutex is held only over the
\* concatenation, so a vectored sender never waits for it while its
\* holder waits for a slot of a full queue.
FlattenNeverWaitsOnQueue ==
    \A s, t \in Senders :
        ~(spc[s] = "lock_msg" /\ msgLock = t /\ spc[t] = "slot"
          /\ Len(queue) = QueueDepth)

=============================================================================
