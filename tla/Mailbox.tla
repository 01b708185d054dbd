------------------------------ MODULE Mailbox -------------------------------
(***************************************************************************)
(* What the Router's demultiplexer promises its applications (spec 4.3.3,  *)
(* 4.4 and 8.4-8.6), with no slots, cookies, wakers or Stack: complete     *)
(* messages are held until taken; a listener takes only messages of the   *)
(* type it is bound to, and a request channel only responses from the EID  *)
(* and TagValue of its request; a receiver suspends only when nothing it  *)
(* would take is held, and a suspended receiver for which a message is    *)
(* held does not stay suspended.                                           *)
(***************************************************************************)
EXTENDS Naturals

CONSTANTS
    ListenerApps,  \* applications owning a listener
    ReqApps,       \* applications owning a request channel
    Types,         \* message types
    Peers,         \* remote EIDs
    TagValues,     \* TagValues
    Ids,           \* identities of arriving messages
    None

VARIABLES
    held,   \* complete messages held for the applications
    bound,  \* per listener: the type it is bound to, or None
    asked,  \* per request channel: [eid, tv] of its request, or None
    pc      \* per application: "closed", "ready" or "pending" in recv

vars == <<held, bound, asked, pc>>

Apps == ListenerApps \cup ReqApps
Message == [id : Ids, src : Peers, typ : Types, own : BOOLEAN, tv : TagValues]
Request == [eid : Peers, tv : TagValues]

Init ==
    /\ held = {}
    /\ bound = [l \in ListenerApps |-> None]
    /\ asked = [r \in ReqApps |-> None]
    /\ pc = [a \in Apps |-> "closed"]

\* m is addressed to application a: a request to the type a listens for, a
\* response to the (eid, tv) a request channel sent with.
For(m, a) ==
    IF a \in ListenerApps THEN m.own /\ m.typ = bound[a]
    ELSE /\ ~m.own /\ asked[a] # None
         /\ m.src = asked[a].eid /\ m.tv = asked[a].tv

Bind(l, t) ==
    /\ pc[l] = "closed"
    /\ \A k \in ListenerApps : bound[k] # t
    /\ bound' = [bound EXCEPT ![l] = t]
    /\ pc' = [pc EXCEPT ![l] = "ready"]
    /\ UNCHANGED <<held, asked>>

Unbind(l) ==
    /\ pc[l] = "ready"
    /\ bound' = [bound EXCEPT ![l] = None]
    /\ pc' = [pc EXCEPT ![l] = "closed"]
    /\ UNCHANGED <<held, asked>>

Open(r) ==
    /\ pc[r] = "closed"
    /\ pc' = [pc EXCEPT ![r] = "ready"]
    /\ UNCHANGED <<held, bound, asked>>

\* A request is sent once; later sends reuse it and change nothing here.
Ask(r, q) ==
    /\ pc[r] = "ready" /\ asked[r] = None
    /\ asked' = [asked EXCEPT ![r] = q]
    /\ UNCHANGED <<held, bound, pc>>

Close(r) ==
    /\ pc[r] = "ready"
    /\ asked' = [asked EXCEPT ![r] = None]
    /\ pc' = [pc EXCEPT ![r] = "closed"]
    /\ UNCHANGED <<held, bound>>

\* recv suspends only when nothing addressed to a is held.
Wait(a) ==
    /\ pc[a] = "ready"
    /\ a \in ListenerApps \/ asked[a] # None
    /\ ~\E m \in held : For(m, a)
    /\ pc' = [pc EXCEPT ![a] = "pending"]
    /\ UNCHANGED <<held, bound, asked>>

\* recv returns a message addressed to a, at its first poll or later.
Take(a, m) ==
    /\ pc[a] \in {"ready", "pending"}
    /\ m \in held /\ For(m, a)
    /\ held' = held \ {m}
    /\ pc' = [pc EXCEPT ![a] = "ready"]
    /\ UNCHANGED <<bound, asked>>

\* The application drops its suspended recv.
Cancel(a) ==
    /\ pc[a] = "pending"
    /\ pc' = [pc EXCEPT ![a] = "ready"]
    /\ UNCHANGED <<held, bound, asked>>

\* A complete message arrives; a request is kept only if a listener is
\* bound to its type.
Arrive(m) ==
    /\ \A h \in held : h.id # m.id
    /\ m.own => \E l \in ListenerApps : bound[l] = m.typ
    /\ held' = held \cup {m}
    /\ UNCHANGED <<bound, asked, pc>>

\* Held messages time out.
Expire(M) ==
    /\ M # {}
    /\ held' = held \ M
    /\ UNCHANGED <<bound, asked, pc>>

\* A suspended receiver takes a message addressed to it.
Deliver(a) == pc[a] = "pending" /\ \E m \in held : Take(a, m)

Next ==
    \/ \E l \in ListenerApps, t \in Types : Bind(l, t)
    \/ \E l \in ListenerApps : Unbind(l)
    \/ \E r \in ReqApps : Open(r) \/ Close(r)
    \/ \E r \in ReqApps, q \in Request : Ask(r, q)
    \/ \E a \in Apps : Wait(a) \/ Cancel(a) \/ \E m \in held : Take(a, m)
    \/ \E m \in Message : Arrive(m)
    \/ \E M \in SUBSET held : Expire(M)

Spec == Init /\ [][Next]_vars /\ \A a \in Apps : WF_vars(Deliver(a))

=============================================================================
