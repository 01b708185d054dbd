------------------------------- MODULE Router -------------------------------
(***************************************************************************)
(* The local side of the mctp-estack Router (src/mctp-estack/src/router.rs)*)
(* inbound delivery of complete messages, the listener table, the          *)
(* response waiters, request channels and listeners as applications, and   *)
(* the timer.  Forwarding and the port queues are modelled in Port.        *)
(*                                                                         *)
(* Scheduling is single-core cooperative (spec section 5).  The router     *)
(* mutex `inner` is never held across a suspension (every holder releases  *)
(* it before its first await), so between two suspension points a router   *)
(* operation runs without interleaving and is one action here.  The only  *)
(* suspension on the local path is the Poll::Pending of                    *)
(* app_recv_message; a suspended receiver runs again only once its waker   *)
(* has been woken.                                                         *)
(*                                                                         *)
(* The MCTP Stack is outside src/ and is modelled from its contract        *)
(* (spec section 6.1): the deferred set of reassembled messages, the       *)
(* owned-tag flows, and timeouts.  Packets are single-packet messages:     *)
(* reassembly of fragments is the Stack's business.                        *)
(***************************************************************************)
EXTENDS Naturals, FiniteSets

CONSTANTS
    Types,          \* message types (MsgType), model values
    Peers,          \* remote EIDs
    TagValues,      \* TagValue space of the Stack's allocator
    MaxListeners,   \* MAX_LISTENERS
    MaxReceivers,   \* MAX_RECEIVERS
    ListenerApps,   \* applications each owning at most one RouterAsyncListener
    ReqApps,        \* applications each owning at most one RouterAsyncReqChannel
    SendCanFail,    \* PortTop::send_message may fail after start_send
    MaxInbound,     \* bound on packets given to inbound()
    MaxSends,       \* bound on send_vectored calls
    Preemptive,     \* other tasks may run between inbound's unlock and relock
    LocalEids,      \* EIDs the Stack may be given (at creation, by set_eid)
    None            \* Option::None

ASSUME /\ MaxListeners \in Nat \ {0} /\ MaxReceivers \in Nat \ {0}
       /\ SendCanFail \in BOOLEAN /\ Preemptive \in BOOLEAN
       /\ ListenerApps \cap ReqApps = {}
       /\ MaxInbound \in Nat /\ MaxSends \in Nat

Apps == ListenerApps \cup ReqApps
Cookies == 0 .. MaxListeners - 1

VARIABLES
    listeners,   \* Router::app_listeners: per slot None or [typ, waker]
    recvWakers,  \* RouterInner::app_receive_wakers (MultiWakerRegistration)
    woken,       \* applications whose waker has been woken
    deferred,    \* Stack: completed messages returned with return_handle
    flows,       \* Stack: flows of owned tags [eid, tv, expires, by]
    pc,          \* per application: "closed", "ready" or "pending" in recv
    lcookie,     \* RouterAsyncListener::cookie
    ltyp,        \* the type the listener was created for
    reid,        \* RouterAsyncReqChannel::eid
    rtag,        \* RouterAsyncReqChannel::sent_tag (the TagValue of Owned)
    rexp,        \* RouterAsyncReqChannel::tag_expires
    got,         \* the type of the message the last recv returned
    answered,    \* auxiliary: for a request channel, whose request the
                 \* response its last recv returned answers
    nInbound,    \* packets given to inbound() so far
    nSends,      \* send_vectored calls so far
    limbo,       \* messages the Stack has completed that inbound has not
                 \* yet dispatched (only with Preemptive)
    ownEid       \* Stack::own_eid

vars == <<listeners, recvWakers, woken, deferred, flows, pc, lcookie, ltyp,
          reid, rtag, rexp, got, answered, nInbound, nSends, limbo, ownEid>>
appVars == <<pc, lcookie, ltyp, reid, rtag, rexp, got, answered>>

\* `by` of a flow (the request channel that allocated it) and `to` of a
\* message (the requester a response answers) are auxiliary: the Stack
\* keeps neither, they only name whose request is whose.
Msg == [id : Nat, src : Peers, typ : Types, own : BOOLEAN, tv : TagValues,
        cookie : Cookies \cup {None}, to : ReqApps \cup {None}]
Flow == [eid : Peers, tv : TagValues, expires : BOOLEAN, by : ReqApps]
Slot == [typ : Types, waker : Apps \cup {None}]

\* Every variable holds a value of its type; in particular the receive waker
\* set never holds more than MAX_RECEIVERS wakers (MultiWakerRegistration).
TypeOK ==
    /\ listeners \in [Cookies -> Slot \cup {None}]
    /\ recvWakers \subseteq ReqApps /\ Cardinality(recvWakers) <= MaxReceivers
    /\ woken \subseteq Apps
    /\ deferred \subseteq Msg
    /\ flows \subseteq Flow
    /\ pc \in [Apps -> {"closed", "ready", "pending"}]
    /\ lcookie \in [ListenerApps -> Cookies \cup {None}]
    /\ ltyp \in [ListenerApps -> Types \cup {None}]
    /\ reid \in [ReqApps -> Peers \cup {None}]
    /\ rtag \in [ReqApps -> TagValues \cup {None}]
    /\ rexp \in [ReqApps -> BOOLEAN]
    /\ got \in [Apps -> Types \cup {None}]
    /\ answered \in [ReqApps -> ReqApps \cup {None}]
    /\ nInbound \in 0 .. MaxInbound /\ nSends \in 0 .. MaxSends
    /\ limbo \subseteq Msg
    /\ ownEid \in LocalEids

Init ==
    /\ listeners = [c \in Cookies |-> None]
    /\ recvWakers = {}
    /\ woken = {}
    /\ deferred = {}
    /\ flows = {}
    /\ pc = [a \in Apps |-> "closed"]
    /\ lcookie = [l \in ListenerApps |-> None]
    /\ ltyp = [l \in ListenerApps |-> None]
    /\ reid = [r \in ReqApps |-> None]
    /\ rtag = [r \in ReqApps |-> None]
    /\ rexp = [r \in ReqApps |-> TRUE]
    /\ got = [a \in Apps |-> None]
    /\ answered = [r \in ReqApps |-> None]
    /\ nInbound = 0
    /\ nSends = 0
    /\ limbo = {}
    /\ ownEid \in LocalEids

-----------------------------------------------------------------------------
(* Wakers (embassy_sync::waitqueue).  WakerRegistration::register stores   *)
(* the new waker and wakes a different one it replaces; wake() takes the   *)
(* stored waker.  MultiWakerRegistration::register ignores a waker already *)
(* present and, when full, wakes and clears all before storing.            *)

\* Waking the wakers of W: a woken task that is not suspended in recv any
\* more (its future was dropped) just runs once with nothing to do, so only
\* suspended receivers are recorded as woken.
Wake(W) == {w \in W : pc[w] = "pending"}

\* WakerRegistration::register on listener slot c, for application a.
SlotRegister(c, a) ==
    LET old == listeners[c].waker IN
    /\ listeners' = [listeners EXCEPT ![c].waker = a]
    /\ woken' = IF old \in {None, a} THEN woken \ {a}
                ELSE (woken \cup Wake({old})) \ {a}

\* Mutant: the waker set grows past its capacity instead of waking all.
MultiRegisterUnbounded(a) ==
    /\ recvWakers' = recvWakers \cup {a}
    /\ woken' = woken \ {a}

\* MultiWakerRegistration::register for application a.
MultiRegister(a) ==
    IF a \in recvWakers THEN UNCHANGED recvWakers /\ woken' = woken \ {a}
    ELSE IF Cardinality(recvWakers) = MaxReceivers
         THEN /\ recvWakers' = {a}
              /\ woken' = (woken \cup Wake(recvWakers)) \ {a}
         ELSE /\ recvWakers' = recvWakers \cup {a}
              /\ woken' = woken \ {a}

-----------------------------------------------------------------------------
(* Stack contract (spec section 6.1).                                      *)

\* Stack::get_deferred_bycookie(&[cookie])
stack_get_deferred_bycookie(c) == {m \in deferred : m.cookie = c}

\* Stack::get_deferred(eid, Tag::Unowned(tv))
stack_get_deferred(eid, tv) ==
    {m \in deferred : m.src = eid /\ ~m.own /\ m.tv = tv}

\* Stack::receive for a response: accepted only on an open flow.
stack_accepts_response(src, tv) == \E f \in flows : f.eid = src /\ f.tv = tv

\* Stack::start_send with Some(Tag::Owned(tv)) and tag_expires = false:
\* the flow must still be open and not expiring.
stack_reusable(eid, tv) == \E f \in flows : f.eid = eid /\ f.tv = tv /\ ~f.expires

\* The TagValues Stack::start_send may allocate for eid when tag is None.
stack_free_tags(eid) == {tv \in TagValues : ~\E f \in flows : f.eid = eid /\ f.tv = tv}

-----------------------------------------------------------------------------
(* Which deferred messages app_recv_message may return to application a:  *)
(* by cookie for a listener, by (Unowned(sent tv), eid) for a request.     *)
Selected(a) ==
    IF a \in ListenerApps THEN stack_get_deferred_bycookie(lcookie[a])
    ELSE stack_get_deferred(reid[a], rtag[a])

\* One poll of app_recv_message: take a matching deferred message
\* (fetch_message, copy, finished_receive) or register the waker and pend.
app_recv_message(a) ==
    \/ \E m \in Selected(a) :
          /\ deferred' = deferred \ {m}
          /\ got' = [got EXCEPT ![a] = m.typ]
          /\ answered' = IF a \in ReqApps THEN [answered EXCEPT ![a] = m.to]
                         ELSE answered
          /\ pc' = [pc EXCEPT ![a] = "ready"]
          /\ woken' = woken \ {a}
          /\ UNCHANGED <<listeners, recvWakers>>
    \/ /\ Selected(a) = {}
       /\ IF a \in ListenerApps
          THEN SlotRegister(lcookie[a], a) /\ UNCHANGED recvWakers
          ELSE MultiRegister(a) /\ UNCHANGED listeners
       /\ pc' = [pc EXCEPT ![a] = "pending"]
       /\ UNCHANGED <<deferred, got, answered>>

-----------------------------------------------------------------------------
(* Listener table.                                                          *)

\* Router::app_bind(typ) putting typ in slot c: AddrInUse on a duplicate
\* type, otherwise the first free slot (NoSpace when none is free).
app_bind(c, typ) ==
    LET free == {x \in Cookies : listeners[x] = None} IN
    /\ \A x \in Cookies : listeners[x] # None => listeners[x].typ # typ
    /\ c \in free /\ \A y \in free : c <= y
    /\ listeners' = [listeners EXCEPT ![c] = [typ |-> typ, waker |-> None]]

\* Router::listener(typ): app_bind, then a RouterAsyncListener holding the
\* cookie.
listener(l, typ) ==
    /\ pc[l] = "closed"
    /\ \E c \in Cookies : app_bind(c, typ) /\ lcookie' = [lcookie EXCEPT ![l] = c]
    /\ pc' = [pc EXCEPT ![l] = "ready"]
    /\ ltyp' = [ltyp EXCEPT ![l] = typ]
    /\ UNCHANGED <<recvWakers, woken, deferred, flows, reid, rtag, rexp, got,
                   answered, nInbound, nSends, limbo, ownEid>>

\* Router::app_unbind(cookie): clear the slot, wake nothing.  The cookie of
\* a live listener is always bound, so BadArgument does not occur.
app_unbind(c) == listeners' = [listeners EXCEPT ![c] = None]

\* Drop for RouterAsyncListener: app_unbind of its cookie.  A listener is
\* never dropped inside its own recv.
ListenerDrop(l) ==
    /\ pc[l] = "ready"
    /\ app_unbind(lcookie[l])
    /\ pc' = [pc EXCEPT ![l] = "closed"]
    /\ lcookie' = [lcookie EXCEPT ![l] = None]
    /\ ltyp' = [ltyp EXCEPT ![l] = None]
    /\ got' = [got EXCEPT ![l] = None]
    /\ UNCHANGED <<recvWakers, woken, deferred, flows, reid, rtag, rexp,
                   answered, nInbound, nSends, limbo, ownEid>>

\* RouterAsyncListener::recv: first poll of app_recv_message(Some(cookie)).
ListenerRecv(l) ==
    /\ pc[l] = "ready"
    /\ app_recv_message(l)
    /\ UNCHANGED <<flows, lcookie, ltyp, reid, rtag, rexp, nInbound, nSends,
                   limbo, ownEid>>

\* RouterAsyncRespChannel::send_vectored on the channel the listener's last
\* recv returned: app_send_message with Some(Unowned(tv)), tag_expires =
\* false.  Stack::start_send allocates no flow for an Unowned tag, and a
\* failure (route, port) is returned to the caller; no router state changes.
resp_send_vectored(l) ==
    /\ pc[l] = "ready" /\ got[l] # None /\ nSends < MaxSends
    /\ nSends' = nSends + 1
    /\ UNCHANGED <<listeners, recvWakers, woken, deferred, flows, appVars,
                   nInbound, limbo, ownEid>>

-----------------------------------------------------------------------------
(* Request channels.                                                        *)

\* Router::req(eid) -> RouterAsyncReqChannel::new
req(r, eid) ==
    /\ pc[r] = "closed"
    /\ pc' = [pc EXCEPT ![r] = "ready"]
    /\ reid' = [reid EXCEPT ![r] = eid]
    /\ rtag' = [rtag EXCEPT ![r] = None]
    /\ rexp' = [rexp EXCEPT ![r] = TRUE]
    /\ UNCHANGED <<listeners, recvWakers, woken, deferred, flows, lcookie,
                   ltyp, got, answered, nInbound, nSends, limbo, ownEid>>

\* RouterAsyncReqChannel::tag_noexpire: BadArgument once a tag was sent.
tag_noexpire(r) ==
    /\ pc[r] = "ready" /\ rtag[r] = None /\ rexp[r]
    /\ rexp' = [rexp EXCEPT ![r] = FALSE]
    /\ UNCHANGED <<listeners, recvWakers, woken, deferred, flows, pc, lcookie,
                   ltyp, reid, rtag, got, answered, nInbound, nSends, limbo, ownEid>>

\* app_send_message(eid, typ, tag, tag_expires, ...) returning the TagValue
\* of Ok(Tag::Owned(tv)) as `sent`, or None for an Err.  PortLookup::by_eid
\* is the application's callback and may return None or a bad PortId:
\* TxFailure.  Stack::start_send allocates a flow for a None tag (error if
\* no TagValue is free) or reuses Some(Owned(tv)); the router mutex is
\* released and PortTop::send_message queues the fragments or fails (NoSpace
\* from flattening, a fragmenter error) with the flow already allocated.
app_send_message(r, eid, tag, expires, sent) ==
    LET sendResults(tv) == IF SendCanFail THEN {tv, None} ELSE {tv} IN
    \/ sent = None /\ UNCHANGED flows
    \/ /\ tag = None
       /\ \E tv \in stack_free_tags(eid) :
             /\ flows' = flows \cup {[eid |-> eid, tv |-> tv, expires |-> expires,
                                      by |-> r]}
             /\ sent \in sendResults(tv)
    \/ /\ tag # None /\ stack_reusable(eid, tag)
       /\ sent \in sendResults(tag)
       /\ UNCHANGED flows

\* RouterAsyncReqChannel::send_vectored: send with the stored sent_tag and
\* tag_expires, store the returned tag on success only.
send_vectored(r) ==
    /\ pc[r] = "ready" /\ nSends < MaxSends
    /\ nSends' = nSends + 1
    /\ \E sent \in TagValues \cup {None} :
          /\ app_send_message(r, reid[r], rtag[r], rexp[r], sent)
          /\ rtag' = IF sent = None THEN rtag ELSE [rtag EXCEPT ![r] = sent]
    /\ UNCHANGED <<listeners, recvWakers, woken, deferred, pc, lcookie, ltyp,
                   reid, rexp, got, answered, nInbound, limbo, ownEid>>

\* RouterAsyncReqChannel::recv: BadArgument without a sent tag, otherwise
\* the first poll of app_recv_message(None, Some((Unowned(tv), eid))).
ReqRecv(r) ==
    /\ pc[r] = "ready" /\ rtag[r] # None
    /\ app_recv_message(r)
    /\ UNCHANGED <<flows, lcookie, ltyp, reid, rtag, rexp, nInbound, nSends,
                   limbo, ownEid>>

\* app_release_tag(eid, Owned(tv)) -> Stack::cancel_flow; an error (the
\* flow is gone) is logged and swallowed.
app_release_tag(eid, tv) ==
    flows' = {f \in flows : ~(f.eid = eid /\ f.tv = tv /\ ~f.expires)}

\* RouterAsyncReqChannel::async_drop: release a non-expiring sent tag.
async_drop(r) ==
    /\ pc[r] = "ready"
    /\ IF ~rexp[r] /\ rtag[r] # None THEN app_release_tag(reid[r], rtag[r])
       ELSE UNCHANGED flows
    /\ pc' = [pc EXCEPT ![r] = "closed"]
    /\ reid' = [reid EXCEPT ![r] = None]
    /\ rtag' = [rtag EXCEPT ![r] = None]
    /\ rexp' = [rexp EXCEPT ![r] = TRUE]
    /\ got' = [got EXCEPT ![r] = None]
    /\ answered' = [answered EXCEPT ![r] = None]
    /\ UNCHANGED <<listeners, recvWakers, woken, deferred, lcookie, ltyp,
                   nInbound, nSends, limbo, ownEid>>

\* Drop::drop of a RouterAsyncReqChannel that was not consumed by
\* async_drop: with a non-expiring sent tag it only warns; nothing is
\* released.  A channel is never dropped inside its own recv.
drop(r) ==
    /\ pc[r] = "ready"
    /\ pc' = [pc EXCEPT ![r] = "closed"]
    /\ reid' = [reid EXCEPT ![r] = None]
    /\ rtag' = [rtag EXCEPT ![r] = None]
    /\ rexp' = [rexp EXCEPT ![r] = TRUE]
    /\ got' = [got EXCEPT ![r] = None]
    /\ answered' = [answered EXCEPT ![r] = None]
    /\ UNCHANGED <<listeners, recvWakers, woken, deferred, flows, lcookie, ltyp,
                   nInbound, nSends, limbo, ownEid>>

-----------------------------------------------------------------------------
(* Suspended receivers.                                                     *)

\* The executor polls a pending recv future again after its waker was woken.
Resume(a) ==
    /\ pc[a] = "pending" /\ a \in woken
    /\ app_recv_message(a)
    /\ UNCHANGED <<flows, lcookie, ltyp, reid, rtag, rexp, nInbound, nSends,
                   limbo, ownEid>>

\* The application drops a pending recv future (e.g. its own timeout).  The
\* registered waker stays where it is, inert.
CancelRecv(a) ==
    /\ pc[a] = "pending"
    /\ pc' = [pc EXCEPT ![a] = "ready"]
    /\ woken' = woken \ {a}
    /\ UNCHANGED <<listeners, recvWakers, deferred, flows, lcookie, ltyp, reid,
                   rtag, rexp, got, answered, nInbound, nSends, limbo, ownEid>>

-----------------------------------------------------------------------------
(* Inbound delivery.                                                        *)

\* Mutant: the matching listener's waker is not woken.
incoming_listener_unwoken(m) ==
    LET match == {c \in Cookies : listeners[c] # None /\ listeners[c].typ = m.typ}
    IN IF match = {} THEN UNCHANGED <<deferred, listeners, woken>>
       ELSE LET c == CHOOSE x \in match : \A y \in match : x <= y
            IN /\ deferred' = deferred \cup {[m EXCEPT !.cookie = c]}
               /\ UNCHANGED <<listeners, woken>>

\* incoming_listener: the first slot bound to typ gets the cookie, the handle
\* goes back to the Stack's deferred set and the slot's waker is woken; with
\* no matching slot the Stack is told the receive is finished.
incoming_listener(m) ==
    LET match == {c \in Cookies : listeners[c] # None /\ listeners[c].typ = m.typ}
    IN IF match = {} THEN UNCHANGED <<deferred, listeners, woken>>
       ELSE LET c == CHOOSE x \in match : \A y \in match : x <= y
                w == listeners[c].waker
            IN /\ deferred' = deferred \cup {[m EXCEPT !.cookie = c]}
               /\ listeners' = [listeners EXCEPT ![c].waker = None]
               /\ woken' = IF w = None THEN woken ELSE woken \cup Wake({w})

\* Mutant: the response is returned to the Stack without waking anyone.
incoming_response_unwoken(m) ==
    /\ deferred' = deferred \cup {m}
    /\ UNCHANGED <<listeners, woken, recvWakers>>

\* incoming_response: return the handle, wake every response waiter.
incoming_response(m) ==
    /\ deferred' = deferred \cup {m}
    /\ woken' = woken \cup Wake(recvWakers)
    /\ recvWakers' = {}
    /\ UNCHANGED listeners

\* incoming_local: dispatch on the tag's owner bit.
incoming_local(m) ==
    IF m.own THEN incoming_listener(m) /\ UNCHANGED recvWakers
    ELSE incoming_response(m)

\* Router::inbound for a packet that completes a message.  A packet whose
\* destination is not the Stack's own EID (is_local_dest) takes the
\* forwarding branch, which changes no router state (Bridge models it).
\* Otherwise Stack::receive accepts a request, and a response only on an open flow
\* (otherwise Err: dropped); inbound drops the router mutex and dispatches
\* the complete message with incoming_local, which takes the mutex again.
\* Between the two nothing else runs on a cooperative executor; with
\* Preemptive the message waits in limbo for dispatch.
inbound(src, dst, typ, own, tv) ==
    LET flow == {f \in flows : f.eid = src /\ f.tv = tv}
        m == [id |-> nInbound, src |-> src, typ |-> typ, own |-> own,
              tv |-> tv, cookie |-> None,
              to |-> IF own \/ flow = {} THEN None ELSE (CHOOSE f \in flow : TRUE).by]
    IN
    /\ nInbound < MaxInbound
    /\ nInbound' = nInbound + 1
    /\ IF dst # ownEid \/ (~own /\ ~stack_accepts_response(src, tv))
       THEN UNCHANGED <<deferred, listeners, woken, recvWakers, limbo>>
       ELSE IF Preemptive
       THEN /\ limbo' = limbo \cup {m}
            /\ UNCHANGED <<deferred, listeners, woken, recvWakers>>
       ELSE incoming_local(m) /\ UNCHANGED limbo
    /\ UNCHANGED <<flows, appVars, nSends, ownEid>>

\* The rest of inbound after the gap: incoming_local of a completed message.
dispatch(m) ==
    /\ m \in limbo
    /\ limbo' = limbo \ {m}
    /\ incoming_local(m)
    /\ UNCHANGED <<flows, appVars, nInbound, nSends, ownEid>>

\* Router::set_eid -> Stack::set_eid: the EID that is_local_dest matches.
set_eid(e) ==
    /\ ownEid' = e
    /\ UNCHANGED <<listeners, recvWakers, woken, deferred, flows, appVars,
                   nInbound, nSends, limbo>>

\* Router::update_time: Stack::update times out expiring flows and held
\* messages; if anything expired every response waiter is woken.
update_time ==
    \E gone \in SUBSET {f \in flows : f.expires}, lost \in SUBSET deferred :
        /\ gone \cup lost # {}
        /\ flows' = flows \ gone
        /\ deferred' = deferred \ lost
        /\ woken' = woken \cup Wake(recvWakers)
        /\ recvWakers' = {}
        /\ UNCHANGED <<listeners, appVars, nInbound, nSends, limbo, ownEid>>

-----------------------------------------------------------------------------
Next ==
    \/ \E l \in ListenerApps, t \in Types : listener(l, t)
    \/ \E l \in ListenerApps : ListenerDrop(l) \/ ListenerRecv(l)
                              \/ resp_send_vectored(l)
    \/ \E r \in ReqApps, e \in Peers : req(r, e)
    \/ \E r \in ReqApps : tag_noexpire(r) \/ send_vectored(r) \/ ReqRecv(r)
                          \/ async_drop(r) \/ drop(r)
    \/ \E a \in Apps : Resume(a) \/ CancelRecv(a)
    \/ \E s \in Peers, d \in LocalEids, t \in Types, o \in BOOLEAN,
          tv \in TagValues : inbound(s, d, t, o, tv)
    \/ \E e \in LocalEids : set_eid(e)
    \/ \E m \in limbo : dispatch(m)
    \/ update_time

\* The executor polls every woken task, and a task inside inbound runs on
\* to its dispatch: weak fairness on Resume and on dispatch.
Fairness == /\ \A a \in Apps : WF_vars(Resume(a))
            /\ WF_vars(\E m \in limbo : dispatch(m))

Spec == Init /\ [][Next]_vars /\ Fairness

\* Stack::update times out an expiring flow once its deadline has passed;
\* update_time is "called periodically" (its doc comment), so a held
\* expiring flow is eventually timed out.  A non-expiring flow is never
\* timed out by the Stack (spec 4.3.6).
TimesOut(f) == f \in flows /\ f.expires /\ update_time /\ f \notin flows'

TimedSpec == Spec /\ \A f \in Flow : WF_vars(TimesOut(f))

-----------------------------------------------------------------------------
(* Properties.                                                              *)

\* No lost wakeup: a receiver suspended in app_recv_message while a message
\* it would select is held by the Stack has been woken, so the executor will
\* poll it (incoming_listener wakes the slot's waker, incoming_response and
\* update_time wake all response waiters, registration replaces wakers).
NoLostWakeup ==
    \A a \in Apps : pc[a] = "pending" /\ Selected(a) # {} => a \in woken

\* The Router implements the demultiplexer of Mailbox: the Stack's deferred
\* messages (without the cookie and the auxiliary `to`) are the held ones,
\* a listener's type is its binding, a request channel's (eid, sent tag)
\* is its request.  So a listener's recv returns only messages of its type
\* and a request recv only responses to its (eid, tv) (app_recv_message's
\* selection by cookie or by Unowned(tv) and eid); recv suspends only when
\* nothing it would take is held; an own message is kept only while a
\* listener is bound to its type (incoming_listener); a request tag is set
\* once per channel (send_vectored); and a suspended recv for which a
\* message is held returns (the wake in incoming_listener/response and the
\* executor's polling of woken tasks).
Box == INSTANCE Mailbox
         WITH Ids <- 0 .. MaxInbound - 1,
              held <- {[id |-> m.id, src |-> m.src, typ |-> m.typ, own |-> m.own,
                        tv |-> m.tv] : m \in deferred},
              bound <- ltyp,
              asked <- [r \in ReqApps |->
                          IF rtag[r] = None THEN None
                          ELSE [eid |-> reid[r], tv |-> rtag[r]]],
              pc <- pc

MailboxSpec == Box!Spec

\* Spec 8.6: a listener's recv never returns a message whose type is not
\* the listener's bound type.
ListenerGetsBoundType ==
    \A l \in ListenerApps :
        pc[l] # "closed" /\ got[l] # None => got[l] = ltyp[l]

\* Spec 8.5 and 4.4 (request channel): a request channel's recv returns a
\* response to its own request, never one answering another channel's
\* request that reused the same TagValue after its flow expired.
ResponseToOwnRequest == \A r \in ReqApps : answered[r] \in {None, r}

\* Spec 4.4: a non-expiring tag is released by async_drop.  Every flow the
\* Stack holds that is not the sent tag of an open request channel is an
\* expiring one, which update_time will reclaim.
NoexpireFlowsOwned ==
    \A f \in flows :
        ~f.expires => \E r \in ReqApps : /\ pc[r] # "closed"
                                         /\ reid[r] = f.eid
                                         /\ rtag[r] = f.tv

\* A flow is owned while an open request channel holds it as its sent tag.
Owned(f) ==
    \E r \in ReqApps : pc[r] # "closed" /\ reid[r] = f.eid /\ rtag[r] = f.tv

ExpiredRecvReturns ==
    \A r \in ReqApps :
        (/\ pc[r] = "pending" /\ rexp[r]
         /\ stack_accepts_response(reid[r], rtag[r]))
            ~> pc[r] # "pending"

=============================================================================
