------------------------------- MODULE MCPort -------------------------------
(* Model-checking instance of Port: two local senders and one forwarder    *)
(* sharing a port whose queue has one or two slots.                        *)
EXTENDS Port

CONSTANTS s1, s2, f1

MCSenders == {s1, s2}
MCForwarders == {f1}
=============================================================================
