---------------------------- MODULE MCEventTrigger ----------------------------
(* Small instances of EventTrigger for TLC. *)
EXTENDS EventTrigger

CONSTANTS c1, c2, k1, k2

Ask(event, keys) == [event |-> event, keys |-> keys]

\* A batch, and another event triggered with one of its keys.
MCRequests == {Ask(1, <<NoTriggerId, k1>>), Ask(2, <<k1>>)}

\* One trigger, sent again and again.
RetriedRequest == {Ask(1, <<k1>>)}
=============================================================================
