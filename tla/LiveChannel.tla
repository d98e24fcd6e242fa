----------------------------- MODULE LiveChannel -----------------------------
(***************************************************************************)
(* What TionCloud promises to its listeners about the live channel: it     *)
(* starts once, goes down and comes back any number of times, and a stop   *)
(* is final.  TionCloud implements it; the coordinator is modelled on it.  *)
(***************************************************************************)

VARIABLE phase

Phases == {"starting", "up", "down", "stopped"}

Init == phase = "starting"

\* async_start returned: everything is loaded, subscribed and polled.
Started == phase = "starting" /\ phase' = "up"

Lost == phase = "up" /\ phase' = "down"

Regained == phase = "down" /\ phase' = "up"

\* async_stop, of a start that fails or of an unload.
Stopped == phase # "stopped" /\ phase' = "stopped"

Next == Started \/ Lost \/ Regained \/ Stopped

Safety == Init /\ [][Next]_phase

\* Nobody waits for ever for a start to end or for a lost channel.
Liveness ==
    /\ (phase = "starting") ~> (phase \in {"up", "stopped"})
    /\ (phase = "down") ~> (phase \in {"up", "stopped"})

Spec == Safety /\ Liveness

=============================================================================
