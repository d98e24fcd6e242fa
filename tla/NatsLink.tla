------------------------------- MODULE NatsLink -------------------------------
(***************************************************************************)
(* What a NatsConnection promises to its owner: it opens or fails, and an  *)
(* open one is either closed by the owner or reported as lost, once.       *)
(***************************************************************************)

VARIABLE state

States == {"opening", "open", "failed", "lost", "closed"}

Init == state = "opening"

Opened == state = "opening" /\ state' = "open"

\* async_connect raises.
Failed == state = "opening" /\ state' = "failed"

\* on_disconnect is called.
Lost == state = "open" /\ state' = "lost"

\* async_close of a connection that was not reported as lost.
Closed == state = "open" /\ state' = "closed"

Next == Opened \/ Failed \/ Lost \/ Closed

Safety == Init /\ [][Next]_state

\* Nobody waits for ever for a connection to open.
Liveness == state = "opening" ~> state # "opening"

Spec == Safety /\ Liveness

=============================================================================
