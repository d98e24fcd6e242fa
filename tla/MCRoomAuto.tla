------------------------------ MODULE MCRoomAuto ------------------------------
EXTENDS RoomAuto, TLC

CONSTANTS w1, w2

\* A room's auto mode: the switch and the two speeds.
Of(enabled, min, max) == "enabled" :> enabled @@ "speed_min" :> min @@ "speed_max" :> max

\* The speeds in order.
Ordered == {a \in Autos : a["speed_min"] <= a["speed_max"]}

\* What other clients write.
Others == {Of(0, 1, 1), Unset}

\* One call for every field; one for a setting, which the other may not allow.
Wanted == w1 :> {Of(1, 1, 1)}
       @@ w2 :> {"speed_min" :> 0, "speed_max" :> 0}
=============================================================================
