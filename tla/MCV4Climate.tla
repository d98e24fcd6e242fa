------------------------------ MODULE MCV4Climate ------------------------------
EXTENDS V4Climate, TLC

CONSTANTS c1, c2

\* One call of a manual command, one of the room's auto mode or of a preset.
Asked == c1 :> {"off", "heat"} @@ c2 :> {"auto", "sleep"}
=============================================================================
