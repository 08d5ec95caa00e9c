----------------------------- MODULE MCFeatures -----------------------------
(* Everything comes in twos; clocks run over two or three windows.         *)
EXTENDS Features

CONSTANTS u1, u2

Pair == {u1, u2}
Early == {0, 1}
Twice == [f \in Features |-> 2]
Starts == [f \in Features |-> IF f \in {"announcements", "errorForwarder", "webhook"} THEN 1 ELSE 2]
Faults == [f \in Features |-> IF f \in {"announcements", "calendar", "starboard"} THEN 2 ELSE 1]
Ends == [f \in Features |-> CASE f \in {"errorForwarder", "webhook"} -> 3
                              [] f = "announcements" -> 5
                              [] OTHER -> 6]
Presences == [f \in Features |-> IF f = "nowPlaying" THEN 3 ELSE 2]
=============================================================================
