----------------------------- MODULE MCWatchDog -----------------------------
(* WatchDog on small instances.                                            *)
EXTENDS WatchDog

\* The number of the second process begins with that of the first.
FourNumbers == <<1, 12, 3, 4>>

\* Two programs, three (more than MaxWait), or none.
Configurations == {{}, {"login", "game"}, {"login", "game", "chat"}}
=============================================================================
