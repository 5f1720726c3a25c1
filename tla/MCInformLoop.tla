--------------------------- MODULE MCInformLoop ---------------------------
(* Bounded instances of the inform loop. *)
EXTENDS InformLoop

MCCfgs == [ports : [1..NumSlots -> {"on", "off"}], addr : Addrs, dev : Devs]

CONSTANTS Faults, Crashes, Moves, Drifts, Edits, Forgets

MCBounds ==
    [c \in {"faults", "crashes", "moves", "drifts", "edits", "forgets"} |->
        CASE c = "faults" -> Faults [] c = "crashes" -> Crashes [] c = "moves" -> Moves
          [] c = "drifts" -> Drifts [] c = "edits" -> Edits [] c = "forgets" -> Forgets]
===========================================================================
