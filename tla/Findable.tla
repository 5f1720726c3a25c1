------------------------------ MODULE Findable ------------------------------
(***************************************************************************)
(* What a driver that moves its own switch's address promises: the switch   *)
(* and the bridge change sides one at a time, the bridge learns only         *)
(* addresses the switch answers at, and at every moment one of the          *)
(* addresses the bridge would dial is one the switch answers at, or returns *)
(* to by itself.                                                            *)
(***************************************************************************)
CONSTANT Addr

VARIABLES at,     \* the addresses of the switch
          known   \* the addresses the bridge would dial

vars == <<at, known>>

Meet == at \cap known # {}

Init == at \subseteq Addr /\ known \subseteq Addr /\ Meet

SwitchMoves == at' \in SUBSET Addr /\ UNCHANGED known /\ Meet'

BridgeMoves == known' \in SUBSET (known \cup at) /\ UNCHANGED at /\ Meet'

Next == SwitchMoves \/ BridgeMoves

Spec == Init /\ [][Next]_vars
=============================================================================
