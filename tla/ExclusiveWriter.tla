--------------------------- MODULE ExclusiveWriter ---------------------------
(***************************************************************************)
(* What the profile lease promises about one user's Kernel profile: at     *)
(* most one application writes to it, and between two writers there is a   *)
(* moment with none.                                                       *)
(***************************************************************************)
CONSTANTS Apps, None
VARIABLE writers   \* applications whose recorded browser can write

Init == writers = {}
Enter(a) == writers = {} /\ writers' = {a}
Leave(a) == writers = {a} /\ writers' = {}
Next == \E a \in Apps : Enter(a) \/ Leave(a)
Spec == Init /\ [][Next]_writers
=============================================================================
