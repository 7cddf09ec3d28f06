--------------------------- MODULE MCBrowserClient ---------------------------
(* Two applications of one user on Kernel, or one application on Rod.      *)
EXTENDS BrowserClient, TLC

\* Every call runs on the same worker.
OneWorker == [i \in Slots |-> CHOOSE w \in Workers : TRUE]

Symmetry == Permutations(Apps) \cup Permutations(Slots) \cup Permutations(Browsers)
=============================================================================
