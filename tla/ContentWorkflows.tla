-------------------------- MODULE ContentWorkflows --------------------------
(***************************************************************************)
(* The workflows that produce content for a user: letters and answers, and *)
(* discovered jobs.  A discovery shares no state with the others, so their *)
(* steps are not interleaved: a behaviour is of one kind or the other.     *)
(***************************************************************************)
EXTENDS ContentRequests, JobDiscovery

vars == <<request, cache, stage, merged, judged, shown, jobs>>

Init == ContentInit /\ DiscoveryInit
Next ==
    \/ stage = "search" /\ ContentNext /\ UNCHANGED discoveryVars
    \/ ContentInit /\ DiscoveryNext /\ UNCHANGED contentVars
Spec == Init /\ [][Next]_vars
==============================================================================
