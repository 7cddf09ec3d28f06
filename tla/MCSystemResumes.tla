--------------------------- MODULE MCSystemResumes ---------------------------
(* The pool with its children on the constants of MCPoolResumes: the runs of *)
(* one application pause for user actions, whose resumes are queued again.   *)
EXTENDS PoolSystem, MCPoolResumes

\* Where liveness is checked, the runs of one application pause for two actions.
MCOneAppItems == {plain1, resume1, resume2}
MCOneAppApps == {app1}
MCOneAppOf == [item \in MCOneAppItems |-> MCAppOf[item]]
MCOneAppUserOf == [item \in MCOneAppItems |-> MCUserOf[item]]
MCOneAppResumeOf == [item \in MCOneAppItems |-> MCResumeOf[item]]
MCOneAppMaxSends == [item \in MCOneAppItems |-> MCMaxSends[item]]
=============================================================================
