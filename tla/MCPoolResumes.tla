---------------------------- MODULE MCPoolResumes ----------------------------
(* A small instance of the pool around one application that pauses for user *)
(* actions: its first item, two resumes of one user action and the resume   *)
(* of another, with signals repeated; and a second application of the user. *)
EXTENDS BrowserPool, TLC

CONSTANTS plain1, resume1, resume2, plain2, app1, app2, user1, action1, action2

MCItems == {plain1, resume1, resume2, plain2}
MCApps == {app1, app2}
MCUsers == {user1}
MCUserActions == {action1, action2}
MCAppOf == plain1 :> app1 @@ resume1 :> app1 @@ resume2 :> app1 @@ plain2 :> app2
MCUserOf == [item \in MCItems |-> user1]
MCResumeOf == plain1 :> NoAction @@ resume1 :> action1 @@ resume2 :> action2
              @@ plain2 :> NoAction
MCMaxSends == [item \in MCItems |-> IF item = resume1 THEN 2 ELSE 1]
=============================================================================
