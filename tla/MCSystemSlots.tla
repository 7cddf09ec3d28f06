---------------------------- MODULE MCSystemSlots ----------------------------
(* The pool with its children, more users than slots and one workflow per    *)
(* application: nothing pauses, but runs end and time out, and the pool      *)
(* rolls over under them.  The first user has two applications, two others   *)
(* have one each.                                                            *)
EXTENDS PoolSystem, TLC

CONSTANTS plain1, plain2, plain3, plain4, app1, app2, app3, app4, user1, user2, user3

MCItems == {plain1, plain2, plain3, plain4}
MCApps == {app1, app2, app3, app4}
MCUsers == {user1, user2, user3}
MCAppOf == plain1 :> app1 @@ plain2 :> app2 @@ plain3 :> app3 @@ plain4 :> app4
MCUserOf == plain1 :> user1 @@ plain2 :> user1 @@ plain3 :> user2 @@ plain4 :> user3
MCResumeOf == [item \in MCItems |-> NoAction]
MCMaxSends == [item \in MCItems |-> 1]
=============================================================================
