----------------------------- MODULE MutationLog -----------------------------
(***************************************************************************)
(* What the journal of browser mutations promises of every action that is  *)
(* recorded in it: it is performed at most once for the calls that share   *)
(* its entry, it is called failed only if it was not performed, and what   *)
(* failed is taken up again before it is performed.                        *)
(***************************************************************************)
EXTENDS Naturals, Sequences

CONSTANT Actions
VARIABLE log   \* entries in their order: the action, how often it was performed,
               \* and the verdict: "failed", or "none" as far as that is known

Init == log = <<>>

Enter(action) == log' = Append(log, [action |-> action, performed |-> 0, verdict |-> "none"])

Perform(n) ==
    /\ log[n].performed = 0 /\ log[n].verdict = "none"
    /\ log' = [log EXCEPT ![n].performed = 1]

Refuse(n) ==
    /\ log[n].performed = 0 /\ log[n].verdict = "none"
    /\ log' = [log EXCEPT ![n].verdict = "failed"]

Retry(n) ==
    /\ log[n].verdict = "failed"
    /\ log' = [log EXCEPT ![n].verdict = "none"]

Next ==
    \/ \E action \in Actions : Enter(action)
    \/ \E n \in DOMAIN log : Perform(n) \/ Refuse(n) \/ Retry(n)

Spec == Init /\ [][Next]_log
=============================================================================
