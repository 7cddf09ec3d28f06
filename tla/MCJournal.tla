----------------------------- MODULE MCJournal ------------------------------
(***************************************************************************)
(* Instances of MutationJournal for TLC: which calls the agent makes and   *)
(* which activity IDs the runs give them.                                  *)
(***************************************************************************)
EXTENDS MutationJournal

SingleCalls == {<<"input">>, <<"click">>, <<"secret">>}
FieldCalls == {<<"input", "input">>, <<"click">>}
SecretCalls == {<<"input", "secret">>, <<"input">>}
SubmitCalls == {<<"submit">>}
MixedCalls == {<<"input">>} \cup SubmitCalls

\* Activity IDs number the commands of a run: in every run they start again.
FreshIds == [no \in 1..MaxRuns |-> {10 * no + 1, 10 * no + 2}]
SameIds == [no \in 1..MaxRuns |-> {1}]

=============================================================================
