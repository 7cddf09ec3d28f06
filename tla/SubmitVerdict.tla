---------------------------- MODULE SubmitVerdict ----------------------------
(***************************************************************************)
(* How SubmitApplicationWorkflow judges a click on the submit control      *)
(* (workflow/submitapplication): by the requests captured during the click *)
(* and the page it leaves, asking a model only when these conflict.  A     *)
(* request is what the verdict reads of it: whether it navigates the       *)
(* document, and its status (0: no response), one for each class.          *)
(***************************************************************************)
EXTENDS Naturals, Sequences, SequencesExt

Request == [document : BOOLEAN, status : {0, 200, 400}]
NoRequest == [document |-> FALSE, status |-> 0]
Evidence == [requests : BoundedSeq(Request, 2), errors : BOOLEAN, text : BOOLEAN]

\* Among the requests that were answered, document navigations before XHR
\* and later ones before earlier ones.
BestSubmitRequest(requests) ==
    LET answered == {i \in DOMAIN requests : requests[i].status # 0}
        documents == {i \in answered : requests[i].document}
        candidates == IF documents # {} THEN documents ELSE answered
    IN IF candidates = {} THEN NoRequest
       ELSE requests[CHOOSE i \in candidates : \A j \in candidates : j <= i]

Succeeded(request) == request.status \in 200..399
Rejected(request) == request.status >= 400

\* Mutant of Decide: a success response is believed whatever the page shows.
DecideByNetwork(evidence) ==
    LET best == BestSubmitRequest(evidence.requests) IN
    IF Succeeded(best) \/ evidence.text THEN "submitted"
    ELSE IF Rejected(best) \/ evidence.errors THEN "not submitted" ELSE "ask"

\* decideDeterministically: the clear cases, in the order they are tried.
Decide(evidence) ==
    LET best == BestSubmitRequest(evidence.requests) IN
    CASE Succeeded(best) /\ ~evidence.errors -> "submitted"
      [] evidence.errors /\ ~Succeeded(best) -> "not submitted"
      [] evidence.text /\ ~evidence.errors /\ ~Succeeded(best) -> "submitted"
      [] Rejected(best) /\ ~evidence.errors /\ ~evidence.text -> "not submitted"
      [] OTHER -> "ask"

\* What a site may show that did not take the form: its errors or, if none
\* is visible, no success text and no request answered with success.
ShownByRejection(evidence) ==
    \/ evidence.errors
    \/ /\ ~evidence.text
       /\ \A i \in DOMAIN evidence.requests : ~Succeeded(evidence.requests[i])

\* The verdicts possible on a form that the site took, or did not take.
Verdicts == [accepted \in BOOLEAN |->
    {Decide(evidence) : evidence \in
        {e \in Evidence : accepted \/ ShownByRejection(e)}}]
==============================================================================
