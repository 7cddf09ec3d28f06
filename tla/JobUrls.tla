------------------------------- MODULE JobUrls -------------------------------
(***************************************************************************)
(* The addresses of job postings (workflow/jobdiscovery: cleaners.go,      *)
(* filter.go, dates.go).  An address is its scheme, its host in lower case *)
(* without "www.", and the segments of its path; a query and a fragment    *)
(* are dropped wherever addresses are compared or rewritten.  The letter   *)
(* case that some words of a path may have is left out.                    *)
(***************************************************************************)
EXTENDS Naturals, SequencesExt, Selection

Url == [scheme : {"https", "http", "other"}, host : STRING \cup {""}, path : Seq(STRING)]
NoUrl == [scheme |-> "other", host |-> "", path |-> <<>>]

\* What an address of each source looks like: hosts it may come from, final
\* segments that are steps of applying (at Ashby whatever begins with
\* "application"), its length and its fixed segment.
Form(hosts, steps, length, at, word) ==
    [hosts |-> hosts, steps |-> steps, length |-> length, at |-> at, word |-> word]
Forms ==
    [greenhouse |-> Form({"greenhouse"}, {}, 3, 2, "jobs"),
     lever      |-> Form({"lever"}, {"apply"}, 2, 0, ""),
     wellfound  |-> Form({"wellfound"}, {}, 2, 1, "jobs"),
     workable   |-> Form({"workable"}, {"apply"}, 3, 2, "j"),
     ashby      |-> Form({"ashby", "jobs.ashby.com"}, {"application", "applications"}, 2, 0, "")]

\* normalize<Source>JobURL: the canonical address, or none.
Normalize(source, url) ==
    LET form == Forms[source]
        path == IF url.path # <<>> /\ Last(url.path) \in form.steps
                THEN Front(url.path) ELSE url.path
    IN IF /\ url.host \in form.hosts
          /\ Len(path) = form.length
          /\ form.at # 0 => path[form.at] = form.word
       THEN [scheme |-> "https", host |-> source, path |-> path] ELSE NoUrl

urlKey(url) == <<url.host, url.path>>

\* Lever accounts that syndicate the roles of many employers; a hit whose
\* title names one is aggregated.
Aggregators == {"jobgether"}

\* cleanResultsForJobSource: the results of a search that are postings of its
\* source, under their canonical address.
Clean(source, results) ==
    IF source \notin DOMAIN Forms THEN results
    ELSE LET canonical == [i \in DOMAIN results |->
                 [results[i] EXCEPT !.url = Normalize(source, @)]]
             IsPosting(result) ==
                 /\ result.url # NoUrl
                 /\ source = "lever" => result.url.path[1] \notin Aggregators /\ ~result.aggregated
         IN Pick(canonical, {i \in DOMAIN results : IsPosting(canonical[i])})

\* A posting rather than a list of them, under the address that identifies it.
isConcreteJobPostingURL(url) ==
    /\ url.scheme # "other"
    /\ \/ /\ url.host \in DOMAIN Forms
          /\ Normalize(url.host, url) # NoUrl
          /\ urlKey(Normalize(url.host, url)) = urlKey(url)
       \/ /\ url.host = "remotefront" /\ Len(url.path) >= 2
          /\ \A i \in DOMAIN url.path :
                url.path[i] \notin {"search", "category", "categories",
                                    "location", "locations"}
==============================================================================
