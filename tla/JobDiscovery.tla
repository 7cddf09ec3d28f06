---------------------------- MODULE JobDiscovery ----------------------------
(***************************************************************************)
(* JobDiscoveryWorkflow: a search of every source in one batch, a decision *)
(* model that approves hits, a language model that extracts the fields of  *)
(* the approved ones, and the filter on what it returns.  A hit keeps its  *)
(* address and date; a model refers to hits by their position in what it   *)
(* was shown.  The title and company of a job are the language model's own *)
(* words: nothing compares them with the hit they are filed under.         *)
(* Abstracted away: the prompts, the texts of hits, the company.           *)
(***************************************************************************)
EXTENDS Integers, Sequences, SequencesExt, JobUrls

CONSTANTS
    Sources,    \* the sources searched, in order
    Found,      \* batches of results that the sources may return
    Titles,     \* titles that the language model may give, "" where blank
    MaxExtracted, \* bound: jobs in the answer of the language model
    Now         \* workflow time, in hours

VARIABLES
    stage,      \* step of the workflow
    merged,     \* cleaned hits of all sources
    judged,     \* the decision model's answer on each of them
    shown,      \* approved hits, as shown to the language model
    jobs        \* what the workflow returns

discoveryVars == <<stage, merged, judged, shown, jobs>>

\* What a source returns for one hit, whose title may name an aggregator.
SearchHit ==
    [aggregated : BOOLEAN, url : Url, date : [unit : {"day", "hour", "unknown"}, n : Nat]]

ASSUME DiscoveryAssumption ==
    /\ Sources \in Seq(STRING)
    /\ Found \subseteq [DOMAIN Sources -> Seq(SearchHit)]
    /\ Titles \subseteq STRING
    /\ Now \in Nat /\ MaxExtracted \in Nat

NoDate == -1
Judgments == {"posting", "no posting", "invalid"}

\* normalizeSerperDate: days ago from today, hours ago from now.
normalizeSerperDate(date, now) ==
    CASE date.unit = "day" -> (now \div 24) - date.n
      [] date.unit = "hour" -> (now - date.n) \div 24
      [] OTHER -> NoDate

\* mergeCleanedResults: the sources in order, as many as were answered.
mergeCleanedResults(outputs) ==
    LET dated(hit) == [hit EXCEPT !.date = normalizeSerperDate(@, Now)]
        hits(i) == LET cleaned == Clean(Sources[i], outputs[i])
                   IN [k \in DOMAIN cleaned |-> dated(cleaned[k])]
    IN Concat([i \in DOMAIN outputs |-> hits(i)])

DiscoveryInit ==
    /\ stage = "search"
    /\ merged = <<>> /\ judged = <<>> /\ shown = <<>> /\ jobs = <<>>

-----------------------------------------------------------------------------
\* WebSearchBatch: the results of every source, or an error.
WebSearchBatch == Found \cup {[i \in DOMAIN Sources |-> <<>>]}

\* runBatchWebSearch and mergeCleanedResults: a failed search finds nothing.
SearchSources ==
    /\ stage = "search"
    /\ \E outputs \in WebSearchBatch : merged' = mergeCleanedResults(outputs)
    /\ stage' = "filter"
    /\ UNCHANGED <<judged, shown, jobs>>

\* filterJobHitsWithJev: an invalid judgment skips its hit, an error ends
\* the workflow, as does an approval of nothing.
filterJobHitsWithJev ==
    /\ stage = "filter"
    /\ \/ merged # <<>> /\ stage' = "failed" /\ UNCHANGED <<judged, shown>>
       \/ \E answer \in [DOMAIN merged -> Judgments] :
             LET approved == {i \in DOMAIN merged : answer[i] = "posting"}
             IN /\ judged' = answer
                /\ shown' = Pick(merged, approved)
                /\ stage' = IF approved = {} THEN "done" ELSE "extract"
    /\ UNCHANGED <<merged, jobs>>

\* What the language model extracts: under the position of a hit it was shown,
\* any number of times and in any order, whatever title it likes; the index may
\* be of no hit (0 and beyond the last).
Extracted == [hit_index : 0..(Len(shown) + 1), title : Titles]

Job(title, hit) == [title |-> title, url |-> hit.url, date |-> hit.date]

\* Extracted fields that make a job: of a hit, with a title, of one posting;
\* of several for one posting, the first.
KeptFields(hits, extracted) ==
    LET hit(i) == hits[extracted[i].hit_index]
        usable == {i \in DOMAIN extracted :
                      /\ extracted[i].hit_index \in DOMAIN hits
                      /\ extracted[i].title # ""
                      /\ isConcreteJobPostingURL(hit(i).url)}
    IN Pick(extracted,
            {i \in usable : \A j \in usable : urlKey(hit(i).url) = urlKey(hit(j).url) => i <= j})
JobsOf(hits, kept) ==
    [k \in DOMAIN kept |-> Job(kept[k].title, hits[kept[k].hit_index])]

\* Mutant of postFilterExtractedJobs: the index is looked up among all hits.
filterExtractedByMerged(extracted) == JobsOf(merged, KeptFields(merged, extracted))
postFilterExtractedJobs(extracted) == JobsOf(shown, KeptFields(shown, extracted))

ExtractJobs ==
    /\ stage = "extract"
    /\ \/ stage' = "failed" /\ UNCHANGED jobs
       \/ /\ \E extracted \in BoundedSeq(Extracted, MaxExtracted) :
                jobs' = postFilterExtractedJobs(extracted)
          /\ stage' = "done"
    /\ UNCHANGED <<merged, judged, shown>>

DiscoveryNext == SearchSources \/ filterJobHitsWithJev \/ ExtractJobs

-----------------------------------------------------------------------------
\* Every job that is returned has a title, and the address and the date of one
\* and the same hit, which the decision model approved and which names one
\* posting; and no posting is returned twice.  The positions of hits change
\* twice on the way: nothing may mix up what the decision was about and what
\* is returned, whatever indices and titles the language model answers with.
JobsAreApprovedHits ==
    /\ \A j \in DOMAIN jobs :
          /\ jobs[j].title # ""
          /\ \E i \in DOMAIN merged :
                /\ judged[i] = "posting"
                /\ jobs[j].url = merged[i].url /\ jobs[j].date = merged[i].date
                /\ isConcreteJobPostingURL(merged[i].url)
    /\ \A i, j \in DOMAIN jobs :
          urlKey(jobs[i].url) = urlKey(jobs[j].url) => i = j
==============================================================================
