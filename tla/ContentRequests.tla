--------------------------- MODULE ContentRequests ---------------------------
(***************************************************************************)
(* Requests for written content: CoverLetterWorkflow, which researches the *)
(* company and writes a letter or edits one, and                           *)
(* AutofillApplicationWorkflow, which answers questions from the pages the *)
(* user points to.  Requests run side by side; what they share is the      *)
(* website cache.  A page is scraped by an activity of its own, and pages  *)
(* arrive in any order.  Abstracted away: the prompts, the text of pages   *)
(* and letters (a page has content or none), and the user's data.          *)
(***************************************************************************)
EXTENDS Naturals, Sequences, FiniteSets, SequencesExt, Selection

CONSTANTS
    Requests,       \* workflows running side by side
    Kinds,          \* what they may be asked for: letter, edit, autofill
    Searches,       \* what a search for the company may find, or the pages
                    \* the user points to: sequences of results
    Subdomains,     \* pairs of a host and a company domain it belongs to
    MaxPages,       \* MAX_PAGES_TO_SCRAPE, 5 in the code
    Questions       \* questions to answer, in order

VARIABLES
    request,        \* each request: its kind, its step and what it has found
    cache           \* website_cache: pages kept for a domain, until they expire

contentVars == <<request, cache>>

NoHost == ""        \* the host of an address that is not one
\* A result of a search, or an address of the user's.
SearchResult == [host : STRING \cup {NoHost}, blocked : BOOLEAN, id : Nat]

ASSUME ContentAssumption ==
    /\ Kinds \subseteq {"letter", "edit", "autofill"}
    /\ Searches \subseteq Seq(SearchResult)
    /\ Questions \in Seq(STRING)
    /\ MaxPages \in Nat

HostsOf(results) == {results[i].host : i \in DOMAIN results} \ {NoHost}
Hosts == UNION {HostsOf(results) : results \in Searches}
NoDomain == "no domain"
NoPage == [host |-> NoHost, blocked |-> FALSE, id |-> 0]
NoPages == [pages |-> <<>>, expired |-> FALSE]

\* A letter as its validation sees it, and the answer to a question.
Letter == [paragraphs : 2..4, long : BOOLEAN]
Answer == [id : {Questions[i] : i \in DOMAIN Questions}, answer : {"yes", "no"}]

Asked(kind) ==
    [kind |-> kind, step |-> IF kind = "autofill" THEN "scrape" ELSE "fetch",
     found |-> <<>>, domain |-> NoDomain, slots |-> <<>>, arrived |-> {},
     pages |-> <<>>, repairing |-> FALSE, result |-> <<>>]

At(r, step) == request[r].step = step
Becomes(r, next) == request' = [request EXCEPT ![r] = next]
Goto(r, step) == Becomes(r, [request[r] EXCEPT !.step = step])
Fails(r) == Goto(r, "failed")
\* On to the model that writes, with the pages found.
WriteFrom(r, pages) ==
    Becomes(r, [request[r] EXCEPT !.step = "write", !.pages = pages, !.found = <<>>,
                                  !.slots = <<>>, !.arrived = {},
                                  !.domain = IF pages = <<>> THEN NoDomain ELSE @])
Finds(asked, results) ==
    [asked EXCEPT !.found = results, !.slots = [i \in DOMAIN results |-> NoPage]]

ContentInit ==
    /\ \E kind \in [Requests -> Kinds], urls \in Searches :
          request = [r \in Requests |->
              IF kind[r] = "autofill" THEN Finds(Asked(kind[r]), urls) ELSE Asked(kind[r])]
    /\ cache = [domain \in Hosts |-> NoPages]

-----------------------------------------------------------------------------
\* fetchCoverLetterData, and where generateCoverLetterForInput goes from
\* there: a company without a name is not researched, and only an existing
\* letter is edited.  Autofill fetches its data after the pages.
FetchData(r) ==
    /\ At(r, "fetch")
    /\ \/ Fails(r)
       \/ request[r].kind = "letter" /\ Goto(r, "search")
       \/ Goto(r, "write")
    /\ UNCHANGED cache

\* searchCompany: a failed search finds nothing, and the letter is written
\* without research.
SearchCompany(r) ==
    /\ At(r, "search")
    /\ \/ \E results \in Searches :
             Becomes(r, Finds([request[r] EXCEPT !.step = "filter"], results))
       \/ WriteFrom(r, <<>>)
    /\ UNCHANGED cache

OfCompany(result, domain) ==
    result.host = domain \/ <<result.host, domain>> \in Subdomains

\* programmaticFilterResults: no blocked path, the company's own pages first,
\* and no more than are to be scraped.
programmaticFilterResults(results, domain) ==
    LET open == Pick(results, {i \in DOMAIN results :
                                  results[i].host # NoHost /\ ~results[i].blocked})
        own == {i \in DOMAIN open : OfCompany(open[i], domain)}
        ranked == Pick(open, own) \o Pick(open, DOMAIN open \ own)
    IN IF Len(ranked) > MaxPages THEN SubSeq(ranked, 1, MaxPages) ELSE ranked

\* llmFilterSearchResults: the model names the company's domain among the
\* hosts found and judges every result; an error or an answer that is not of
\* this form leaves no results.
FilterResults(r) ==
    /\ At(r, "filter")
    /\ LET results == request[r].found IN
         \/ WriteFrom(r, <<>>)
         \/ \E domain \in HostsOf(results), useful \in SUBSET DOMAIN results :
               LET filtered == programmaticFilterResults(Pick(results, useful), domain)
                   goes == [request[r] EXCEPT !.step = "cache", !.domain = domain]
               IN IF filtered = <<>> THEN WriteFrom(r, <<>>)
                  ELSE Becomes(r, Finds(goes, filtered))
    /\ UNCHANGED cache

\* GetWebsiteCache: pages of the domain that have not expired; an error is a
\* miss.
ReadCache(r) ==
    /\ At(r, "cache")
    /\ LET cached == cache[request[r].domain] IN
         \/ cached.pages # <<>> /\ ~cached.expired /\ WriteFrom(r, cached.pages)
         \/ Goto(r, "scrape")
    /\ UNCHANGED cache

\* ScrapeWebPage: of an address that is one, the text of the page, or none;
\* a failed scrape is a page without text.
Scraped(result) == IF result.host = NoHost THEN {NoPage} ELSE {NoPage, result}

\* Mutant of Place: pages are kept in the order in which they arrive.
PlaceNext(r, i, page) ==
    [request[r] EXCEPT !.slots[Cardinality(request[r].arrived) + 1] = page,
                       !.arrived = @ \cup {i}]
\* The page that arrives goes to the slot of its result.
Place(r, i, page) ==
    [request[r] EXCEPT !.slots[i] = page, !.arrived = @ \cup {i}]

\* One of the scrapes of concurrentScrapePages and fetchPagesContext, which
\* wait for all of them and drop the pages without text.
ScrapePage(r, i) ==
    /\ At(r, "scrape") /\ i \notin request[r].arrived
    /\ \E page \in Scraped(request[r].found[i]) : Becomes(r, Place(r, i, page))
    /\ UNCHANGED cache

CollectPages(r) ==
    LET slots == request[r].slots
        pages == Pick(slots, {i \in DOMAIN slots : slots[i] # NoPage}) IN
    /\ At(r, "scrape") /\ request[r].arrived = DOMAIN request[r].found
    /\ \/ /\ request[r].kind = "autofill"
          /\ Becomes(r, [Finds(request[r], <<>>) EXCEPT
                            !.step = "fetch", !.pages = pages, !.arrived = {}])
       \/ request[r].kind = "letter" /\ pages = <<>> /\ WriteFrom(r, <<>>)
       \/ /\ request[r].kind = "letter" /\ pages # <<>>
          /\ Becomes(r, [request[r] EXCEPT !.step = "save", !.pages = pages])
    /\ UNCHANGED cache

\* SaveWebsiteCache: one row of a domain, the last save wins; a save that
\* fails is only logged, and may have had its effect.
SaveCache(r) ==
    /\ At(r, "save")
    /\ \/ cache' = [cache EXCEPT ![request[r].domain] =
                       [pages |-> request[r].pages, expired |-> FALSE]]
       \/ UNCHANGED cache
    /\ WriteFrom(r, request[r].pages)

\* Six months pass.
Expire(domain) ==
    /\ cache[domain].pages # <<>> /\ ~cache[domain].expired
    /\ cache' = [cache EXCEPT ![domain].expired = TRUE]
    /\ UNCHANGED request

-----------------------------------------------------------------------------
isValidCoverLetter(letter) == letter.paragraphs = 3 /\ ~letter.long

\* generateCoverLetter and editCoverLetter: an invalid letter is repaired
\* once; an error of the model or of its answer is the workflow's.
WriteLetter(r) ==
    /\ At(r, "write") /\ request[r].kind \in {"letter", "edit"}
    /\ \/ Fails(r)
       \/ \E letter \in Letter :
             IF isValidCoverLetter(letter)
             THEN Becomes(r, [request[r] EXCEPT !.step = "done", !.result = letter])
             ELSE IF request[r].repairing THEN Fails(r)
             ELSE Becomes(r, [request[r] EXCEPT !.repairing = TRUE])
    /\ UNCHANGED cache

\* mergeAutofillAnswers: every question in its order, with the last answer
\* given under its id, or none.
mergeAutofillAnswers(answered) ==
    [q \in DOMAIN Questions |->
        LET given == {i \in DOMAIN answered : answered[i].id = Questions[q]}
        IN [id |-> Questions[q],
            answer |-> IF given = {} THEN "" ELSE answered[Max(given)].answer]]

AnswerQuestions(r) ==
    /\ At(r, "write") /\ request[r].kind = "autofill"
    /\ \/ Fails(r)
       \/ \E answered \in BoundedSeq(Answer, 2) :
             Becomes(r, [request[r] EXCEPT !.step = "done",
                                           !.result = mergeAutofillAnswers(answered)])
    /\ UNCHANGED cache

ContentNext ==
    \/ \E r \in Requests :
          \/ FetchData(r) \/ SearchCompany(r) \/ FilterResults(r) \/ ReadCache(r)
          \/ CollectPages(r) \/ SaveCache(r) \/ WriteLetter(r) \/ AnswerQuestions(r)
          \/ \E i \in DOMAIN request[r].found : ScrapePage(r, i)
    \/ \E domain \in Hosts : Expire(domain)
-----------------------------------------------------------------------------
\* pages, in rank order, without one twice: results of the search that a
\* letter on this domain may read, the company's own before the others.
RankedIn(pages, search, domain) ==
    \E rank \in [DOMAIN pages -> DOMAIN search] :
       /\ \A i \in DOMAIN pages : pages[i] = search[rank[i]] /\ ~pages[i].blocked
       /\ \A i, j \in DOMAIN pages : i < j =>
             \/ OfCompany(pages[i], domain) /\ ~OfCompany(pages[j], domain)
             \/ /\ OfCompany(pages[i], domain) <=> OfCompany(pages[j], domain)
                /\ rank[i] < rank[j]

\* Whoever scraped them, in whatever order they arrived, and however the
\* requests met in the cache: a letter is written from at most MaxPages pages
\* with text that one search ranked for its company, in that order, and
\* answers from pages in the order the user gave them.
PagesInRankOrder ==
    \A r \in Requests : request[r].pages # <<>> =>
       /\ NoPage \notin Range(request[r].pages)
       /\ \E search \in Searches :
             IF request[r].kind = "autofill"
             THEN \E kept \in SUBSET DOMAIN search : request[r].pages = Pick(search, kept)
             ELSE /\ Len(request[r].pages) <= MaxPages
                  /\ RankedIn(request[r].pages, search, request[r].domain)

\* What is delivered: a letter of three paragraphs within the limit, or one
\* answer to each question in the order asked.
ResultsValid ==
    \A r \in Requests : request[r].step = "done" =>
       IF request[r].kind = "autofill"
       THEN [q \in DOMAIN Questions |-> request[r].result[q].id] = Questions
       ELSE request[r].result.paragraphs = 3 /\ ~request[r].result.long

RequestsSound == PagesInRankOrder /\ ResultsValid
==============================================================================
