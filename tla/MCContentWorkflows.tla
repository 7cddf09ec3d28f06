------------------------- MODULE MCContentWorkflows -------------------------
EXTENDS ContentWorkflows

\* Two searches for a company that share its domain, with pages of its own
\* host, of a host below it, of another host, behind a blocked path, and an
\* address that is none.
Page(id, host) == [host |-> host, blocked |-> FALSE, id |-> id]
MCSearches == {
    <<Page(1, "news"), Page(2, "acme"), Page(3, "about.acme")>>,
    <<[Page(4, "acme") EXCEPT !.blocked = TRUE], Page(5, "acme"), Page(6, "")>>}
MCSubdomains == {<<"about.acme", "acme">>}
MCQuestions == <<"q1", "q2">>

\* Hits of three sources: postings, an application step of one, lists, an
\* aggregator's postings, a title that names it, and dates of every kind.
Hit(host, path, unit, n) ==
    [aggregated |-> FALSE, url |-> [scheme |-> "https", host |-> host, path |-> path],
     date |-> [unit |-> unit, n |-> n]]
MCSources == <<"lever", "ashby", "remotefront">>
MCTitles == {"", "engineer", "designer"}
Lever == {Hit("lever", <<"acme", "7", "apply">>, "day", 2),
          Hit("lever", <<"jobgether", "8">>, "hour", 30),
          [Hit("lever", <<"acme", "6">>, "day", 1) EXCEPT !.aggregated = TRUE]}
Ashby == {Hit("ashby", <<"acme", "9">>, "hour", 30),
          Hit("jobs.ashby.com", <<"acme", "9", "application">>, "day", 1),
          Hit("ashby", <<"acme">>, "unknown", 0)}
Remotefront == {Hit("remotefront", <<"jobs", "search">>, "day", 3),
                [Hit("remotefront", <<"jobs", "5">>, "day", 4) EXCEPT !.url.scheme = "other"],
                Hit("remotefront", <<"jobs", "5">>, "unknown", 0)}
MCFound == {<<lever, ashby, remotefront>> :
               lever \in BoundedSeq(Lever, 1), ashby \in BoundedSeq(Ashby, 2),
               remotefront \in BoundedSeq(Remotefront, 1)}
==============================================================================
