SPECIFICATION Spec
CONSTANTS
    Requests = {r1, r2}
    Kinds = {"letter", "edit", "autofill"}
    MaxPages = 2
    MaxExtracted = 2
    Now = 250
    Searches <- MCSearches
    Subdomains <- MCSubdomains
    Questions <- MCQuestions
    Sources <- MCSources
    Found <- MCFound
    Titles <- MCTitles
INVARIANTS RequestsSound JobsAreApprovedHits
CHECK_DEADLOCK FALSE
