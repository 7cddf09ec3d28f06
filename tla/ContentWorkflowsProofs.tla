----------------------- MODULE ContentWorkflowsProofs -----------------------
(***************************************************************************)
(* Proofs about the content workflows, for any constants: what Pick and    *)
(* Concat return, that a letter and an answer are written from pages in    *)
(* the order of their search, and that discovered jobs are approved hits.  *)
(* Where a value comes from is followed through every change of position:  *)
(* each selection is an increasing map of positions, and they compose.     *)
(***************************************************************************)
EXTENDS ContentWorkflows, FiniteSetTheorems, SequenceTheorems, WellFoundedInduction,
        TLAPS

-----------------------------------------------------------------------------
(* Selections.                                                             *)

\* A set of numbers has a first one.
LEMMA FirstOf ==
    ASSUME NEW numbers, numbers \subseteq Nat, numbers # {}
    PROVE  \E first \in numbers : \A other \in numbers : first <= other
<1>1. PICK first \in numbers : \A other \in numbers : ~(<<other, first>> \in OpToRel(<, Nat))
  BY NatLessThanWellFounded, WFMin, Zenon
<1>2. ASSUME NEW other \in numbers
      PROVE  ~(other < first)
  <2>1. <<other, first>> \in Nat \X Nat
    OBVIOUS
  <2>2. ASSUME other < first
        PROVE  <<other, first>> \in OpToRel(<, Nat)
    <3>1. <<other, first>>[1] < <<other, first>>[2]
      BY <2>2
    <3>2. QED
      BY <2>1, <3>1, Zenon DEF OpToRel
  <2>3. QED
    BY <1>1, <2>2, Zenon
<1>3. QED
  BY <1>2

\* Positions up to one of them.
UpTo(S, i) == {j \in S : j <= i}

\* Counts of positions: none up to 0, all up to the length, and one more only
\* at a position.
LEMMA UpToCounts ==
    ASSUME NEW n \in Nat, NEW S \in SUBSET (1..n), NEW i \in Nat
    PROVE  /\ IsFiniteSet(UpTo(S, i)) /\ Cardinality(UpTo(S, i)) \in Nat
           /\ IsFiniteSet(S) /\ Cardinality(S) \in Nat
           /\ Cardinality(UpTo(S, 0)) = 0
           /\ UpTo(S, n) = S
           /\ i # 0 => Cardinality(UpTo(S, i)) =
                  IF i \in S THEN Cardinality(UpTo(S, i - 1)) + 1
                  ELSE Cardinality(UpTo(S, i - 1))
<1>1. IsFiniteSet(S) /\ Cardinality(S) \in Nat
  <2>1. IsFiniteSet(1..n)
    BY FS_Interval
  <2>2. IsFiniteSet(S)
    BY <2>1, FS_Subset
  <2>3. QED
    BY <2>2, FS_CardinalityType
<1> \A j \in S : j \in Nat /\ 1 <= j /\ j <= n
  OBVIOUS
<1> \A m : UpTo(S, m) = {j \in S : j <= m}
  BY DEF UpTo
<1>2. \A m \in Nat : IsFiniteSet(UpTo(S, m)) /\ Cardinality(UpTo(S, m)) \in Nat
  <2>1. \A m \in Nat : UpTo(S, m) \in SUBSET S
    BY DEF UpTo
  <2>2. QED
    BY <1>1, <2>1, FS_Subset, FS_CardinalityType
<1>3. UpTo(S, 0) = {} /\ UpTo(S, n) = S
  <2>1. \A j \in S : ~(j <= 0) /\ j <= n
    OBVIOUS
  <2>2. {j \in S : j <= 0} = {} /\ {j \in S : j <= n} = S
    BY <2>1, Zenon
  <2>3. QED
    BY <2>2, Zenon DEF UpTo
<1>4. ASSUME i # 0
      PROVE  Cardinality(UpTo(S, i)) =
                  IF i \in S THEN Cardinality(UpTo(S, i - 1)) + 1
                  ELSE Cardinality(UpTo(S, i - 1))
  <2>1. i - 1 \in Nat /\ i \notin UpTo(S, i - 1)
    BY <1>4 DEF UpTo
  <2>2. CASE i \in S
    <3>1. \A j \in S : j <= i <=> j <= i - 1 \/ j = i
      BY <1>4
    <3>2. {j \in S : j <= i} = {j \in S : j <= i - 1} \cup {i}
      BY <2>2, <3>1, i <= i, Zenon
    <3>3. UpTo(S, i) = UpTo(S, i - 1) \cup {i}
      BY <3>2, Zenon DEF UpTo
    <3>4. QED
      BY <1>2, <2>1, <2>2, <3>3, FS_AddElement
  <2>3. CASE i \notin S
    <3>1. \A j \in S : j <= i <=> j <= i - 1
      BY <1>4, <2>3
    <3>2. UpTo(S, i) = UpTo(S, i - 1)
      BY <3>1, Zenon DEF UpTo
    <3>3. QED
      BY <2>3, <3>2
  <2>4. QED
    BY <2>2, <2>3
<1>5. QED
  BY <1>1, <1>2, <1>3, <1>4, FS_EmptySet

\* The k-th position is one of them, with k up to it.
LEMMA NthIsThere ==
    ASSUME NEW n \in Nat, NEW S \in SUBSET (1..n), NEW k \in 1..Cardinality(S)
    PROVE  Nth(S, k) \in S /\ Cardinality(UpTo(S, Nth(S, k))) = k
<1> DEFINE enough == {m \in Nat : Cardinality(UpTo(S, m)) >= k}
<1>1. n \in enough
  BY UpToCounts
<1>2. PICK i \in enough : \A other \in enough : i <= other
  BY <1>1, FirstOf
<1>3. i # 0
  BY <1>2, UpToCounts
<1>4. i - 1 \in Nat /\ i - 1 \notin enough
  BY <1>2, <1>3
<1>5. k \in Nat
  BY UpToCounts
<1>6. Cardinality(UpTo(S, i - 1)) \in Nat /\ Cardinality(UpTo(S, i - 1)) < k
  <2>1. \A m \in Nat : Cardinality(UpTo(S, m)) \in Nat
    BY UpToCounts
  <2>2. QED
    BY <1>4, <1>5, <2>1
<1>7. Cardinality(UpTo(S, i)) >= k /\ i \in Nat
  BY <1>2
<1>8. /\ Cardinality(UpTo(S, i)) =
            IF i \in S THEN Cardinality(UpTo(S, i - 1)) + 1
            ELSE Cardinality(UpTo(S, i - 1))
  BY <1>3, <1>7, UpToCounts
<1>9. i \in S /\ Cardinality(UpTo(S, i)) = k
  BY <1>5, <1>6, <1>7, <1>8
<1>10. QED
  BY <1>9, Zenon DEF Nth, UpTo

\* Positions are found in their order.
LEMMA NthIncreases ==
    ASSUME NEW n \in Nat, NEW S \in SUBSET (1..n),
           NEW k \in 1..Cardinality(S), NEW l \in 1..Cardinality(S), k < l
    PROVE  Nth(S, k) < Nth(S, l)
<1>1. Nth(S, k) \in S /\ Nth(S, l) \in S
      /\ Cardinality(UpTo(S, Nth(S, k))) = k /\ Cardinality(UpTo(S, Nth(S, l))) = l
  BY NthIsThere
<1>2. Nth(S, k) \in Nat /\ Nth(S, l) \in Nat /\ \A i \in S : i \in Nat
  <2>1. \A i \in S : i \in Nat
    OBVIOUS
  <2>2. QED
    BY <1>1, <2>1
<1>3. ASSUME Nth(S, l) <= Nth(S, k)
      PROVE  FALSE
  <2>1. UpTo(S, Nth(S, l)) \in SUBSET UpTo(S, Nth(S, k))
    <3>1. \A i \in S : i <= Nth(S, l) => i <= Nth(S, k)
      BY <1>2, <1>3
    <3>2. QED
      BY <3>1 DEF UpTo
  <2>2. IsFiniteSet(UpTo(S, Nth(S, k)))
    BY <1>2, UpToCounts
  <2>3. l <= k
    BY <1>1, <2>1, <2>2, FS_Subset
  <2>4. QED
    BY <2>3
<1>4. QED
  BY <1>2, <1>3

\* An increasing map of the positions of one sequence into those of another
\* that has the same elements there.
Embeds(e, part, whole) ==
    /\ e \in [DOMAIN part -> DOMAIN whole]
    /\ \A i \in DOMAIN part : part[i] = whole[e[i]]
    /\ \A i, j \in DOMAIN part : i < j => e[i] < e[j]

\* What is picked from a sequence is a sequence of its elements, and embeds
\* in it at the positions picked.
LEMMA PickEmbeds ==
    ASSUME NEW T, NEW seq \in Seq(T), NEW S \in SUBSET DOMAIN seq
    PROVE  /\ Pick(seq, S) \in Seq(T)
           /\ IsFiniteSet(S) /\ Cardinality(S) \in Nat
           /\ Len(Pick(seq, S)) = Cardinality(S)
           /\ DOMAIN Pick(seq, S) = 1..Cardinality(S)
           /\ \A k \in 1..Cardinality(S) : Nth(S, k) \in S /\ Pick(seq, S)[k] = seq[Nth(S, k)]
           /\ Embeds([k \in 1..Cardinality(S) |-> Nth(S, k)], Pick(seq, S), seq)
<1>1. S \in SUBSET (1..Len(seq)) /\ Len(seq) \in Nat /\ DOMAIN seq = 1..Len(seq)
  OBVIOUS
<1>2. IsFiniteSet(S) /\ Cardinality(S) \in Nat
  BY <1>1, UpToCounts
<1>3. \A k \in 1..Cardinality(S) : Nth(S, k) \in S
  BY <1>1, NthIsThere
<1>4. \A k, l \in 1..Cardinality(S) : k < l => Nth(S, k) < Nth(S, l)
  BY <1>1, NthIncreases
<1>5. /\ DOMAIN Pick(seq, S) = 1..Cardinality(S)
      /\ \A k \in 1..Cardinality(S) : Pick(seq, S)[k] = seq[Nth(S, k)]
  BY DEF Pick
<1>6. Pick(seq, S) \in [1..Cardinality(S) -> T]
  BY <1>1, <1>3 DEF Pick
<1>7. Pick(seq, S) \in Seq(T) /\ Len(Pick(seq, S)) = Cardinality(S)
  BY <1>2, <1>6
<1>8. Embeds([k \in 1..Cardinality(S) |-> Nth(S, k)], Pick(seq, S), seq)
  BY <1>1, <1>3, <1>4, <1>5 DEF Embeds
<1>9. QED
  BY <1>2, <1>3, <1>5, <1>7, <1>8

-----------------------------------------------------------------------------
(* The concatenation, a recursive function: defined up to each position,   *)
(* it is defined up to the next.                                           *)

\* The first n sequences of seqs one after the other, for each n up to m.
Unfolds(f, seqs, m) ==
    f = [n \in 0..m |-> IF n = 0 THEN <<>> ELSE f[n - 1] \o seqs[n]]

\* There is such a function up to every position.
LEMMA ConcatUnfolds ==
    ASSUME NEW seqs, NEW m \in Nat
    PROVE  \E f : Unfolds(f, seqs, m)
<1> DEFINE missing == {n \in Nat : ~\E f : Unfolds(f, seqs, n)}
<1>1. ASSUME missing # {}
      PROVE  FALSE
  <2>1. PICK n \in missing : \A other \in missing : n <= other
    BY <1>1, FirstOf
  <2>2. CASE n = 0
    <3>1. Unfolds([i \in 0..0 |-> <<>>], seqs, 0)
      BY DEF Unfolds
    <3>2. QED
      BY <2>1, <2>2, <3>1
  <2>3. CASE n # 0
    <3>1. n - 1 \in Nat /\ n - 1 \notin missing
      BY <2>1, <2>3
    <3>2. PICK f : Unfolds(f, seqs, n - 1)
      BY <3>1
    <3>3. n \in Nat
      BY <2>1
    <3> DEFINE g == [i \in 0..n |-> IF i = n THEN f[n - 1] \o seqs[n] ELSE f[i]]
    <3>4. ASSUME NEW i \in 0..n
          PROVE  g[i] = IF i = 0 THEN <<>> ELSE g[i - 1] \o seqs[i]
      <4>1. CASE i = n
        <5>1. g[i] = f[n - 1] \o seqs[n]
          BY <4>1
        <5>2. n - 1 \in 0..n /\ n - 1 # n
          BY <3>1, <3>3
        <5>3. g[n - 1] = f[n - 1]
          BY <5>2
        <5>4. QED
          BY <2>3, <4>1, <5>1, <5>3
      <4>2. CASE i # n
        <5>1. i \in 0..(n - 1)
          BY <3>3, <4>2
        <5>2. g[i] = f[i]
          BY <4>2
        <5>3. f[i] = IF i = 0 THEN <<>> ELSE f[i - 1] \o seqs[i]
          <6>1. [j \in 0..(n - 1) |-> IF j = 0 THEN <<>> ELSE f[j - 1] \o seqs[j]][i]
                  = IF i = 0 THEN <<>> ELSE f[i - 1] \o seqs[i]
            BY <5>1
          <6>2. QED
            BY <3>2, <6>1, Zenon DEF Unfolds
        <5>4. ASSUME i # 0
              PROVE  g[i - 1] = f[i - 1]
          <6>1. i - 1 \in 0..n /\ i - 1 # n
            BY <5>1, <5>4
          <6>2. QED
            BY <6>1
        <5>5. QED
          BY <5>2, <5>3, <5>4
      <4>3. QED
        BY <4>1, <4>2
    <3>5. Unfolds(g, seqs, n)
      <4> HIDE DEF g
      <4>1. g = [i \in 0..n |-> g[i]]
        BY DEF g
      <4>2. QED
        BY <3>4, <4>1 DEF Unfolds
    <3>6. QED
      BY <2>1, <3>5, Zenon
  <2>4. QED
    BY <2>2, <2>3
<1>2. QED
  BY <1>1

\* One after the other, sequences are one sequence.
LEMMA ConcatIsSequence ==
    ASSUME NEW T, NEW seqs \in Seq(Seq(T))
    PROVE  Concat(seqs) \in Seq(T)
<1> DEFINE f == CHOOSE f : Unfolds(f, seqs, Len(seqs))
<1>1. Len(seqs) \in Nat /\ \A n \in 1..Len(seqs) : seqs[n] \in Seq(T)
  OBVIOUS
<1>2. Unfolds(f, seqs, Len(seqs))
  BY <1>1, ConcatUnfolds
<1>3. Concat(seqs) = f[Len(seqs)]
  BY Zenon DEF Concat, Unfolds
<1> HIDE DEF f
<1>4. \A n \in 0..Len(seqs) : f[n] = IF n = 0 THEN <<>> ELSE f[n - 1] \o seqs[n]
  <2> DEFINE u == [n \in 0..Len(seqs) |-> IF n = 0 THEN <<>> ELSE f[n - 1] \o seqs[n]]
  <2>1. \A n \in 0..Len(seqs) : u[n] = IF n = 0 THEN <<>> ELSE f[n - 1] \o seqs[n]
    OBVIOUS
  <2>2. f = u
    BY <1>2, Zenon DEF Unfolds
  <2> HIDE DEF u
  <2>3. QED
    BY <2>1, <2>2, Zenon
<1> DEFINE other == {n \in 0..Len(seqs) : f[n] \notin Seq(T)}
<1>5. ASSUME other # {}
      PROVE  FALSE
  <2>1. PICK n \in other : \A m \in other : n <= m
    <3>1. other \subseteq Nat
      BY <1>1
    <3> HIDE DEF other
    <3>2. QED
      BY <1>5, <3>1, FirstOf
  <2>2. n # 0
    <3>1. 0 \in 0..Len(seqs)
      BY <1>1
    <3>2. f[0] = <<>>
      BY <1>4, <3>1
    <3>3. f[0] \in Seq(T)
      BY <3>2
    <3>4. QED
      BY <2>1, <3>3
  <2>3. n - 1 \in 0..Len(seqs) /\ n - 1 \notin other
    BY <1>1, <2>1, <2>2
  <2>4. f[n - 1] \in Seq(T) /\ seqs[n] \in Seq(T)
    BY <1>1, <2>1, <2>2, <2>3
  <2>5. f[n] = f[n - 1] \o seqs[n]
    BY <1>4, <2>1, <2>2
  <2>6. f[n] \in Seq(T)
    BY <2>4, <2>5
  <2>7. QED
    BY <2>1, <2>6
<1>6. QED
  BY <1>1, <1>3, <1>5

-----------------------------------------------------------------------------
(* Job discovery.                                                          *)

\* A hit under its canonical address, with a date that is a day or none.
MergedHit == [aggregated : BOOLEAN, url : Url, date : Int]
ReturnedJob == [title : STRING, url : Url, date : Int]

DiscoveryTypeOK ==
    /\ stage \in {"search", "filter", "extract", "done", "failed"}
    /\ merged \in Seq(MergedHit)
    /\ shown \in Seq(MergedHit)
    /\ jobs \in Seq(ReturnedJob)

\* What the language model is shown are hits the decision model approved.
ShownAreApproved ==
    \A k \in DOMAIN shown :
       \E i \in DOMAIN merged : judged[i] = "posting" /\ shown[k] = merged[i]

\* The workflow returns its jobs last.
JobsAtTheEnd ==
    /\ stage = "search" => shown = <<>>
    /\ stage \in {"search", "filter", "extract"} => jobs = <<>>

DiscoveryInv == DiscoveryTypeOK /\ ShownAreApproved /\ JobsAtTheEnd /\ JobsAreApprovedHits

\* A canonical address is an address.
LEMMA NormalizeType ==
    ASSUME NEW source \in STRING, NEW url \in Url
    PROVE  Normalize(source, url) \in Url
<1>1. url.path \in Seq(STRING)
  BY DEF Url
<1>2. url.path # <<>> => Front(url.path) \in Seq(STRING)
  BY <1>1 DEF Front
<1>3. NoUrl \in Url
  <2>1. <<>> \in Seq(STRING)
    OBVIOUS
  <2>2. QED
    BY <2>1 DEF NoUrl, Url
<1>4. \A path \in Seq(STRING) : [scheme |-> "https", host |-> source, path |-> path] \in Url
  BY DEF Url
<1>5. QED
  BY <1>1, <1>2, <1>3, <1>4 DEF Normalize

\* A date is a day or none.
LEMMA SerperDateType ==
    ASSUME NEW date \in [unit : {"day", "hour", "unknown"}, n : Nat]
    PROVE  normalizeSerperDate(date, Now) \in Int
<1>1. date.n \in Nat /\ Now \in Int
  BY DiscoveryAssumption
<1>2. (Now \div 24) - date.n \in Int /\ (Now - date.n) \div 24 \in Int
  BY <1>1
<1>3. QED
  BY <1>2 DEF normalizeSerperDate, NoDate

\* Cleaning returns a sequence of hits.
LEMMA CleanType ==
    ASSUME NEW source \in STRING, NEW results \in Seq(SearchHit)
    PROVE  Clean(source, results) \in Seq(SearchHit)
<1> DEFINE canonical == [i \in DOMAIN results |->
                            [results[i] EXCEPT !.url = Normalize(source, @)]]
<1>1. ASSUME NEW i \in DOMAIN results
      PROVE  [results[i] EXCEPT !.url = Normalize(source, @)] \in SearchHit
  <2>1. results[i] \in SearchHit
    OBVIOUS
  <2>2. Normalize(source, results[i].url) \in Url
    BY <2>1, NormalizeType DEF SearchHit
  <2>3. QED
    BY <2>1, <2>2 DEF SearchHit
<1>2. canonical \in Seq(SearchHit) /\ DOMAIN canonical = DOMAIN results
  <2>1. DOMAIN results = 1..Len(results) /\ Len(results) \in Nat
    OBVIOUS
  <2>2. canonical \in [1..Len(results) -> SearchHit]
    BY <1>1, <2>1
  <2>3. QED
    BY <2>1, <2>2
<1> HIDE DEF canonical
<1>3. \A S \in SUBSET DOMAIN results : Pick(canonical, S) \in Seq(SearchHit)
  BY <1>2, PickEmbeds
<1>4. CASE source \notin DOMAIN Forms
  BY <1>4 DEF Clean
<1>5. CASE source \in DOMAIN Forms
  <2>1. \E S \in SUBSET DOMAIN results : Clean(source, results) = Pick(canonical, S)
    BY <1>5 DEF Clean, canonical
  <2>2. QED
    BY <1>3, <2>1
<1>6. QED
  BY <1>4, <1>5

\* The hits of all sources, dated.
LEMMA MergedType ==
    ASSUME NEW outputs \in WebSearchBatch
    PROVE  mergeCleanedResults(outputs) \in Seq(MergedHit)
<1> DEFINE dated(hit) == [hit EXCEPT !.date = normalizeSerperDate(@, Now)]
           hits(i) == LET cleaned == Clean(Sources[i], outputs[i])
                      IN [k \in DOMAIN cleaned |-> dated(cleaned[k])]
           all == [i \in DOMAIN outputs |-> hits(i)]
<1>1. /\ DOMAIN Sources = 1..Len(Sources) /\ Len(Sources) \in Nat
      /\ \A i \in DOMAIN Sources : Sources[i] \in STRING
  BY DiscoveryAssumption
<1>2. outputs \in [DOMAIN Sources -> Seq(SearchHit)]
  <2>1. <<>> \in Seq(SearchHit)
    OBVIOUS
  <2>2. [i \in DOMAIN Sources |-> <<>>] \in [DOMAIN Sources -> Seq(SearchHit)]
    BY <2>1
  <2>3. QED
    BY <2>2, DiscoveryAssumption DEF WebSearchBatch
<1>3. ASSUME NEW i \in DOMAIN outputs
      PROVE  hits(i) \in Seq(MergedHit)
  <2>1. Clean(Sources[i], outputs[i]) \in Seq(SearchHit)
    BY <1>1, <1>2, CleanType
  <2>2. ASSUME NEW cleaned \in Seq(SearchHit)
        PROVE  [k \in DOMAIN cleaned |-> dated(cleaned[k])] \in Seq(MergedHit)
    <3>1. ASSUME NEW k \in DOMAIN cleaned
          PROVE  dated(cleaned[k]) \in MergedHit
      <4>1. cleaned[k] \in SearchHit
        OBVIOUS
      <4>2. normalizeSerperDate(cleaned[k].date, Now) \in Int
        BY <4>1, SerperDateType DEF SearchHit
      <4>3. QED
        BY <4>1, <4>2 DEF SearchHit, MergedHit
    <3>2. DOMAIN cleaned = 1..Len(cleaned) /\ Len(cleaned) \in Nat
      OBVIOUS
    <3> HIDE DEF dated
    <3>3. [k \in DOMAIN cleaned |-> dated(cleaned[k])] \in [1..Len(cleaned) -> MergedHit]
      BY <3>1, <3>2
    <3>4. QED
      BY <3>2, <3>3
  <2>3. QED
    BY <2>1, <2>2
<1> HIDE DEF hits
<1>4. all \in Seq(Seq(MergedHit))
  <2>1. DOMAIN outputs = 1..Len(Sources)
    BY <1>1, <1>2
  <2>2. all \in [1..Len(Sources) -> Seq(MergedHit)]
    BY <1>3, <2>1
  <2>3. QED
    BY <1>1, <2>2
<1>5. mergeCleanedResults(outputs) = Concat(all)
  BY DEF mergeCleanedResults, hits
<1> HIDE DEF all
<1>6. QED
  BY <1>4, <1>5, ConcatIsSequence

\* A bounded sequence is a sequence.
LEMMA BoundedIsSequence ==
    ASSUME NEW T, NEW n \in Nat, NEW seq \in BoundedSeq(T, n)
    PROVE  seq \in Seq(T)
<1>1. PICK m \in 0..n : seq \in [1..m -> T]
  BY Zenon DEF BoundedSeq, SeqOf
<1>2. QED
  BY <1>1

\* The fields kept are of hits, and no two of one posting.
LEMMA KeptFieldsAreUsable ==
    ASSUME NEW hits, NEW extracted \in Seq(Extracted)
    PROVE  LET kept == KeptFields(hits, extracted) IN
           /\ kept \in Seq(Extracted)
           /\ \A k \in DOMAIN kept :
                 /\ kept[k].hit_index \in DOMAIN hits
                 /\ kept[k].title # ""
                 /\ isConcreteJobPostingURL(hits[kept[k].hit_index].url)
           /\ \A k, l \in DOMAIN kept :
                 urlKey(hits[kept[k].hit_index].url) = urlKey(hits[kept[l].hit_index].url)
                    => k = l
<1> DEFINE hit(i) == hits[extracted[i].hit_index]
           usable == {i \in DOMAIN extracted :
                         /\ extracted[i].hit_index \in DOMAIN hits
                         /\ extracted[i].title # ""
                         /\ isConcreteJobPostingURL(hit(i).url)}
           first == {i \in usable :
                        \A j \in usable : urlKey(hit(i).url) = urlKey(hit(j).url) => i <= j}
           kept == Pick(extracted, first)
           n == Cardinality(first)
<1>1. KeptFields(hits, extracted) = kept
  BY DEF KeptFields
<1>2. first \in SUBSET DOMAIN extracted /\ \A i \in first : i \in usable
  OBVIOUS
<1>3. \A i, j \in first : urlKey(hit(i).url) = urlKey(hit(j).url) => i <= j /\ j <= i
  OBVIOUS
<1>4. \A i \in first : i \in Nat
  <2>1. DOMAIN extracted \subseteq Nat
    OBVIOUS
  <2>2. QED
    BY <1>2, <2>1
<1>5. \A i \in first : /\ extracted[i].hit_index \in DOMAIN hits
                       /\ extracted[i].title # ""
                       /\ isConcreteJobPostingURL(hit(i).url)
  BY <1>2
<1> HIDE DEF usable, first
<1>6. /\ kept \in Seq(Extracted) /\ n \in Nat /\ DOMAIN kept = 1..n
      /\ \A k \in 1..n : Nth(first, k) \in first /\ kept[k] = extracted[Nth(first, k)]
      /\ Embeds([k \in 1..n |-> Nth(first, k)], kept, extracted)
  BY <1>2, PickEmbeds
<1>7. \A k, l \in 1..n : k < l => Nth(first, k) < Nth(first, l)
  <2>1. Len(extracted) \in Nat /\ first \in SUBSET (1..Len(extracted))
    BY <1>2
  <2>2. QED
    BY <2>1, NthIncreases
<1> HIDE DEF kept, n
<1>8. ASSUME NEW k \in DOMAIN kept
      PROVE  /\ kept[k].hit_index \in DOMAIN hits
             /\ kept[k].title # ""
             /\ isConcreteJobPostingURL(hits[kept[k].hit_index].url)
  BY <1>5, <1>6
<1>9. ASSUME NEW k \in DOMAIN kept, NEW l \in DOMAIN kept,
             urlKey(hits[kept[k].hit_index].url) = urlKey(hits[kept[l].hit_index].url)
      PROVE  k = l
  <2> DEFINE i == Nth(first, k)  j == Nth(first, l)
  <2>1. i \in first /\ j \in first /\ kept[k] = extracted[i] /\ kept[l] = extracted[j]
    BY <1>6
  <2>2. i <= j /\ j <= i
    BY <1>3, <1>9, <2>1
  <2>3. ~(i < j) /\ ~(j < i)
    BY <1>4, <2>1, <2>2
  <2>4. k \in Nat /\ l \in Nat /\ ~(k < l) /\ ~(l < k)
    BY <1>6, <1>7, <2>3
  <2>5. QED
    BY <2>4
<1>10. QED
  BY <1>1, <1>6, <1>8, <1>9

\* Nothing is found before the search.
LEMMA DiscoveryInit_Inv ==
    ASSUME DiscoveryInit
    PROVE  DiscoveryInv
<1>1. <<>> \in Seq(MergedHit) /\ <<>> \in Seq(ReturnedJob)
  OBVIOUS
<1>2. DOMAIN <<>> = {}
  OBVIOUS
<1>3. QED
  BY <1>1, <1>2 DEF DiscoveryInit, DiscoveryInv, DiscoveryTypeOK, ShownAreApproved,
     JobsAtTheEnd, JobsAreApprovedHits

\* The search: merged hits, nothing shown.
LEMMA SearchSources_Inv ==
    ASSUME DiscoveryInv, SearchSources
    PROVE  DiscoveryInv'
<1>1. merged' \in Seq(MergedHit)
  BY MergedType DEF SearchSources
<1>2. stage' = "filter" /\ shown' = shown /\ jobs' = jobs /\ shown = <<>> /\ jobs = <<>>
  BY DEF SearchSources, DiscoveryInv, JobsAtTheEnd
<1>3. DOMAIN shown' = {} /\ DOMAIN jobs' = {}
  BY <1>2
<1>4. DiscoveryTypeOK'
  BY <1>1, <1>2 DEF DiscoveryInv, DiscoveryTypeOK
<1>5. ShownAreApproved' /\ JobsAtTheEnd' /\ JobsAreApprovedHits'
  BY <1>2, <1>3 DEF ShownAreApproved, JobsAtTheEnd, JobsAreApprovedHits
<1>6. QED
  BY <1>4, <1>5 DEF DiscoveryInv

\* The decision model: what is shown was approved.
LEMMA filterJobHitsWithJev_Inv ==
    ASSUME DiscoveryInv, filterJobHitsWithJev
    PROVE  DiscoveryInv'
<1>1. /\ stage = "filter" /\ merged' = merged /\ jobs' = jobs /\ jobs = <<>>
      /\ merged \in Seq(MergedHit) /\ shown \in Seq(MergedHit)
      /\ stage' \in {"done", "extract", "failed"}
  BY DEF filterJobHitsWithJev, DiscoveryInv, DiscoveryTypeOK, JobsAtTheEnd
<1>2. DOMAIN jobs' = {}
  BY <1>1
<1>3. shown' \in Seq(MergedHit) /\ ShownAreApproved'
  <2>1. CASE stage' = "failed" /\ UNCHANGED <<judged, shown>>
    BY <1>1, <2>1 DEF DiscoveryInv, ShownAreApproved
  <2>2. ASSUME NEW answer \in [DOMAIN merged -> Judgments],
               judged' = answer,
               shown' = Pick(merged, {i \in DOMAIN merged : answer[i] = "posting"})
        PROVE  shown' \in Seq(MergedHit) /\ ShownAreApproved'
    <3> DEFINE approved == {i \in DOMAIN merged : answer[i] = "posting"}
    <3>1. approved \in SUBSET DOMAIN merged /\ \A i \in approved : answer[i] = "posting"
      OBVIOUS
    <3> HIDE DEF approved
    <3>2. /\ Pick(merged, approved) \in Seq(MergedHit)
          /\ DOMAIN Pick(merged, approved) = 1..Cardinality(approved)
          /\ \A k \in 1..Cardinality(approved) :
                /\ Nth(approved, k) \in approved
                /\ Pick(merged, approved)[k] = merged[Nth(approved, k)]
      BY <1>1, <3>1, PickEmbeds
    <3>3. shown' = Pick(merged, approved)
      BY <2>2 DEF approved
    <3>4. ASSUME NEW k \in DOMAIN shown'
          PROVE  \E i \in DOMAIN merged' : judged'[i] = "posting" /\ shown'[k] = merged'[i]
      BY <1>1, <2>2, <3>1, <3>2, <3>3, <3>4
    <3>5. QED
      BY <3>2, <3>3, <3>4 DEF ShownAreApproved
  <2>3. QED
    BY <2>1, <2>2 DEF filterJobHitsWithJev
<1>4. DiscoveryTypeOK'
  BY <1>1, <1>3 DEF DiscoveryInv, DiscoveryTypeOK
<1>5. JobsAtTheEnd' /\ JobsAreApprovedHits'
  BY <1>1, <1>2 DEF JobsAtTheEnd, JobsAreApprovedHits
<1>6. QED
  BY <1>3, <1>4, <1>5 DEF DiscoveryInv

\* A job of a hit: with a title of its own, the hit's address and its date.
Describes(job, hit) ==
    /\ job.title # "" /\ job.url = hit.url /\ job.date = hit.date
    /\ isConcreteJobPostingURL(hit.url)

\* Every job is made of one hit that was shown, and no two of one posting.
LEMMA JobsAreShownHits ==
    ASSUME NEW hits \in Seq(MergedHit), hits = shown, NEW extracted \in Seq(Extracted),
           NEW made, made = JobsOf(hits, KeptFields(hits, extracted))
    PROVE  /\ made \in Seq(ReturnedJob)
           /\ \A k \in DOMAIN made : \E i \in DOMAIN hits : Describes(made[k], hits[i])
           /\ \A k, l \in DOMAIN made : urlKey(made[k].url) = urlKey(made[l].url) => k = l
<1>1. PICK kept : kept = KeptFields(hits, extracted)
  OBVIOUS
<1>2. /\ kept \in Seq(Extracted)
      /\ \A k \in DOMAIN kept :
            /\ kept[k].hit_index \in DOMAIN hits
            /\ kept[k].title # ""
            /\ isConcreteJobPostingURL(hits[kept[k].hit_index].url)
      /\ \A k, l \in DOMAIN kept :
            urlKey(hits[kept[k].hit_index].url) = urlKey(hits[kept[l].hit_index].url) => k = l
  BY <1>1, KeptFieldsAreUsable
<1>3. made = [k \in DOMAIN kept |-> Job(kept[k].title, hits[kept[k].hit_index])]
  BY <1>1 DEF JobsOf
<1>4. ASSUME NEW k \in DOMAIN kept
      PROVE  LET hit == hits[kept[k].hit_index] IN
             hit \in MergedHit /\ made[k] = Job(kept[k].title, hit) /\ made[k].url = hit.url
             /\ made[k].date = hit.date /\ made[k].title = kept[k].title
  <2>1. made[k] = Job(kept[k].title, hits[kept[k].hit_index])
    BY <1>3
  <2>2. hits[kept[k].hit_index] \in MergedHit
    <3>1. kept[k].hit_index \in DOMAIN hits
      BY <1>2
    <3>2. \A i \in DOMAIN hits : hits[i] \in MergedHit
      OBVIOUS
    <3>3. QED
      BY <3>1, <3>2
  <2>3. QED
    BY <2>1, <2>2 DEF Job
<1>5. DOMAIN made = DOMAIN kept
  BY <1>3
<1>6. made \in Seq(ReturnedJob)
  <2>1. DOMAIN kept = 1..Len(kept) /\ Len(kept) \in Nat /\ \A k \in 1..Len(kept) : kept[k] \in Extracted
    <3>1. kept \in Seq(Extracted)
      BY <1>2
    <3>2. QED
      BY <3>1
  <2>2. \A k \in DOMAIN kept : kept[k].title \in STRING
    BY <2>1, DiscoveryAssumption DEF Extracted
  <2>3. ASSUME NEW k \in DOMAIN kept PROVE made[k] \in ReturnedJob
    <3> DEFINE hit == hits[kept[k].hit_index]
    <3>1. hit.url \in Url /\ hit.date \in Int
      BY <1>4 DEF MergedHit
    <3>2. made[k] = [title |-> kept[k].title, url |-> hit.url, date |-> hit.date]
      BY <1>4 DEF Job
    <3>3. QED
      BY <2>2, <3>1, <3>2 DEF ReturnedJob
  <2>4. made = [k \in 1..Len(kept) |-> made[k]]
    BY <1>3, <1>5, <2>1
  <2>5. made \in [1..Len(kept) -> ReturnedJob]
    BY <1>5, <2>1, <2>3, <2>4
  <2>6. QED
    BY <2>1, <2>5
<1>7. ASSUME NEW k \in DOMAIN made
      PROVE  \E i \in DOMAIN hits : Describes(made[k], hits[i])
  <2> DEFINE i == kept[k].hit_index
  <2>1. i \in DOMAIN hits /\ isConcreteJobPostingURL(hits[i].url) /\ kept[k].title # ""
    BY <1>2, <1>5
  <2>2. /\ made[k].url = hits[i].url /\ made[k].date = hits[i].date
        /\ made[k].title = kept[k].title
    BY <1>4, <1>5
  <2> HIDE DEF i
  <2>3. Describes(made[k], hits[i])
    BY <2>1, <2>2 DEF Describes
  <2>4. QED
    BY <2>1, <2>3
<1>8. ASSUME NEW k \in DOMAIN made, NEW l \in DOMAIN made,
             urlKey(made[k].url) = urlKey(made[l].url)
      PROVE  k = l
  <2>1. made[k].url = hits[kept[k].hit_index].url /\ made[l].url = hits[kept[l].hit_index].url
    BY <1>4, <1>5
  <2>2. QED
    BY <1>2, <1>5, <1>8, <2>1
<1>9. QED
  BY <1>6, <1>7, <1>8

\* The jobs: fields kept are of approved hits, one for each posting.
LEMMA ExtractJobs_Inv ==
    ASSUME DiscoveryInv, ExtractJobs
    PROVE  DiscoveryInv'
<1>1. /\ stage = "extract" /\ stage' \in {"done", "failed"}
      /\ merged' = merged /\ judged' = judged /\ shown' = shown /\ jobs = <<>>
      /\ shown \in Seq(MergedHit)
  BY DEF ExtractJobs, DiscoveryInv, DiscoveryTypeOK, JobsAtTheEnd
<1>2. ShownAreApproved' /\ JobsAtTheEnd'
  BY <1>1 DEF DiscoveryInv, ShownAreApproved, JobsAtTheEnd
<1>3. jobs' \in Seq(ReturnedJob) /\ JobsAreApprovedHits'
  <2>1. CASE jobs' = jobs
    <3>1. DOMAIN jobs' = {}
      BY <1>1, <2>1
    <3>2. QED
      BY <1>1, <2>1, <3>1 DEF JobsAreApprovedHits
  <2>2. ASSUME NEW extracted \in BoundedSeq(Extracted, MaxExtracted),
               jobs' = postFilterExtractedJobs(extracted)
        PROVE  jobs' \in Seq(ReturnedJob) /\ JobsAreApprovedHits'
    <3>1. extracted \in Seq(Extracted)
      BY DiscoveryAssumption, BoundedIsSequence
    <3>2. PICK made : made = JobsOf(shown, KeptFields(shown, extracted))
      OBVIOUS
    <3>3. /\ made \in Seq(ReturnedJob)
          /\ \A k \in DOMAIN made : \E i \in DOMAIN shown : Describes(made[k], shown[i])
          /\ \A k, l \in DOMAIN made : urlKey(made[k].url) = urlKey(made[l].url) => k = l
      BY <1>1, <3>1, <3>2, JobsAreShownHits
    <3>4. jobs' = made
      BY <2>2, <3>2 DEF postFilterExtractedJobs
    <3>5. ASSUME NEW k \in DOMAIN made
          PROVE  \E i \in DOMAIN merged : judged[i] = "posting" /\ Describes(made[k], merged[i])
      <4>1. PICK h \in DOMAIN shown : Describes(made[k], shown[h])
        BY <3>3
      <4>2. PICK i \in DOMAIN merged : judged[i] = "posting" /\ shown[h] = merged[i]
        BY DEF DiscoveryInv, ShownAreApproved
      <4>3. QED
        BY <4>1, <4>2
    <3>6. QED
      BY <1>1, <3>3, <3>4, <3>5 DEF JobsAreApprovedHits, Describes
  <2>3. QED
    BY <2>1, <2>2 DEF ExtractJobs
<1>4. DiscoveryTypeOK'
  BY <1>1, <1>3 DEF DiscoveryInv, DiscoveryTypeOK
<1>5. QED
  BY <1>2, <1>3, <1>4 DEF DiscoveryInv

\* Steps of the other workflows leave a discovery alone.
LEMMA DiscoveryStep ==
    ASSUME DiscoveryInv, [Next]_vars
    PROVE  DiscoveryInv'
<1>1. CASE UNCHANGED discoveryVars
  BY <1>1 DEF discoveryVars, DiscoveryInv, DiscoveryTypeOK, ShownAreApproved, JobsAtTheEnd,
     JobsAreApprovedHits
<1>2. CASE DiscoveryNext
  BY <1>2, SearchSources_Inv, filterJobHitsWithJev_Inv, ExtractJobs_Inv DEF DiscoveryNext
<1>3. QED
  BY <1>1, <1>2 DEF Next, vars, discoveryVars

\* Whatever indices and titles the language model answers with, every
\* discovered job has the address and the date of one approved hit, and no
\* posting is returned twice.
THEOREM Discovered == Spec => []JobsAreApprovedHits
<1>1. Init => DiscoveryInv
  BY DiscoveryInit_Inv DEF Init
<1>2. DiscoveryInv /\ [Next]_vars => DiscoveryInv'
  BY DiscoveryStep
<1>3. DiscoveryInv => JobsAreApprovedHits
  BY DEF DiscoveryInv
<1>4. QED
  BY <1>1, <1>2, <1>3, PTL DEF Spec

-----------------------------------------------------------------------------
(* The ranking of pages.                                                   *)

\* Embeddings compose.
LEMMA EmbedsCompose ==
    ASSUME NEW part, NEW middle, NEW whole, NEW e, NEW f,
           Embeds(e, part, middle), Embeds(f, middle, whole)
    PROVE  Embeds([i \in DOMAIN part |-> f[e[i]]], part, whole)
BY DEF Embeds

\* A part of ranked pages, in their order, is ranked.
LEMMA PartIsRanked ==
    ASSUME NEW part, NEW whole, NEW search, NEW domain, NEW e, Embeds(e, part, whole),
           RankedIn(whole, search, domain)
    PROVE  RankedIn(part, search, domain)
<1>1. PICK rank \in [DOMAIN whole -> DOMAIN search] :
         /\ \A i \in DOMAIN whole : whole[i] = search[rank[i]] /\ ~whole[i].blocked
         /\ \A i, j \in DOMAIN whole : i < j =>
               \/ OfCompany(whole[i], domain) /\ ~OfCompany(whole[j], domain)
               \/ /\ OfCompany(whole[i], domain) <=> OfCompany(whole[j], domain)
                  /\ rank[i] < rank[j]
  BY DEF RankedIn
<1> DEFINE r == [i \in DOMAIN part |-> rank[e[i]]]
<1>2. /\ \A i \in DOMAIN part : e[i] \in DOMAIN whole /\ part[i] = whole[e[i]]
      /\ \A i, j \in DOMAIN part : i < j => e[i] < e[j]
  BY DEF Embeds
<1>3. r \in [DOMAIN part -> DOMAIN search] /\ \A i \in DOMAIN part : r[i] = rank[e[i]]
  BY <1>2
<1> HIDE DEF r
<1>4. \A i \in DOMAIN part : part[i] = search[r[i]] /\ ~part[i].blocked
  BY <1>1, <1>2, <1>3
<1>5. ASSUME NEW i \in DOMAIN part, NEW j \in DOMAIN part, i < j
      PROVE  \/ OfCompany(part[i], domain) /\ ~OfCompany(part[j], domain)
             \/ /\ OfCompany(part[i], domain) <=> OfCompany(part[j], domain)
                /\ r[i] < r[j]
  <2>1. e[i] \in DOMAIN whole /\ e[j] \in DOMAIN whole /\ e[i] < e[j]
    BY <1>2, <1>5
  <2>2. \/ OfCompany(whole[e[i]], domain) /\ ~OfCompany(whole[e[j]], domain)
        \/ /\ OfCompany(whole[e[i]], domain) <=> OfCompany(whole[e[j]], domain)
           /\ rank[e[i]] < rank[e[j]]
    BY <1>1, <2>1
  <2>3. QED
    BY <1>2, <1>3, <2>2, Zenon
<1>6. QED
  BY <1>3, <1>4, <1>5 DEF RankedIn

\* The company's open pages, then the others: ranked.
LEMMA OwnPagesFirst ==
    ASSUME NEW search, NEW domain, NEW open \in Seq(SearchResult), NEW e,
           DOMAIN search \subseteq Nat, Embeds(e, open, search),
           \A i \in DOMAIN open : ~open[i].blocked,
           NEW own, own = {i \in DOMAIN open : OfCompany(open[i], domain)},
           NEW ranked, ranked = Pick(open, own) \o Pick(open, DOMAIN open \ own)
    PROVE  ranked \in Seq(SearchResult) /\ RankedIn(ranked, search, domain)
<1> DEFINE rest == DOMAIN open \ own
           a == Cardinality(own)
           b == Cardinality(rest)
           at(i) == IF i <= a THEN Nth(own, i) ELSE Nth(rest, i - a)
           rank == [i \in 1..(a + b) |-> e[at(i)]]
<1>1. own \in SUBSET DOMAIN open /\ rest \in SUBSET DOMAIN open
  OBVIOUS
<1>2. /\ \A i \in own : OfCompany(open[i], domain)
      /\ \A i \in rest : ~OfCompany(open[i], domain)
  OBVIOUS
<1> HIDE DEF rest
<1>3. /\ Pick(open, own) \in Seq(SearchResult) /\ Len(Pick(open, own)) = a /\ a \in Nat
      /\ \A k \in 1..a : Nth(own, k) \in own /\ Pick(open, own)[k] = open[Nth(own, k)]
  BY <1>1, PickEmbeds
<1>4. /\ Pick(open, rest) \in Seq(SearchResult) /\ Len(Pick(open, rest)) = b /\ b \in Nat
      /\ \A k \in 1..b : Nth(rest, k) \in rest /\ Pick(open, rest)[k] = open[Nth(rest, k)]
  BY <1>1, PickEmbeds
<1>5. Len(open) \in Nat /\ own \in SUBSET (1..Len(open)) /\ rest \in SUBSET (1..Len(open))
  BY <1>1
<1>6. /\ \A k, l \in 1..a : k < l => Nth(own, k) < Nth(own, l)
      /\ \A k, l \in 1..b : k < l => Nth(rest, k) < Nth(rest, l)
  BY <1>5, NthIncreases
<1> HIDE DEF a, b
<1>7. /\ ranked \in Seq(SearchResult) /\ DOMAIN ranked = 1..(a + b)
      /\ \A i \in 1..(a + b) :
            ranked[i] = IF i <= a THEN Pick(open, own)[i] ELSE Pick(open, rest)[i - a]
  <2>1. PICK s, t : s = Pick(open, own) /\ t = Pick(open, rest)
    OBVIOUS
  <2>2. ranked = s \o t
    BY <2>1 DEF rest
  <2>3. s \in Seq(SearchResult) /\ t \in Seq(SearchResult) /\ Len(s) = a /\ Len(t) = b
    BY <1>3, <1>4, <2>1
  <2>4. /\ ranked \in Seq(SearchResult) /\ DOMAIN ranked = 1..(a + b)
        /\ \A i \in 1..(a + b) : ranked[i] = IF i <= a THEN s[i] ELSE t[i - a]
    <3>1. /\ s \o t \in Seq(SearchResult) /\ Len(s \o t) = Len(s) + Len(t)
          /\ \A i \in 1..(Len(s) + Len(t)) :
                (s \o t)[i] = IF i <= Len(s) THEN s[i] ELSE t[i - Len(s)]
      BY <2>3, ConcatProperties
    <3>2. ranked \in Seq(SearchResult) /\ Len(ranked) = a + b
      BY <2>2, <2>3, <3>1
    <3>3. DOMAIN ranked = 1..(a + b)
      BY <3>2
    <3>4. \A i \in 1..(a + b) : ranked[i] = IF i <= a THEN s[i] ELSE t[i - a]
      BY <2>2, <2>3, <3>1, Zenon
    <3>5. QED
      BY <3>2, <3>3, <3>4
  <2>5. QED
    BY <2>1, <2>4
<1>8. \A i \in 1..(a + b) : i <= a \/ i - a \in 1..b
  BY <1>3, <1>4
<1>9. \A i \in 1..(a + b) : /\ at(i) \in DOMAIN open /\ ranked[i] = open[at(i)]
                            /\ OfCompany(open[at(i)], domain) <=> i <= a
  <2>1. ASSUME NEW i \in 1..(a + b), i <= a
        PROVE  /\ at(i) \in DOMAIN open /\ ranked[i] = open[at(i)]
               /\ OfCompany(open[at(i)], domain)
    <3>1. i \in 1..a
      BY <1>3, <2>1
    <3>2. QED
      BY <1>1, <1>2, <1>3, <1>7, <2>1, <3>1
  <2>2. ASSUME NEW i \in 1..(a + b), ~(i <= a)
        PROVE  /\ at(i) \in DOMAIN open /\ ranked[i] = open[at(i)]
               /\ ~OfCompany(open[at(i)], domain)
    <3>1. i - a \in 1..b
      BY <1>8, <2>2
    <3>2. QED
      BY <1>1, <1>2, <1>4, <1>7, <2>2, <3>1
  <2>3. QED
    BY <2>1, <2>2
<1>10. \A i, j \in 1..(a + b) : i < j /\ (i <= a <=> j <= a) => at(i) < at(j)
  <2>1. ASSUME NEW i \in 1..(a + b), NEW j \in 1..(a + b), i < j, i <= a, j <= a
        PROVE  at(i) < at(j)
    <3>1. i \in 1..a /\ j \in 1..a
      BY <1>3, <2>1
    <3>2. QED
      BY <1>6, <2>1, <3>1
  <2>2. ASSUME NEW i \in 1..(a + b), NEW j \in 1..(a + b), i < j, ~(i <= a), ~(j <= a)
        PROVE  at(i) < at(j)
    <3>1. i - a \in 1..b /\ j - a \in 1..b /\ i - a < j - a
      BY <1>3, <1>8, <2>2
    <3>2. QED
      BY <1>6, <2>2, <3>1
  <2>3. QED
    BY <2>1, <2>2
<1>11. \A i, j \in 1..(a + b) : i < j => ~(j <= a) \/ i <= a
  BY <1>3, <1>4
<1> HIDE DEF at
<1>12. rank \in [DOMAIN ranked -> DOMAIN search] /\ \A i \in DOMAIN ranked : rank[i] = e[at(i)]
  BY <1>7, <1>9 DEF Embeds
<1> HIDE DEF rank
<1>13. \A i \in DOMAIN ranked : ranked[i] = search[rank[i]] /\ ~ranked[i].blocked
  <2>1. \A k \in DOMAIN open : open[k] = search[e[k]] /\ ~open[k].blocked
    BY DEF Embeds
  <2>2. ASSUME NEW i \in DOMAIN ranked
        PROVE  ranked[i] = search[rank[i]] /\ ~ranked[i].blocked
    <3>1. at(i) \in DOMAIN open /\ ranked[i] = open[at(i)] /\ rank[i] = e[at(i)]
      BY <1>7, <1>9, <1>12
    <3>2. QED
      BY <2>1, <3>1
  <2>3. QED
    BY <2>2
<1>14. ASSUME NEW i \in DOMAIN ranked, NEW j \in DOMAIN ranked, i < j
       PROVE  \/ OfCompany(ranked[i], domain) /\ ~OfCompany(ranked[j], domain)
              \/ /\ OfCompany(ranked[i], domain) <=> OfCompany(ranked[j], domain)
                 /\ rank[i] < rank[j]
  <2>1. i \in 1..(a + b) /\ j \in 1..(a + b)
    BY <1>7
  <2>2. (OfCompany(ranked[i], domain) <=> i <= a) /\ (OfCompany(ranked[j], domain) <=> j <= a)
    BY <1>9, <2>1
  <2>3. (i <= a <=> j <= a) => rank[i] < rank[j]
    BY <1>9, <1>10, <1>12, <1>14, <2>1 DEF Embeds
  <2>4. ~(j <= a) \/ i <= a
    BY <1>11, <1>14, <2>1
  <2>5. QED
    BY <2>2, <2>3, <2>4
<1>15. QED
  BY <1>7, <1>12, <1>13, <1>14 DEF RankedIn

\* What programmaticFilterResults keeps of some results of a search is ranked.
LEMMA FilteredIsRanked ==
    ASSUME NEW search \in Seq(SearchResult), NEW domain, NEW results \in Seq(SearchResult),
           NEW e, Embeds(e, results, search),
           NEW filtered, filtered = programmaticFilterResults(results, domain)
    PROVE  /\ filtered \in Seq(SearchResult) /\ Len(filtered) <= MaxPages
           /\ RankedIn(filtered, search, domain)
<1> DEFINE allowed == {i \in DOMAIN results : results[i].host # NoHost /\ ~results[i].blocked}
<1>1. PICK open : open = Pick(results, allowed)
  OBVIOUS
<1>2. allowed \in SUBSET DOMAIN results /\ \A i \in allowed : ~results[i].blocked
  OBVIOUS
<1>3. /\ open \in Seq(SearchResult)
      /\ DOMAIN open = 1..Cardinality(allowed)
      /\ \A k \in 1..Cardinality(allowed) :
            Nth(allowed, k) \in allowed /\ open[k] = results[Nth(allowed, k)]
      /\ Embeds([k \in 1..Cardinality(allowed) |-> Nth(allowed, k)], open, results)
  <2> HIDE DEF allowed
  <2>1. QED
    BY <1>1, <1>2, PickEmbeds
<1>4. \A i \in DOMAIN open : ~open[i].blocked
  BY <1>2, <1>3
<1>5. PICK f : Embeds(f, open, search)
  BY <1>3, EmbedsCompose
<1>6. PICK own : own = {i \in DOMAIN open : OfCompany(open[i], domain)}
  OBVIOUS
<1>7. PICK ranked : ranked = Pick(open, own) \o Pick(open, DOMAIN open \ own)
  OBVIOUS
<1>8. DOMAIN search \subseteq Nat
  OBVIOUS
<1>9. ranked \in Seq(SearchResult) /\ RankedIn(ranked, search, domain)
  BY <1>3, <1>4, <1>5, <1>6, <1>7, <1>8, OwnPagesFirst
<1>10. filtered = IF Len(ranked) > MaxPages THEN SubSeq(ranked, 1, MaxPages) ELSE ranked
  BY <1>1, <1>6, <1>7 DEF programmaticFilterResults
<1>11. MaxPages \in Nat
  BY ContentAssumption
<1>12. CASE Len(ranked) > MaxPages
  <2>1. filtered = SubSeq(ranked, 1, MaxPages)
    BY <1>10, <1>12
  <2>2. /\ filtered \in Seq(SearchResult) /\ Len(filtered) = MaxPages
        /\ \A i \in 1..MaxPages : i \in DOMAIN ranked /\ filtered[i] = ranked[i]
    BY <1>9, <1>11, <1>12, <2>1
  <2>3. DOMAIN filtered = 1..MaxPages
    BY <2>2
  <2>4. Embeds([i \in 1..MaxPages |-> i], filtered, ranked)
    BY <2>2, <2>3 DEF Embeds
  <2>5. QED
    BY <1>9, <1>11, <2>2, <2>4, PartIsRanked
<1>13. CASE ~(Len(ranked) > MaxPages)
  BY <1>9, <1>10, <1>11, <1>13
<1>14. QED
  BY <1>12, <1>13

-----------------------------------------------------------------------------
(* Requests: one record at a time.                                         *)

\* What a request delivers: nothing yet, a letter, or answers.
Results ==
    {<<>>} \cup Letter \cup
    [DOMAIN Questions -> [id : STRING, answer : {"", "yes", "no"}]]

Request ==
    [kind : {"letter", "edit", "autofill"},
     step : {"fetch", "search", "filter", "cache", "scrape", "save", "write", "done", "failed"},
     found : Seq(SearchResult), domain : Hosts \cup {NoDomain}, slots : Seq(SearchResult),
     arrived : SUBSET Nat, pages : Seq(SearchResult), repairing : BOOLEAN, result : Results]

\* Pages a letter on this domain may be written from, and pages for answers.
LetterPages(pages, domain) ==
    /\ NoPage \notin Range(pages) /\ Len(pages) <= MaxPages
    /\ \E search \in Searches : RankedIn(pages, search, domain)
AnswerPages(pages) ==
    /\ NoPage \notin Range(pages)
    /\ \E search \in Searches : \E kept \in SUBSET DOMAIN search : pages = Pick(search, kept)

PagesSound(q) ==
    q.pages # <<>> =>
       IF q.kind = "autofill" THEN AnswerPages(q.pages) ELSE LetterPages(q.pages, q.domain)

\* What is searched or scraped was found, and ranked if it is for a letter.
FoundSound(q) ==
    /\ q.step = "filter" => q.found \in Searches
    /\ q.step \in {"cache", "scrape"} =>
          IF q.kind = "autofill" THEN q.found \in Searches
          ELSE /\ Len(q.found) <= MaxPages
               /\ \E search \in Searches : RankedIn(q.found, search, q.domain)
    /\ q.step \in {"cache", "scrape"} =>
          /\ DOMAIN q.slots = DOMAIN q.found
          /\ \A i \in DOMAIN q.found : q.slots[i] \in {NoPage, q.found[i]}

\* Where each kind of request may be, and that a letter has its domain from
\* the search and no pages before.
WhereSound(q) ==
    /\ q.step \in {"search", "filter", "cache", "save"} => q.kind = "letter"
    /\ q.step = "scrape" => q.kind # "edit"
    /\ q.kind # "autofill" /\ q.step \in {"fetch", "search", "filter"} => q.pages = <<>>
    /\ q.kind = "letter" /\ q.step \in {"cache", "scrape", "save"} => q.domain \in Hosts

\* What is delivered.
ResultSound(q) ==
    q.step = "done" =>
       IF q.kind = "autofill"
       THEN [i \in DOMAIN Questions |-> q.result[i].id] = Questions
       ELSE q.result.paragraphs = 3 /\ ~q.result.long

Sound(q) ==
    q \in Request /\ PagesSound(q) /\ FoundSound(q) /\ WhereSound(q) /\ ResultSound(q)

\* A page without text is a search result, of no address.
LEMMA NoPageType == NoPage \in SearchResult
BY DEF NoPage, SearchResult, NoHost

\* A domain named among the hosts of a search is one of the hosts.
LEMMA HostsOfSearch ==
    ASSUME NEW search \in Searches
    PROVE  HostsOf(search) \subseteq Hosts
BY DEF Hosts

\* A request that fails stays sound.
LEMMA FailsSound ==
    ASSUME NEW q, Sound(q)
    PROVE  Sound([q EXCEPT !.step = "failed"])
BY DEF Sound, Request, PagesSound, FoundSound, WhereSound, ResultSound

\* From the data of the user to the search, or to the writing.
LEMMA FetchSound ==
    ASSUME NEW q, Sound(q), q.step = "fetch"
    PROVE  /\ q.kind = "letter" => Sound([q EXCEPT !.step = "search"])
           /\ Sound([q EXCEPT !.step = "write"])
BY DEF Sound, Request, PagesSound, FoundSound, WhereSound, ResultSound

\* The request that WriteFrom makes of another.
Writes(q, pages) ==
    [q EXCEPT !.step = "write", !.pages = pages, !.found = <<>>, !.slots = <<>>,
              !.arrived = {}, !.domain = IF pages = <<>> THEN NoDomain ELSE @]

\* A letter written from ranked pages of its domain, or from none, is sound.
LEMMA WritesSound ==
    ASSUME NEW q, Sound(q), NEW pages \in Seq(SearchResult), q.kind = "letter",
           pages # <<>> => LetterPages(pages, q.domain)
    PROVE  Sound(Writes(q, pages))
<1>1. q \in Request
  BY DEF Sound
<1>2. <<>> \in Seq(SearchResult) /\ {} \in SUBSET Nat
  OBVIOUS
<1>3. PICK w : w = Writes(q, pages)
  OBVIOUS
<1>4. /\ w \in Request /\ w.step = "write" /\ w.kind = "letter" /\ w.pages = pages
      /\ w.domain = IF pages = <<>> THEN NoDomain ELSE q.domain
  BY <1>1, <1>2, <1>3 DEF Writes, Request
<1>5. PagesSound(w)
  BY <1>4 DEF PagesSound
<1>6. FoundSound(w) /\ WhereSound(w) /\ ResultSound(w)
  BY <1>4 DEF FoundSound, WhereSound, ResultSound
<1>7. QED
  BY <1>3, <1>4, <1>5, <1>6 DEF Sound

\* Slots as many as there are results, all empty.
LEMMA EmptySlots ==
    ASSUME NEW results \in Seq(SearchResult)
    PROVE  /\ [i \in DOMAIN results |-> NoPage] \in Seq(SearchResult)
           /\ DOMAIN [i \in DOMAIN results |-> NoPage] = DOMAIN results
<1>1. DOMAIN results = 1..Len(results) /\ Len(results) \in Nat
  OBVIOUS
<1>2. [i \in DOMAIN results |-> NoPage] \in [1..Len(results) -> SearchResult]
  BY <1>1, NoPageType
<1>3. QED
  BY <1>1, <1>2

\* What a search found goes to the filter.
LEMMA SearchSound ==
    ASSUME NEW q, Sound(q), q.step = "search", NEW results \in Searches
    PROVE  Sound(Finds([q EXCEPT !.step = "filter"], results))
<1>1. results \in Seq(SearchResult)
  BY ContentAssumption
<1>2. PICK empty : empty = [i \in DOMAIN results |-> NoPage]
  OBVIOUS
<1>3. empty \in Seq(SearchResult)
  BY <1>1, <1>2, EmptySlots
<1>4. PICK w : w = Finds([q EXCEPT !.step = "filter"], results)
  OBVIOUS
<1>5. w = [[q EXCEPT !.step = "filter"] EXCEPT !.found = results, !.slots = empty]
  BY <1>2, <1>4 DEF Finds
<1>6. /\ w \in Request /\ w.step = "filter" /\ w.kind = q.kind /\ w.pages = q.pages
      /\ w.found = results /\ w.domain = q.domain
  BY <1>1, <1>3, <1>5 DEF Sound, Request
<1>7. q.kind = "letter" /\ q.pages = <<>>
  BY DEF Sound, WhereSound
<1>8. QED
  BY <1>4, <1>6, <1>7 DEF Sound, PagesSound, FoundSound, WhereSound, ResultSound

\* The ranked results of a domain go to the cache, and to the scrape after.
LEMMA FilterSound ==
    ASSUME NEW q, Sound(q), q.step = "filter", NEW domain \in HostsOf(q.found),
           NEW useful \in SUBSET DOMAIN q.found, NEW filtered,
           filtered = programmaticFilterResults(Pick(q.found, useful), domain)
    PROVE  /\ Sound(Writes(q, <<>>))
           /\ Sound(Finds([q EXCEPT !.step = "cache", !.domain = domain], filtered))
<1>1. q.found \in Searches /\ q.found \in Seq(SearchResult)
  BY DEF Sound, FoundSound, Request
<1>2. q.kind = "letter" /\ q.pages = <<>>
  BY DEF Sound, WhereSound
<1>3. PICK results : results = Pick(q.found, useful)
  OBVIOUS
<1>4. results \in Seq(SearchResult) /\ \E e : Embeds(e, results, q.found)
  BY <1>1, <1>3, PickEmbeds
<1>5. /\ filtered \in Seq(SearchResult) /\ Len(filtered) <= MaxPages
      /\ RankedIn(filtered, q.found, domain)
  BY <1>1, <1>3, <1>4, FilteredIsRanked
<1>6. domain \in Hosts
  BY <1>1, HostsOfSearch
<1>7. PICK empty : empty = [i \in DOMAIN filtered |-> NoPage]
  OBVIOUS
<1>8. /\ empty \in Seq(SearchResult) /\ DOMAIN empty = DOMAIN filtered
      /\ \A i \in DOMAIN filtered : empty[i] = NoPage
  BY <1>5, <1>7, EmptySlots
<1>9. PICK w : w = Finds([q EXCEPT !.step = "cache", !.domain = domain], filtered)
  OBVIOUS
<1>10. w = [[q EXCEPT !.step = "cache", !.domain = domain]
              EXCEPT !.found = filtered, !.slots = empty]
  BY <1>7, <1>9 DEF Finds
<1>11. /\ w \in Request /\ w.step = "cache" /\ w.kind = q.kind /\ w.pages = q.pages
       /\ w.found = filtered /\ w.domain = domain /\ w.slots = empty
  BY <1>5, <1>6, <1>8, <1>10 DEF Sound, Request
<1>12. PagesSound(w) /\ WhereSound(w) /\ ResultSound(w)
  BY <1>2, <1>6, <1>11 DEF PagesSound, WhereSound, ResultSound
<1>13. FoundSound(w)
  BY <1>1, <1>2, <1>5, <1>8, <1>11 DEF FoundSound
<1>14. <<>> \in Seq(SearchResult)
  OBVIOUS
<1>15. QED
  BY <1>2, <1>9, <1>11, <1>12, <1>13, <1>14, WritesSound DEF Sound

\* A miss of the cache goes to the scrape.
LEMMA MissSound ==
    ASSUME NEW q, Sound(q), q.step = "cache"
    PROVE  Sound([q EXCEPT !.step = "scrape"])
BY DEF Sound, Request, PagesSound, FoundSound, WhereSound, ResultSound

\* A page goes to the slot of its result.
LEMMA PlaceSound ==
    ASSUME NEW q, Sound(q), q.step = "scrape", NEW i \in DOMAIN q.found,
           NEW page \in Scraped(q.found[i])
    PROVE  Sound([q EXCEPT !.slots[i] = page, !.arrived = @ \cup {i}])
<1>1. /\ q \in Request /\ q.found \in Seq(SearchResult) /\ q.slots \in Seq(SearchResult)
      /\ q.arrived \in SUBSET Nat
  BY DEF Sound, Request
<1>2. /\ DOMAIN q.slots = DOMAIN q.found
      /\ \A k \in DOMAIN q.found : q.slots[k] \in {NoPage, q.found[k]}
  BY DEF Sound, FoundSound
<1>3. page \in {NoPage, q.found[i]}
  BY DEF Scraped
<1>4. PICK slots : slots = [q.slots EXCEPT ![i] = page]
  OBVIOUS
<1>5. /\ DOMAIN slots = DOMAIN q.found
      /\ \A k \in DOMAIN q.found : slots[k] \in {NoPage, q.found[k]}
  BY <1>2, <1>3, <1>4
<1>6. slots \in Seq(SearchResult)
  <2>1. page \in SearchResult
    BY <1>1, <1>3, NoPageType
  <2>2. DOMAIN q.slots = 1..Len(q.slots) /\ Len(q.slots) \in Nat
        /\ q.slots \in [1..Len(q.slots) -> SearchResult]
    BY <1>1
  <2>3. slots \in [1..Len(q.slots) -> SearchResult]
    BY <1>4, <2>1, <2>2
  <2>4. QED
    BY <2>2, <2>3
<1>7. q.arrived \cup {i} \in SUBSET Nat
  BY <1>1
<1>8. PICK w : w = [q EXCEPT !.slots = slots, !.arrived = q.arrived \cup {i}]
  OBVIOUS
<1>9. w = [q EXCEPT !.slots[i] = page, !.arrived = @ \cup {i}]
  BY <1>1, <1>4, <1>8 DEF Request
<1>10. /\ w \in Request /\ w.step = q.step /\ w.kind = q.kind /\ w.pages = q.pages
       /\ w.found = q.found /\ w.domain = q.domain /\ w.slots = slots
  BY <1>1, <1>6, <1>7, <1>8 DEF Request
<1>11. FoundSound(w)
  BY <1>5, <1>10 DEF Sound, FoundSound
<1>12. PagesSound(w) /\ WhereSound(w) /\ ResultSound(w)
  BY <1>10 DEF Sound, PagesSound, WhereSound, ResultSound
<1>13. QED
  BY <1>9, <1>10, <1>11, <1>12 DEF Sound

\* The pages with text are those of the results found, in their order.
LEMMA CollectedPages ==
    ASSUME NEW q, Sound(q), q.step = "scrape",
           NEW pages, pages = Pick(q.slots, {i \in DOMAIN q.slots : q.slots[i] # NoPage})
    PROVE  /\ pages \in Seq(SearchResult)
           /\ q.kind = "autofill" => AnswerPages(pages)
           /\ q.kind = "letter" => LetterPages(pages, q.domain)
<1>1. /\ q \in Request /\ q.found \in Seq(SearchResult) /\ q.slots \in Seq(SearchResult)
  BY DEF Sound, Request
<1>2. PICK kept : kept = {i \in DOMAIN q.slots : q.slots[i] # NoPage}
  OBVIOUS
<1>3. /\ kept \in SUBSET DOMAIN q.found /\ kept \in SUBSET DOMAIN q.slots
      /\ \A i \in kept : q.slots[i] = q.found[i] /\ q.slots[i] # NoPage
  BY <1>2 DEF Sound, FoundSound
<1>4. /\ pages \in Seq(SearchResult) /\ Len(pages) = Cardinality(kept)
      /\ DOMAIN pages = 1..Cardinality(kept)
      /\ \A k \in 1..Cardinality(kept) : Nth(kept, k) \in kept /\ pages[k] = q.slots[Nth(kept, k)]
  <2>1. pages = Pick(q.slots, kept)
    BY <1>2
  <2>2. LET picked == Pick(q.slots, kept) IN
        /\ picked \in Seq(SearchResult) /\ Len(picked) = Cardinality(kept)
        /\ DOMAIN picked = 1..Cardinality(kept)
        /\ \A k \in 1..Cardinality(kept) :
              Nth(kept, k) \in kept /\ picked[k] = q.slots[Nth(kept, k)]
    BY <1>1, <1>3, PickEmbeds
  <2>3. QED
    BY <2>1, <2>2
<1>5. pages = Pick(q.found, kept)
  <2>1. \A k \in 1..Cardinality(kept) : q.slots[Nth(kept, k)] = q.found[Nth(kept, k)]
    BY <1>3, <1>4
  <2>2. QED
    BY <1>2, <2>1 DEF Pick
<1>6. NoPage \notin Range(pages)
  BY <1>3, <1>4 DEF Range
<1>7. ASSUME q.kind = "autofill"
      PROVE  AnswerPages(pages)
  <2>1. q.found \in Searches
    BY <1>7 DEF Sound, FoundSound
  <2>2. QED
    BY <1>3, <1>5, <1>6, <2>1 DEF AnswerPages
<1>8. ASSUME q.kind = "letter"
      PROVE  LetterPages(pages, q.domain)
  <2>1. PICK search \in Searches :
           Len(q.found) <= MaxPages /\ RankedIn(q.found, search, q.domain)
    BY <1>8 DEF Sound, FoundSound
  <2>2. \E e : Embeds(e, pages, q.found)
    BY <1>1, <1>3, <1>5, PickEmbeds
  <2>3. RankedIn(pages, search, q.domain)
    BY <2>1, <2>2, PartIsRanked
  <2>4. Cardinality(kept) <= Len(q.found) /\ Cardinality(kept) \in Nat /\ Len(q.found) \in Nat
    <3>1. kept \in SUBSET (1..Len(q.found)) /\ Len(q.found) \in Nat
      BY <1>1, <1>3
    <3>2. IsFiniteSet(1..Len(q.found)) /\ Cardinality(1..Len(q.found)) = Len(q.found)
      BY <3>1, FS_Interval
    <3>3. IsFiniteSet(kept) /\ Cardinality(kept) <= Len(q.found)
      BY <3>1, <3>2, FS_Subset
    <3>4. QED
      BY <3>1, <3>3, FS_CardinalityType
  <2>5. Len(pages) <= MaxPages
    BY <1>4, <2>1, <2>4, ContentAssumption
  <2>6. QED
    BY <1>6, <2>3, <2>5 DEF LetterPages
<1>9. QED
  BY <1>4, <1>7, <1>8

\* The pages collected go to the data of the user, the writing or the cache.
LEMMA CollectSound ==
    ASSUME NEW q, Sound(q), q.step = "scrape",
           NEW pages, pages = Pick(q.slots, {i \in DOMAIN q.slots : q.slots[i] # NoPage})
    PROVE  /\ q.kind = "autofill" =>
                 Sound([Finds(q, <<>>) EXCEPT !.step = "fetch", !.pages = pages, !.arrived = {}])
           /\ q.kind = "letter" =>
                 /\ Sound(Writes(q, <<>>))
                 /\ Sound([q EXCEPT !.step = "save", !.pages = pages])
<1>1. /\ pages \in Seq(SearchResult)
      /\ q.kind = "autofill" => AnswerPages(pages)
      /\ q.kind = "letter" => LetterPages(pages, q.domain)
  BY CollectedPages
<1>2. q \in Request /\ <<>> \in Seq(SearchResult) /\ {} \in SUBSET Nat
  BY DEF Sound
<1>3. ASSUME q.kind = "autofill"
      PROVE  Sound([Finds(q, <<>>) EXCEPT !.step = "fetch", !.pages = pages, !.arrived = {}])
  <2>1. PICK empty : empty = [i \in DOMAIN <<>> |-> NoPage]
    OBVIOUS
  <2>2. empty \in Seq(SearchResult)
    BY <1>2, <2>1, EmptySlots
  <2>3. PICK w : w = [Finds(q, <<>>) EXCEPT !.step = "fetch", !.pages = pages, !.arrived = {}]
    OBVIOUS
  <2>4. w = [[q EXCEPT !.found = <<>>, !.slots = empty]
               EXCEPT !.step = "fetch", !.pages = pages, !.arrived = {}]
    BY <2>1, <2>3 DEF Finds
  <2>5. w \in Request /\ w.step = "fetch" /\ w.kind = "autofill" /\ w.pages = pages
    BY <1>1, <1>2, <1>3, <2>2, <2>4 DEF Request
  <2>6. QED
    BY <1>1, <1>3, <2>3, <2>5 DEF Sound, PagesSound, FoundSound, WhereSound, ResultSound
<1>4. ASSUME q.kind = "letter"
      PROVE  Sound([q EXCEPT !.step = "save", !.pages = pages])
  <2>1. PICK w : w = [q EXCEPT !.step = "save", !.pages = pages]
    OBVIOUS
  <2>2. /\ w \in Request /\ w.step = "save" /\ w.kind = "letter" /\ w.pages = pages
        /\ w.domain = q.domain
    BY <1>1, <1>2, <1>4, <2>1 DEF Request
  <2>3. q.domain \in Hosts
    BY <1>4 DEF Sound, WhereSound
  <2>4. QED
    BY <1>1, <1>4, <2>1, <2>2, <2>3 DEF Sound, PagesSound, FoundSound, WhereSound, ResultSound
<1>5. QED
  BY <1>2, <1>3, <1>4, WritesSound

\* A valid letter is delivered; an invalid one is repaired.
LEMMA LetterSound ==
    ASSUME NEW q, Sound(q), q.step = "write", q.kind \in {"letter", "edit"},
           NEW letter \in Letter
    PROVE  /\ isValidCoverLetter(letter) =>
                 Sound([q EXCEPT !.step = "done", !.result = letter])
           /\ Sound([q EXCEPT !.repairing = TRUE])
<1>1. q \in Request
  BY DEF Sound
<1>2. ASSUME isValidCoverLetter(letter)
      PROVE  Sound([q EXCEPT !.step = "done", !.result = letter])
  <2>1. PICK w : w = [q EXCEPT !.step = "done", !.result = letter]
    OBVIOUS
  <2>2. letter \in Results
    BY DEF Results
  <2>3. /\ w \in Request /\ w.step = "done" /\ w.kind = q.kind /\ w.pages = q.pages
        /\ w.domain = q.domain /\ w.result = letter
    BY <1>1, <2>1, <2>2 DEF Request
  <2>4. w.result.paragraphs = 3 /\ ~w.result.long /\ w.kind # "autofill"
    BY <1>2, <2>3 DEF isValidCoverLetter
  <2>5. QED
    BY <2>1, <2>3, <2>4 DEF Sound, PagesSound, FoundSound, WhereSound, ResultSound
<1>3. Sound([q EXCEPT !.repairing = TRUE])
  <2>1. PICK w : w = [q EXCEPT !.repairing = TRUE]
    OBVIOUS
  <2>2. /\ w \in Request /\ w.step = q.step /\ w.kind = q.kind /\ w.pages = q.pages
        /\ w.domain = q.domain
    BY <1>1, <2>1 DEF Request
  <2>3. QED
    BY <2>1, <2>2 DEF Sound, PagesSound, FoundSound, WhereSound, ResultSound
<1>4. QED
  BY <1>2, <1>3

\* Of some positions, there is a last.
LEMMA LastOf ==
    ASSUME NEW n \in Nat, NEW S \in SUBSET (1..n), S # {}
    PROVE  Max(S) \in S
<1> DEFINE bounds == {m \in Nat : \A i \in S : i <= m}
<1>1. \A i \in S : i \in Nat /\ 1 <= i /\ i <= n
  OBVIOUS
<1>2. n \in bounds
  BY <1>1
<1>3. PICK m \in bounds : \A other \in bounds : m <= other
  BY <1>2, FirstOf
<1>4. m \in Nat /\ (\A i \in S : i <= m) /\ m # 0
  <2>1. PICK i : i \in S
    OBVIOUS
  <2>2. QED
    BY <1>1, <1>3, <2>1
<1>5. m \in S
  <2>1. ASSUME m \notin S
        PROVE  FALSE
    <3>1. m - 1 \in Nat /\ \A i \in S : i <= m - 1
      BY <1>1, <1>4, <2>1
    <3>2. m - 1 \in bounds
      BY <3>1
    <3>3. QED
      BY <1>3, <1>4, <3>2
  <2>2. QED
    BY <2>1
<1>6. \E x \in S : \A y \in S : x >= y
  BY <1>1, <1>4, <1>5
<1>7. QED
  BY <1>6, Zenon DEF Max

\* Answers are merged to one for each question, in its order.
LEMMA MergedAnswers ==
    ASSUME NEW answered \in Seq(Answer), NEW answers, answers = mergeAutofillAnswers(answered)
    PROVE  /\ answers \in [DOMAIN Questions -> [id : STRING, answer : {"", "yes", "no"}]]
           /\ \A i \in DOMAIN Questions : answers[i].id = Questions[i]
<1> DEFINE given(i) == {k \in DOMAIN answered : answered[k].id = Questions[i]}
           chosen(i) == IF given(i) = {} THEN "" ELSE answered[Max(given(i))].answer
<1>1. answers = [i \in DOMAIN Questions |-> [id |-> Questions[i], answer |-> chosen(i)]]
  BY DEF mergeAutofillAnswers
<1>2. ASSUME NEW i \in DOMAIN Questions
      PROVE  chosen(i) \in {"", "yes", "no"}
  <2>1. given(i) \in SUBSET (1..Len(answered)) /\ Len(answered) \in Nat
        /\ DOMAIN answered = 1..Len(answered)
    OBVIOUS
  <2> HIDE DEF given
  <2>2. given(i) # {} => Max(given(i)) \in DOMAIN answered
    BY <2>1, LastOf
  <2>3. ASSUME NEW k \in DOMAIN answered
        PROVE  answered[k].answer \in {"yes", "no"}
    <3>1. answered[k] \in Answer
      OBVIOUS
    <3>2. QED
      BY <3>1 DEF Answer
  <2>4. QED
    BY <2>2, <2>3
<1> HIDE DEF chosen
<1>3. \A i \in DOMAIN Questions : Questions[i] \in STRING
  BY ContentAssumption
<1>4. ASSUME NEW i \in DOMAIN Questions
      PROVE  answers[i].id = Questions[i] /\ answers[i] \in [id : STRING, answer : {"", "yes", "no"}]
  <2>1. PICK c : c = chosen(i)
    OBVIOUS
  <2>2. answers[i] = [id |-> Questions[i], answer |-> c]
    BY <1>1, <2>1
  <2>3. c \in {"", "yes", "no"} /\ Questions[i] \in STRING
    BY <1>2, <1>3, <2>1
  <2>4. answers[i].id = Questions[i]
    BY <2>2
  <2>5. [id |-> Questions[i], answer |-> c] \in [id : STRING, answer : {"", "yes", "no"}]
    BY <2>3
  <2>6. QED
    BY <2>2, <2>4, <2>5, Zenon
<1>5. DOMAIN answers = DOMAIN Questions /\ answers = [i \in DOMAIN Questions |-> answers[i]]
  BY <1>1
<1>6. QED
  BY <1>4, <1>5, Zenon

\* The merged answers are delivered.
LEMMA AnswersSound ==
    ASSUME NEW q, Sound(q), q.step = "write", q.kind = "autofill",
           NEW answered \in BoundedSeq(Answer, 2)
    PROVE  Sound([q EXCEPT !.step = "done", !.result = mergeAutofillAnswers(answered)])
<1>1. PICK answers : answers = mergeAutofillAnswers(answered)
  OBVIOUS
<1>2. /\ answers \in [DOMAIN Questions -> [id : STRING, answer : {"", "yes", "no"}]]
      /\ [i \in DOMAIN Questions |-> answers[i].id] = Questions
  <2>1. answered \in Seq(Answer)
    <3>1. 2 \in Nat
      OBVIOUS
    <3>2. QED
      BY <3>1, BoundedIsSequence, Zenon
  <2>2. \A seq \in Seq(Answer) : \A merge : merge = mergeAutofillAnswers(seq) =>
           /\ merge \in [DOMAIN Questions -> [id : STRING, answer : {"", "yes", "no"}]]
           /\ \A i \in DOMAIN Questions : merge[i].id = Questions[i]
    BY MergedAnswers, Zenon
  <2>3. answers \in [DOMAIN Questions -> [id : STRING, answer : {"", "yes", "no"}]]
    BY <1>1, <2>1, <2>2, Zenon
  <2>4. [i \in DOMAIN Questions |-> answers[i].id] = Questions
    <3>1. \A i \in DOMAIN Questions : answers[i].id = Questions[i]
      BY <1>1, <2>1, <2>2, Zenon
    <3>2. Questions = [i \in DOMAIN Questions |-> Questions[i]]
      BY ContentAssumption
    <3>3. QED
      BY <3>1, <3>2
  <2>5. QED
    BY <2>3, <2>4
<1>3. answers \in Results
  BY <1>2 DEF Results
<1>4. PICK w : w = [q EXCEPT !.step = "done", !.result = answers]
  OBVIOUS
<1>5. /\ w \in Request /\ w.step = "done" /\ w.kind = "autofill" /\ w.pages = q.pages
      /\ w.domain = q.domain /\ w.result = answers
  BY <1>3, <1>4 DEF Sound, Request
<1>6. ResultSound(w)
  BY <1>2, <1>5 DEF ResultSound
<1>7. PagesSound(w) /\ FoundSound(w) /\ WhereSound(w)
  BY <1>5 DEF Sound, PagesSound, FoundSound, WhereSound
<1>8. QED
  BY <1>1, <1>4, <1>5, <1>6, <1>7 DEF Sound

-----------------------------------------------------------------------------
(* Requests side by side.                                                  *)

\* What the cache keeps for a domain may be read for a letter on it.
CacheSound(c) ==
    /\ c \in [Hosts -> [pages : Seq(SearchResult), expired : BOOLEAN]]
    /\ \A domain \in Hosts : c[domain].pages # <<>> => LetterPages(c[domain].pages, domain)

ContentInv ==
    /\ request \in [Requests -> Request]
    /\ \A r \in Requests : Sound(request[r])
    /\ CacheSound(cache)

\* One request goes on soundly.
LEMMA BecomesSound ==
    ASSUME ContentInv, NEW r \in Requests, NEW next, Sound(next), Becomes(r, next),
           CacheSound(cache')
    PROVE  ContentInv'
<1>1. request' = [request EXCEPT ![r] = next] /\ next \in Request
  BY DEF Becomes, Sound
<1>2. request' \in [Requests -> Request]
  BY <1>1 DEF ContentInv
<1>3. \A s \in Requests : request'[s] = IF s = r THEN next ELSE request[s]
  BY <1>1 DEF ContentInv
<1>4. \A s \in Requests : Sound(request'[s])
  BY <1>3 DEF ContentInv
<1>5. QED
  BY <1>2, <1>4 DEF ContentInv

\* The same with a cache that stays as it is.
LEMMA GoesOnSound ==
    ASSUME ContentInv, NEW r \in Requests, NEW next, Sound(next), Becomes(r, next),
           UNCHANGED cache
    PROVE  ContentInv'
<1>1. CacheSound(cache')
  BY DEF ContentInv
<1>2. QED
  BY <1>1, BecomesSound

\* A request that is written from pages of its own.
LEMMA WritesGoesOn ==
    ASSUME NEW r, NEW pages, WriteFrom(r, pages)
    PROVE  Becomes(r, Writes(request[r], pages))
BY DEF WriteFrom, Writes

\* The first state: letters without anything, answers with their pages to scrape.
LEMMA ContentInit_Inv ==
    ASSUME ContentInit
    PROVE  ContentInv
<1>1. PICK kind \in [Requests -> Kinds], urls \in Searches :
         request = [r \in Requests |->
            IF kind[r] = "autofill" THEN Finds(Asked(kind[r]), urls) ELSE Asked(kind[r])]
  BY DEF ContentInit
<1>2. <<>> \in Seq(SearchResult) /\ {} \in SUBSET Nat /\ <<>> \in Results
  BY DEF Results
<1>3. urls \in Seq(SearchResult) /\ Kinds \subseteq {"letter", "edit", "autofill"}
  BY ContentAssumption
<1>4. ASSUME NEW k \in Kinds
      PROVE  Asked(k) \in Request
  BY <1>2, <1>3 DEF Asked, Request
<1>5. ASSUME NEW k \in Kinds, k # "autofill"
      PROVE  Sound(Asked(k))
  <2>1. Asked(k).step = "fetch" /\ Asked(k).pages = <<>>
    BY <1>5 DEF Asked
  <2>2. QED
    BY <1>4, <2>1 DEF Sound, PagesSound, FoundSound, WhereSound, ResultSound
<1>6. Sound(Finds(Asked("autofill"), urls)) \/ "autofill" \notin Kinds
  <2> SUFFICES ASSUME "autofill" \in Kinds
               PROVE  Sound(Finds(Asked("autofill"), urls))
    OBVIOUS
  <2>1. PICK q : q = Asked("autofill")
    OBVIOUS
  <2>2. q \in Request /\ q.kind = "autofill" /\ q.step = "scrape" /\ q.pages = <<>>
    BY <1>4, <2>1 DEF Asked
  <2>3. PICK empty : empty = [i \in DOMAIN urls |-> NoPage]
    OBVIOUS
  <2>4. /\ empty \in Seq(SearchResult) /\ DOMAIN empty = DOMAIN urls
        /\ \A i \in DOMAIN urls : empty[i] = NoPage
    BY <1>3, <2>3, EmptySlots
  <2>5. PICK w : w = [q EXCEPT !.found = urls, !.slots = empty]
    OBVIOUS
  <2>6. w = Finds(Asked("autofill"), urls)
    BY <2>1, <2>3, <2>5 DEF Finds
  <2>7. /\ w \in Request /\ w.kind = "autofill" /\ w.step = "scrape" /\ w.pages = <<>>
        /\ w.found = urls /\ w.slots = empty
    BY <1>3, <2>2, <2>4, <2>5 DEF Request
  <2>8. QED
    BY <2>4, <2>6, <2>7 DEF Sound, PagesSound, FoundSound, WhereSound, ResultSound
<1>7. \A r \in Requests : Sound(request[r])
  BY <1>1, <1>5, <1>6
<1>8. request \in [Requests -> Request]
  <2>1. DOMAIN request = Requests /\ request = [r \in Requests |-> request[r]]
    BY <1>1
  <2>2. \A r \in Requests : request[r] \in Request
    BY <1>7 DEF Sound
  <2>3. QED
    BY <2>1, <2>2
<1>9. CacheSound(cache)
  <2>1. NoPages \in [pages : Seq(SearchResult), expired : BOOLEAN] /\ NoPages.pages = <<>>
    BY <1>2 DEF NoPages
  <2>2. QED
    BY <2>1 DEF ContentInit, CacheSound
<1>10. QED
  BY <1>7, <1>8, <1>9 DEF ContentInv

\* The record of a request is sound, and may fail.
LEMMA RequestIsSound ==
    ASSUME ContentInv, NEW r \in Requests
    PROVE  Sound(request[r]) /\ (Fails(r) /\ UNCHANGED cache => ContentInv')
<1>1. Sound(request[r])
  BY DEF ContentInv
<1>2. Sound([request[r] EXCEPT !.step = "failed"])
  BY <1>1, FailsSound
<1>3. QED
  BY <1>1, <1>2, GoesOnSound DEF Fails, Goto

\* The user's data arrives, or not.
LEMMA FetchData_Inv ==
    ASSUME ContentInv, NEW r \in Requests, FetchData(r)
    PROVE  ContentInv'
<1>1. Sound(request[r]) /\ request[r].step = "fetch" /\ UNCHANGED cache
  BY RequestIsSound DEF FetchData, At
<1>2. /\ request[r].kind = "letter" => Sound([request[r] EXCEPT !.step = "search"])
      /\ Sound([request[r] EXCEPT !.step = "write"])
  BY <1>1, FetchSound
<1>3. CASE Fails(r)
  BY <1>1, <1>3, RequestIsSound
<1>4. CASE request[r].kind = "letter" /\ Goto(r, "search")
  BY <1>1, <1>2, <1>4, GoesOnSound DEF Goto
<1>5. CASE Goto(r, "write")
  BY <1>1, <1>2, <1>5, GoesOnSound DEF Goto
<1>6. QED
  BY <1>3, <1>4, <1>5 DEF FetchData

\* A letter without research is sound.
LEMMA WithoutResearch ==
    ASSUME ContentInv, NEW r \in Requests, request[r].kind = "letter", WriteFrom(r, <<>>),
           UNCHANGED cache
    PROVE  ContentInv'
<1>1. Sound(request[r])
  BY RequestIsSound
<1>2. <<>> \in Seq(SearchResult)
  OBVIOUS
<1>3. Sound(Writes(request[r], <<>>))
  BY <1>1, <1>2, WritesSound
<1>4. Becomes(r, Writes(request[r], <<>>))
  BY WritesGoesOn
<1>5. QED
  BY <1>3, <1>4, GoesOnSound

\* The search finds results or fails.
LEMMA SearchCompany_Inv ==
    ASSUME ContentInv, NEW r \in Requests, SearchCompany(r)
    PROVE  ContentInv'
<1>1. Sound(request[r]) /\ request[r].step = "search" /\ UNCHANGED cache
  BY RequestIsSound DEF SearchCompany, At
<1>2. request[r].kind = "letter"
  BY <1>1 DEF Sound, WhereSound
<1>3. ASSUME NEW results \in Searches,
             Becomes(r, Finds([request[r] EXCEPT !.step = "filter"], results))
      PROVE  ContentInv'
  BY <1>1, <1>3, SearchSound, GoesOnSound
<1>4. CASE WriteFrom(r, <<>>)
  BY <1>1, <1>2, <1>4, WithoutResearch
<1>5. QED
  BY <1>3, <1>4 DEF SearchCompany

\* The results are judged, filtered and ranked.
LEMMA FilterResults_Inv ==
    ASSUME ContentInv, NEW r \in Requests, FilterResults(r)
    PROVE  ContentInv'
<1>1. Sound(request[r]) /\ request[r].step = "filter" /\ UNCHANGED cache
  BY RequestIsSound DEF FilterResults, At
<1>2. request[r].kind = "letter"
  BY <1>1 DEF Sound, WhereSound
<1>3. CASE WriteFrom(r, <<>>)
  BY <1>1, <1>2, <1>3, WithoutResearch
<1>4. ASSUME NEW domain \in HostsOf(request[r].found),
             NEW useful \in SUBSET DOMAIN request[r].found,
             NEW filtered,
             filtered = programmaticFilterResults(Pick(request[r].found, useful), domain),
             Becomes(r, Finds([request[r] EXCEPT !.step = "cache", !.domain = domain], filtered))
      PROVE  ContentInv'
  <2>1. Sound(Finds([request[r] EXCEPT !.step = "cache", !.domain = domain], filtered))
    BY <1>1, <1>4, FilterSound
  <2>2. QED
    BY <1>1, <1>4, <2>1, GoesOnSound
<1>5. QED
  BY <1>3, <1>4 DEF FilterResults

\* Pages kept for the domain are written from; a miss goes to the scrape.
LEMMA ReadCache_Inv ==
    ASSUME ContentInv, NEW r \in Requests, ReadCache(r)
    PROVE  ContentInv'
<1>1. Sound(request[r]) /\ request[r].step = "cache" /\ UNCHANGED cache
  BY RequestIsSound DEF ReadCache, At
<1>2. request[r].kind = "letter" /\ request[r].domain \in Hosts
  BY <1>1 DEF Sound, WhereSound
<1>3. PICK pages : pages = cache[request[r].domain].pages
  OBVIOUS
<1>4. CASE pages # <<>> /\ WriteFrom(r, pages)
  <2>1. pages \in Seq(SearchResult) /\ LetterPages(pages, request[r].domain)
    BY <1>2, <1>3, <1>4 DEF ContentInv, CacheSound
  <2>2. Sound(Writes(request[r], pages))
    BY <1>1, <1>2, <2>1, WritesSound
  <2>3. Becomes(r, Writes(request[r], pages))
    BY <1>4, WritesGoesOn
  <2>4. QED
    BY <1>1, <2>2, <2>3, GoesOnSound
<1>5. CASE Goto(r, "scrape")
  BY <1>1, <1>5, MissSound, GoesOnSound DEF Goto
<1>6. QED
  BY <1>3, <1>4, <1>5 DEF ReadCache

\* A page arrives.
LEMMA ScrapePage_Inv ==
    ASSUME ContentInv, NEW r \in Requests, NEW i \in DOMAIN request[r].found, ScrapePage(r, i)
    PROVE  ContentInv'
<1>1. Sound(request[r]) /\ request[r].step = "scrape" /\ UNCHANGED cache
  BY RequestIsSound DEF ScrapePage, At
<1>2. PICK page \in Scraped(request[r].found[i]) : Becomes(r, Place(r, i, page))
  BY DEF ScrapePage
<1>3. Sound(Place(r, i, page))
  BY <1>1, PlaceSound DEF Place
<1>4. QED
  BY <1>1, <1>2, <1>3, GoesOnSound

\* All pages are there.
LEMMA CollectPages_Inv ==
    ASSUME ContentInv, NEW r \in Requests, CollectPages(r)
    PROVE  ContentInv'
<1>1. Sound(request[r]) /\ request[r].step = "scrape" /\ UNCHANGED cache
  BY RequestIsSound DEF CollectPages, At
<1>2. PICK pages : pages = Pick(request[r].slots,
                               {i \in DOMAIN request[r].slots : request[r].slots[i] # NoPage})
  OBVIOUS
<1>3. /\ request[r].kind = "autofill" =>
            Sound([Finds(request[r], <<>>) EXCEPT !.step = "fetch", !.pages = pages,
                                                  !.arrived = {}])
      /\ request[r].kind = "letter" =>
            Sound([request[r] EXCEPT !.step = "save", !.pages = pages])
  BY <1>1, <1>2, CollectSound
<1>4. CASE /\ request[r].kind = "autofill"
           /\ Becomes(r, [Finds(request[r], <<>>) EXCEPT !.step = "fetch", !.pages = pages,
                                                         !.arrived = {}])
  BY <1>1, <1>3, <1>4, GoesOnSound
<1>5. CASE request[r].kind = "letter" /\ WriteFrom(r, <<>>)
  BY <1>1, <1>5, WithoutResearch
<1>6. CASE /\ request[r].kind = "letter"
           /\ Becomes(r, [request[r] EXCEPT !.step = "save", !.pages = pages])
  BY <1>1, <1>3, <1>6, GoesOnSound
<1>7. QED
  BY <1>2, <1>4, <1>5, <1>6 DEF CollectPages

\* The pages are kept for the domain they were ranked for, or the save fails.
LEMMA SaveCache_Inv ==
    ASSUME ContentInv, NEW r \in Requests, SaveCache(r)
    PROVE  ContentInv'
<1>1. Sound(request[r]) /\ request[r].step = "save"
  BY RequestIsSound DEF SaveCache, At
<1>2. request[r].kind = "letter" /\ request[r].domain \in Hosts
  BY <1>1 DEF Sound, WhereSound
<1>3. /\ request[r].pages \in Seq(SearchResult)
      /\ request[r].pages # <<>> => LetterPages(request[r].pages, request[r].domain)
  BY <1>1, <1>2 DEF Sound, Request, PagesSound
<1>4. Sound(Writes(request[r], request[r].pages))
  BY <1>1, <1>2, <1>3, WritesSound
<1>5. CacheSound(cache')
  <2>1. CASE cache' = [cache EXCEPT ![request[r].domain] =
                          [pages |-> request[r].pages, expired |-> FALSE]]
    <3>1. PICK row : row = [pages |-> request[r].pages, expired |-> FALSE]
      OBVIOUS
    <3>2. row \in [pages : Seq(SearchResult), expired : BOOLEAN] /\ row.pages = request[r].pages
      BY <1>3, <3>1
    <3>3. cache' = [cache EXCEPT ![request[r].domain] = row]
      BY <2>1, <3>1
    <3>4. QED
      BY <1>2, <1>3, <3>2, <3>3 DEF ContentInv, CacheSound
  <2>2. CASE UNCHANGED cache
    BY <2>2 DEF ContentInv
  <2>3. QED
    BY <2>1, <2>2 DEF SaveCache
<1>6. Becomes(r, Writes(request[r], request[r].pages))
  BY WritesGoesOn DEF SaveCache
<1>7. QED
  BY <1>4, <1>5, <1>6, BecomesSound

\* A row of the cache expires.
LEMMA Expire_Inv ==
    ASSUME ContentInv, NEW domain \in Hosts, Expire(domain)
    PROVE  ContentInv'
<1>1. request' = request /\ cache' = [cache EXCEPT ![domain].expired = TRUE]
  BY DEF Expire
<1>2. CacheSound(cache')
  BY <1>1 DEF ContentInv, CacheSound
<1>3. QED
  BY <1>1, <1>2 DEF ContentInv

\* A letter is written, repaired once, or fails.
LEMMA WriteLetter_Inv ==
    ASSUME ContentInv, NEW r \in Requests, WriteLetter(r)
    PROVE  ContentInv'
<1>1. /\ Sound(request[r]) /\ request[r].step = "write" /\ UNCHANGED cache
      /\ request[r].kind \in {"letter", "edit"}
  BY RequestIsSound DEF WriteLetter, At
<1>2. CASE Fails(r)
  BY <1>1, <1>2, RequestIsSound
<1>3. ASSUME NEW letter \in Letter, isValidCoverLetter(letter),
             Becomes(r, [request[r] EXCEPT !.step = "done", !.result = letter])
      PROVE  ContentInv'
  BY <1>1, <1>3, LetterSound, GoesOnSound
<1>4. CASE Becomes(r, [request[r] EXCEPT !.repairing = TRUE])
  <2>1. PICK letter : letter \in Letter
    <3>1. [paragraphs |-> 3, long |-> FALSE] \in Letter
      BY DEF Letter
    <3>2. QED
      BY <3>1
  <2>2. QED
    BY <1>1, <1>4, <2>1, LetterSound, GoesOnSound
<1>5. QED
  BY <1>2, <1>3, <1>4 DEF WriteLetter

\* The questions are answered, or not.
LEMMA AnswerQuestions_Inv ==
    ASSUME ContentInv, NEW r \in Requests, AnswerQuestions(r)
    PROVE  ContentInv'
<1>1. /\ Sound(request[r]) /\ request[r].step = "write" /\ UNCHANGED cache
      /\ request[r].kind = "autofill"
  BY RequestIsSound DEF AnswerQuestions, At
<1>2. CASE Fails(r)
  BY <1>1, <1>2, RequestIsSound
<1>3. ASSUME NEW answered \in BoundedSeq(Answer, 2),
             Becomes(r, [request[r] EXCEPT !.step = "done",
                                           !.result = mergeAutofillAnswers(answered)])
      PROVE  ContentInv'
  BY <1>1, <1>3, AnswersSound, GoesOnSound
<1>4. QED
  BY <1>2, <1>3 DEF AnswerQuestions

\* Every step of every request, and of a discovery, which shares nothing.
LEMMA ContentStep ==
    ASSUME ContentInv, [Next]_vars
    PROVE  ContentInv'
<1>1. CASE UNCHANGED contentVars
  BY <1>1 DEF contentVars, ContentInv
<1>2. CASE ContentNext
  BY <1>2, FetchData_Inv, SearchCompany_Inv, FilterResults_Inv, ReadCache_Inv, ScrapePage_Inv,
     CollectPages_Inv, SaveCache_Inv, Expire_Inv, WriteLetter_Inv, AnswerQuestions_Inv
     DEF ContentNext
<1>3. QED
  BY <1>1, <1>2 DEF Next, vars, contentVars

\* Whoever scraped them, in whatever order they arrived and wherever the
\* requests met in the cache: letters and answers are written from pages in
\* the order of one search, and what is delivered is valid.
THEOREM Requested == Spec => []RequestsSound
<1>1. Init => ContentInv
  BY ContentInit_Inv DEF Init
<1>2. ContentInv /\ [Next]_vars => ContentInv'
  BY ContentStep
<1>3. ContentInv => RequestsSound
  <2> SUFFICES ASSUME ContentInv, NEW r \in Requests
               PROVE  /\ request[r].pages # <<>> =>
                           /\ NoPage \notin Range(request[r].pages)
                           /\ \E search \in Searches :
                                 IF request[r].kind = "autofill"
                                 THEN \E kept \in SUBSET DOMAIN search :
                                         request[r].pages = Pick(search, kept)
                                 ELSE /\ Len(request[r].pages) <= MaxPages
                                      /\ RankedIn(request[r].pages, search, request[r].domain)
                      /\ request[r].step = "done" =>
                           IF request[r].kind = "autofill"
                           THEN [q \in DOMAIN Questions |-> request[r].result[q].id] = Questions
                           ELSE request[r].result.paragraphs = 3 /\ ~request[r].result.long
    BY DEF RequestsSound, PagesInRankOrder, ResultsValid
  <2>1. Sound(request[r])
    BY RequestIsSound
  <2>2. QED
    BY <2>1 DEF Sound, PagesSound, ResultSound, AnswerPages, LetterPages
<1>4. QED
  BY <1>1, <1>2, <1>3, PTL DEF Spec
==============================================================================
