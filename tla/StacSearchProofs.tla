-------------------------- MODULE StacSearchProofs --------------------------
(***************************************************************************)
(* Proof that resolve_sync_store puts together what the servers list, for   *)
(* any searches, any order of the header reads and any failures.           *)
(***************************************************************************)
EXTENDS StacSearch, SequenceTheorems, FiniteSetTheorems, TLAPS

Phases == {"open", "paginate", "plan", "headers", "parent", "local", "children", "done"}
Outcomes == {"none", "stack", "group", "cog", "plain", "error"}

-----------------------------------------------------------------------------
(* Sequences.                                                              *)

(* The elements of two sequences, one after the other.                      *)
LEMMA ToSetConcat ==
  ASSUME NEW S, NEW a \in Seq(S), NEW b \in Seq(S)
  PROVE  ToSet(a \o b) = ToSet(a) \cup ToSet(b)
<1>1. /\ a \o b \in Seq(S) /\ Len(a \o b) = Len(a) + Len(b)
      /\ \A i \in 1 .. Len(a) + Len(b) :
           (a \o b)[i] = IF i <= Len(a) THEN a[i] ELSE b[i - Len(a)]
  BY ConcatProperties
<1>2. /\ DOMAIN a = 1 .. Len(a) /\ DOMAIN b = 1 .. Len(b)
      /\ DOMAIN (a \o b) = 1 .. Len(a) + Len(b)
      /\ Len(a) \in Nat /\ Len(b) \in Nat
  BY <1>1, LenProperties
<1>3. \A i \in DOMAIN a : (a \o b)[i] = a[i] /\ i \in DOMAIN (a \o b)
  BY <1>1, <1>2
<1>4. \A j \in DOMAIN b : (a \o b)[Len(a) + j] = b[j] /\ Len(a) + j \in DOMAIN (a \o b)
  BY <1>1, <1>2
<1>5. \A i \in DOMAIN (a \o b) :
        \/ i \in DOMAIN a /\ (a \o b)[i] = a[i]
        \/ i - Len(a) \in DOMAIN b /\ (a \o b)[i] = b[i - Len(a)]
  BY <1>1, <1>2
<1>6. ASSUME NEW x \in ToSet(a \o b) PROVE x \in ToSet(a) \cup ToSet(b)
  <2>1. PICK i \in DOMAIN (a \o b) : x = (a \o b)[i]
    BY DEF ToSet
  <2> QED
    BY <2>1, <1>5 DEF ToSet
<1>7. ASSUME NEW x \in ToSet(a) \cup ToSet(b) PROVE x \in ToSet(a \o b)
  <2>1. (\E i \in DOMAIN a : x = a[i]) \/ (\E j \in DOMAIN b : x = b[j])
    BY DEF ToSet
  <2>2. \E i \in DOMAIN (a \o b) : x = (a \o b)[i]
    BY <1>3, <1>4, <2>1
  <2> QED
    BY <2>2 DEF ToSet
<1> QED
  BY <1>6, <1>7

(* Features that can be sorted: each has a time, which is a number.         *)
Dated(fs) == \A i \in DOMAIN fs : Time(fs[i]) \in Int

Before(fs, i) ==
  {j \in DOMAIN fs :
     \/ Time(fs[j]) < Time(fs[i])
     \/ Time(fs[j]) = Time(fs[i]) /\ j <= i}

(* The place of a feature counts those not after it: the later of two has   *)
(* the greater place.                                                      *)
LEMMA PlacesOrdered ==
  ASSUME NEW S, NEW fs \in Seq(S), Dated(fs), NEW i \in DOMAIN fs
  PROVE  /\ Cardinality(Before(fs, i)) \in DOMAIN fs
         /\ \A j \in DOMAIN fs \ {i} :
              (Time(fs[j]) < Time(fs[i]) \/ (Time(fs[j]) = Time(fs[i]) /\ j <= i)) =>
                Cardinality(Before(fs, j)) < Cardinality(Before(fs, i))
<1>1. DOMAIN fs = 1 .. Len(fs) /\ Len(fs) \in Nat
  BY LenProperties
<1>2. IsFiniteSet(1 .. Len(fs)) /\ Cardinality(1 .. Len(fs)) = Len(fs)
  <2> DEFINE n == Len(fs)
  <2>1. n \in Int /\ n >= 0 /\ 1 \in Int
    BY <1>1
  <2> HIDE DEF n
  <2>2. IsFiniteSet(1 .. n) /\ Cardinality(1 .. n) = IF 1 > n THEN 0 ELSE n - 1 + 1
    BY <2>1, FS_Interval
  <2>3. IsFiniteSet(1 .. n) /\ Cardinality(1 .. n) = n
    BY <2>1, <2>2
  <2> QED
    BY <2>3 DEF n
<1>3. Before(fs, i) \subseteq 1 .. Len(fs) /\ i \in Before(fs, i)
  BY <1>1 DEF Before, Dated
<1>4. /\ IsFiniteSet(Before(fs, i)) /\ Cardinality(Before(fs, i)) <= Len(fs)
      /\ Cardinality(Before(fs, i)) \in Nat
  BY <1>2, <1>3, FS_Subset, FS_CardinalityType
<1>5. Cardinality(Before(fs, i)) # 0
  BY <1>3, <1>4, FS_EmptySet
<1>6. ASSUME NEW j \in DOMAIN fs, j # i,
             Time(fs[j]) < Time(fs[i]) \/ (Time(fs[j]) = Time(fs[i]) /\ j <= i)
      PROVE  Cardinality(Before(fs, j)) < Cardinality(Before(fs, i))
  <2>1. Before(fs, j) \subseteq Before(fs, i) /\ i \notin Before(fs, j)
    BY <1>1, <1>6 DEF Before, Dated
  <2>2. /\ IsFiniteSet(Before(fs, j)) /\ Cardinality(Before(fs, j)) \in Nat
        /\ Cardinality(Before(fs, j)) <= Cardinality(Before(fs, i))
        /\ Cardinality(Before(fs, i)) = Cardinality(Before(fs, j))
             => Before(fs, i) = Before(fs, j)
    BY <1>4, <2>1, FS_Subset, FS_CardinalityType
  <2> QED
    BY <1>3, <1>4, <2>1, <2>2
<1> QED
  BY <1>1, <1>4, <1>5, <1>6

(* sorted_features_by_datetime returns the same features, each as often, in  *)
(* time order.                                                             *)
LEMMA SortedFeatures ==
  ASSUME NEW S, NEW fs \in Seq(S), Dated(fs)
  PROVE  /\ DOMAIN SortedByTime(fs) = DOMAIN fs
         /\ SortedByTime(fs) \in Seq(S) /\ Len(SortedByTime(fs)) = Len(fs)
         /\ ToSet(SortedByTime(fs)) = ToSet(fs)
         /\ \A j, k \in DOMAIN fs : j < k =>
              Time(SortedByTime(fs)[j]) <= Time(SortedByTime(fs)[k])
<1> DEFINE D == DOMAIN fs
           Place(i) == Cardinality(Before(fs, i))
           place == [i \in D |-> Place(i)]
           at(k) == CHOOSE i \in D : Place(i) = k
<1>1. D = 1 .. Len(fs) /\ Len(fs) \in Nat
  BY LenProperties
<1>2. /\ \A i \in D : Place(i) \in D
      /\ \A i, j \in D : i # j
           /\ (Time(fs[j]) < Time(fs[i]) \/ (Time(fs[j]) = Time(fs[i]) /\ j <= i)) =>
             Place(j) < Place(i)
  BY PlacesOrdered
<1>3. \A i, j \in D : Place(i) = Place(j) => i = j
  BY <1>1, <1>2 DEF Dated
<1>4. \A k \in D : \E i \in D : Place(i) = k
  <2>1. place \in Injection(D, D)
    BY <1>2, <1>3 DEF Injection, IsInjective
  <2>2. IsFiniteSet(D)
    BY <1>1, FS_Interval
  <2>3. place \in Surjection(D, D)
    BY <2>1, <2>2, FS_Injection
  <2> QED
    BY <2>3 DEF Surjection
<1>5. \A k \in D : at(k) \in D /\ Place(at(k)) = k
  BY <1>4
<1>6. \A i \in D : at(Place(i)) = i
  BY <1>2, <1>3, <1>5
<1>7. SortedByTime(fs) = [k \in D |-> fs[at(k)]]
  BY DEF SortedByTime, Before
<1> HIDE DEF Place, place, at
<1>8. \A k \in D : SortedByTime(fs)[k] = fs[at(k)]
  BY <1>7
<1>9. SortedByTime(fs) \in Seq(S) /\ Len(SortedByTime(fs)) = Len(fs)
  <2>1. SortedByTime(fs) \in [1 .. Len(fs) -> S]
    BY <1>1, <1>5, <1>7, ElementOfSeq
  <2> QED
    BY <1>1, <2>1, SeqDef, LenProperties
<1>10. ToSet(SortedByTime(fs)) = ToSet(fs)
  BY <1>2, <1>5, <1>6, <1>7 DEF ToSet
<1>11. ASSUME NEW j \in D, NEW k \in D, j < k
       PROVE  Time(fs[at(j)]) <= Time(fs[at(k)])
  BY <1>1, <1>2, <1>5, <1>11 DEF Dated
<1> QED
  BY <1>7, <1>8, <1>9, <1>10, <1>11

-----------------------------------------------------------------------------
(* The inductive invariant, by the stages of the search.                   *)

Pages ==
  /\ search \in Searches /\ phase \in Phases /\ outcome \in Outcomes
  /\ outcome = "none" <=> phase # "done"
  /\ fetch_url \in DOMAIN search /\ visited_urls \subseteq DOMAIN search
  /\ IsFiniteSet(visited_urls) /\ current_page = Cardinality(visited_urls)
  /\ all_features \in Seq(Listed(search))
  /\ phase \in {"open", "local"} => visited_urls = {} /\ ~first_json

(* Nothing is planned yet.                                                 *)
Unplanned ==
  phase \in {"open", "paginate", "plan", "parent", "local"} =>
    /\ set = {} /\ results = <<>> /\ panicked = {}
    /\ times = <<>> /\ last_read = NoRead

(* While pages are fetched, every page so far was a collection, its items   *)
(* were taken, and its link leads to a page of these or to the next one.    *)
Paging ==
  /\ single = "none" /\ (first_json => visited_urls # {})
  /\ ToSet(all_features) = FeaturesOf(visited_urls)
  /\ 1 \in visited_urls \cup {fetch_url}
  /\ visited_urls \cup {fetch_url} \subseteq ReachablePages
  /\ \A u \in visited_urls :
       search[u].type = "collection" /\ search[u].next \subseteq visited_urls \cup {fetch_url}

WholeOrCut ==
  (visited_urls # {} /\ single = "none" /\ first_json
     /\ Cardinality(ReachablePages) <= MaxPages) =>
    ToSet(all_features) = FeaturesOf(ReachablePages)

Searched ==
  IF phase = "paginate" THEN Paging ELSE outcome = "error" \/ WholeOrCut

(* What the header reads are planned for.                                  *)
Planned == phase \in {"headers", "children"} \/ outcome \in {"stack", "group"}

Layout ==
  Planned =>
    /\ sorted # <<>>
    /\ IsStack =>
         /\ Stackable(all_features) /\ sorted = SortedByTime(all_features)
         /\ times = [k \in DOMAIN sorted |-> Time(sorted[k])]
    /\ ~IsStack => ~first_json /\ sorted = <<Item>> /\ times = <<>>

Jobs == sorted[1].cogs \X DOMAIN sorted
Header(job) == [name |-> job[1], idx |-> job[2], cog |-> Cog(sorted[job[2]], job[1])]
Read == {<<results[i].name, results[i].idx>> : i \in DOMAIN results}

(* Every header read is still to be joined, or was read, or has panicked.   *)
Joining ==
  /\ set \cap panicked = {} /\ Read \cap (set \cup panicked) = {}
  /\ phase = "headers" =>
       /\ results \in Seq({Header(job) : job \in Jobs})
       /\ Read \cup set \cup panicked = Jobs

(* Of each asset, the children of the earliest items are built.            *)
Building ==
  phase = "children" =>
    /\ DOMAIN children = sorted[1].cogs /\ panicked = {}
    /\ \A name \in DOMAIN children :
         /\ children[name] \in Seq({Cog(sorted[k], name) : k \in DOMAIN sorted})
         /\ Len(children[name]) <= Len(sorted)
         /\ \A k \in 1 .. Len(children[name]) : children[name][k] = Cog(sorted[k], name)

Opening ==
  /\ outcome = "stack" =>
       /\ IsStack /\ panicked = {}
       /\ DOMAIN children = sorted[1].cogs /\ Uniform(children)
       /\ \A name \in DOMAIN children :
            /\ DOMAIN children[name] = DOMAIN sorted /\ Len(children[name]) = Len(sorted)
            /\ \A k \in DOMAIN sorted : children[name][k] = Cog(sorted[k], name)
  /\ outcome = "group" =>
       DOMAIN children = sorted[1].cogs \ {job[1] : job \in panicked}

Inv ==
  /\ Pages /\ Unplanned /\ Searched /\ ItemsOnce
  /\ Layout /\ Joining /\ Building /\ Opening /\ ReadAtItsTime

-----------------------------------------------------------------------------
(* The pages of a search.                                                  *)

(* What the proofs use of a search: its first page, links and features.      *)
LEMMA SearchFacts ==
  ASSUME search \in Searches
  PROVE  /\ IsFiniteSet(DOMAIN search) /\ 1 \in DOMAIN search
         /\ \A u \in DOMAIN search :
              /\ search[u].features \in Seq(Listed(search))
              /\ search[u].next \subseteq DOMAIN search
              /\ \A v, w \in search[u].next : v = w
         /\ \A f \in Listed(search) :
              f.datetime # {} => Time(f) \in Int /\ f.datetime = {Time(f)}
<1>1. \A f \in Listed(search) : f.datetime \subseteq Int /\ \A t, u \in f.datetime : t = u
  BY SearchAssumption
<1>2. ASSUME NEW f \in Listed(search), f.datetime # {}
      PROVE  Time(f) \in Int /\ f.datetime = {Time(f)}
  <2>1. Time(f) \in f.datetime
    BY <1>2 DEF Time
  <2> QED
    BY <1>1, <2>1
<1> QED
  BY <1>2, SearchAssumption

(* The reachable pages have the first page and no link leads out of them.    *)
LEMMA ReachClosed ==
  ASSUME search \in Searches
  PROVE  /\ 1 \in ReachablePages /\ ReachablePages \subseteq DOMAIN search
         /\ \A u \in ReachablePages : search[u].next \subseteq ReachablePages
  BY SearchFacts DEF ReachablePages

(* They are the fewest such pages.                                         *)
LEMMA ReachLeast ==
  ASSUME NEW pages \in SUBSET DOMAIN search, 1 \in pages,
         \A u \in pages : search[u].next \subseteq pages
  PROVE  ReachablePages \subseteq pages
  BY DEF ReachablePages

(* Once no link leads to a page that was not fetched, all that can be        *)
(* reached were fetched.                                                   *)
LEMMA FetchedAll ==
  ASSUME search \in Searches, NEW urls \in SUBSET ReachablePages, 1 \in urls,
         \A u \in urls : search[u].next \subseteq urls
  PROVE  urls = ReachablePages
  BY ReachClosed, ReachLeast

(* A search that is over, with what was fetched as the whole of it.         *)
LEMMA FetchedWhole ==
  ASSUME visited_urls = ReachablePages, ToSet(all_features) = FeaturesOf(visited_urls)
  PROVE  WholeOrCut
  BY DEF WholeOrCut

(* A page is requested once, and counted.                                  *)
LEMMA RequestCounts ==
  ASSUME Inv, Request
  PROVE  /\ fetch_url \in DOMAIN search /\ fetch_url \notin visited_urls
         /\ phase = "paginate" /\ outcome = "none"
         /\ visited_urls' = visited_urls \cup {fetch_url}
         /\ visited_urls' \subseteq DOMAIN search
         /\ IsFiniteSet(visited_urls') /\ current_page' = Cardinality(visited_urls')
         /\ current_page \in Nat /\ current_page' = current_page + 1
         /\ current_page = 0 => visited_urls = {}
  BY FS_AddElement, FS_EmptySet, FS_CardinalityType DEF Inv, Pages, Request, GiveUp

(* What an action of the pagination leaves alone: nothing is planned.       *)
LEMMA PagingKeepsPlan ==
  ASSUME Inv, phase \in {"open", "paginate", "plan", "parent", "local"},
         phase' \in {"paginate", "plan", "done", "parent"}, outcome' \in {"none", "cog", "plain", "error"},
         UNCHANGED <<headers, store>>
  PROVE  Unplanned' /\ Layout' /\ Joining' /\ Building' /\ Opening' /\ ReadAtItsTime'
  BY DEF Inv, Unplanned, Layout, Planned, Joining, Read, Building, Opening, ReadAtItsTime, NoRead,
         headers, store

(* A collection's page adds its features, each of them once.                *)
LEMMA FetchCollectionKeepsInv ==
  ASSUME Inv, FetchCollection
  PROVE  Inv'
<1>1. /\ Pages /\ Paging /\ ItemsOnce /\ search \in Searches
      /\ Page.type = "collection" /\ all_features' = all_features \o Page.features
      /\ UNCHANGED <<search, single, headers, outcome, store>> /\ first_json' = TRUE
      /\ \/ Page.next = {} /\ phase' = "plan" /\ fetch_url' = fetch_url
         \/ fetch_url' \in Page.next /\ phase' = phase
  BY RequestCounts DEF Inv, Pages, Searched, FetchCollection
<1>2. /\ fetch_url \in DOMAIN search /\ fetch_url \notin visited_urls
      /\ phase = "paginate" /\ outcome = "none"
      /\ visited_urls' = visited_urls \cup {fetch_url}
      /\ visited_urls' \subseteq DOMAIN search
      /\ IsFiniteSet(visited_urls') /\ current_page' = Cardinality(visited_urls')
  BY RequestCounts DEF FetchCollection
<1>3. Page.features \in Seq(Listed(search)) /\ Page.next \subseteq DOMAIN search
  BY <1>1, <1>2, SearchFacts DEF Page
<1>4. /\ all_features \in Seq(Listed(search)) /\ all_features' \in Seq(Listed(search))
      /\ ToSet(all_features') = ToSet(all_features) \cup ToSet(Page.features)
  BY <1>1, <1>3, ToSetConcat, ConcatProperties DEF Pages
<1>5. ToSet(all_features') = FeaturesOf(visited_urls')
  BY <1>1, <1>2, <1>4 DEF Paging, FeaturesOf, Page
<1>6. Pages'
  BY <1>1, <1>2, <1>3, <1>4 DEF Pages, Phases
<1>7. /\ visited_urls' \subseteq ReachablePages /\ 1 \in visited_urls \cup {fetch_url}
      /\ Page.next \subseteq ReachablePages
  BY <1>1, <1>2, ReachClosed DEF Paging, Page
<1>8. Searched'
  <2>1. CASE Page.next = {} /\ phase' = "plan" /\ fetch_url' = fetch_url
    <3>1. visited_urls' = ReachablePages
      BY <1>1, <1>2, <1>7, <2>1, FetchedAll DEF Paging, Page
    <3>2. WholeOrCut'
      BY <1>1, <1>5, <3>1 DEF WholeOrCut, ReachablePages, FeaturesOf
    <3> QED
      BY <2>1, <3>2 DEF Searched
  <2>2. CASE fetch_url' \in Page.next /\ phase' = phase
    <3>1. search[fetch_url].next \subseteq visited_urls' \cup {fetch_url'}
      BY <1>1, <1>2, <2>2, SearchFacts DEF Page
    <3>2. \A u \in visited_urls' :
            search[u].type = "collection" /\ search[u].next \subseteq visited_urls' \cup {fetch_url'}
      BY <1>1, <1>2, <3>1 DEF Paging, Page
    <3>3. ReachablePages' = ReachablePages
      BY <1>1 DEF ReachablePages
    <3>4. Paging'
      BY <1>1, <1>2, <1>5, <1>7, <2>2, <3>2, <3>3 DEF Paging, FeaturesOf
    <3> QED
      BY <1>2, <2>2, <3>4 DEF Searched
  <2> QED
    BY <1>1, <2>1, <2>2
<1>9. ItemsOnce'
  <2> DEFINE F == Page.features
             n == Len(all_features)
  <2>1. /\ DOMAIN all_features = 1 .. n /\ DOMAIN F = 1 .. Len(F)
        /\ n \in Nat /\ Len(F) \in Nat
        /\ Len(all_features \o F) = n + Len(F)
        /\ DOMAIN (all_features \o F) = 1 .. n + Len(F)
        /\ \A i \in 1 .. n + Len(F) :
             (all_features \o F)[i] = IF i <= n THEN all_features[i] ELSE F[i - n]
    BY <1>3, <1>4, ConcatProperties, LenProperties
  <2>2. \A i \in DOMAIN all_features, j \in DOMAIN F : all_features[i].id # F[j].id
    <3> SUFFICES ASSUME NEW i \in DOMAIN all_features, NEW j \in DOMAIN F
                 PROVE  all_features[i].id # F[j].id
      OBVIOUS
    <3>1. all_features[i] \in FeaturesOf(visited_urls)
      BY <1>1 DEF Paging, ToSet
    <3>2. PICK u \in visited_urls : search[u].type = "collection"
                                    /\ all_features[i] \in ToSet(search[u].features)
      BY <3>1 DEF FeaturesOf
    <3>3. PICK k \in DOMAIN search[u].features : all_features[i] = search[u].features[k]
      BY <3>2 DEF ToSet
    <3> QED
      BY <1>1, <1>2, <3>2, <3>3, ItemsDistinct DEF Page, Pages
  <2>3. \A i, j \in DOMAIN F : F[i].id = F[j].id => i = j
    BY <1>1, <1>2, ItemsDistinct DEF Page
  <2> HIDE DEF F, n
  <2>4. \A i, j \in 1 .. n + Len(F) :
          (all_features \o F)[i].id = (all_features \o F)[j].id => i = j
    <3> SUFFICES ASSUME NEW i \in 1 .. n + Len(F), NEW j \in 1 .. n + Len(F),
                        (all_features \o F)[i].id = (all_features \o F)[j].id
                 PROVE  i = j
      OBVIOUS
    <3>1. CASE i <= n /\ j <= n
      <4>1. i \in DOMAIN all_features /\ j \in DOMAIN all_features
        BY <2>1, <3>1
      <4> QED
        BY <1>1, <2>1, <3>1, <4>1 DEF ItemsOnce
    <3>2. CASE i <= n /\ ~(j <= n)
      <4>1. i \in DOMAIN all_features /\ j - n \in DOMAIN F
        BY <2>1, <3>2
      <4> QED
        BY <2>1, <2>2, <3>2, <4>1
    <3>3. CASE ~(i <= n) /\ j <= n
      <4>1. j \in DOMAIN all_features /\ i - n \in DOMAIN F
        BY <2>1, <3>3
      <4> QED
        BY <2>1, <2>2, <3>3, <4>1
    <3>4. CASE ~(i <= n) /\ ~(j <= n)
      <4>1. i - n \in DOMAIN F /\ j - n \in DOMAIN F
        BY <2>1, <3>4
      <4>2. i - n = j - n
        BY <2>1, <2>3, <3>4, <4>1
      <4> QED
        BY <2>1, <4>2
    <3> QED
      BY <2>1, <3>1, <3>2, <3>3, <3>4
  <2> QED
    BY <1>1, <2>1, <2>4 DEF ItemsOnce, F
<1>10. Unplanned' /\ Layout' /\ Joining' /\ Building' /\ Opening' /\ ReadAtItsTime'
  BY <1>1, <1>2, PagingKeepsPlan
<1> QED
  BY <1>6, <1>8, <1>9, <1>10 DEF Inv

(* The pagination stops: on a page that was fetched, nothing is missing.     *)
LEMMA StopPagingKeepsInv ==
  ASSUME Inv, StopPaging
  PROVE  Inv'
<1>1. /\ Pages /\ Paging /\ ItemsOnce /\ search \in Searches
      /\ phase = "paginate" /\ GiveUp /\ phase' = "plan"
      /\ UNCHANGED <<search, paging, headers, outcome, store>>
  BY DEF Inv, Pages, Searched, StopPaging
<1>2. Pages' /\ ItemsOnce'
  BY <1>1 DEF Pages, ItemsOnce, Phases, paging
<1>3. /\ visited_urls \subseteq ReachablePages
      /\ ReachablePages \subseteq DOMAIN search /\ IsFiniteSet(ReachablePages)
      /\ Cardinality(ReachablePages) \in Nat /\ Cardinality(visited_urls) \in Nat
  BY <1>1, ReachClosed, SearchFacts, FS_Subset, FS_CardinalityType DEF Paging, Pages
<1>4. ASSUME Cardinality(ReachablePages) <= MaxPages
      PROVE  visited_urls = ReachablePages
  <2>1. CASE fetch_url \in visited_urls
    BY <1>1, <1>3, <2>1, FetchedAll DEF Paging
  <2>2. CASE current_page >= MaxPages
    <3>1. Cardinality(ReachablePages) <= Cardinality(visited_urls)
      BY <1>1, <1>3, <1>4, <2>2, SearchAssumption DEF Pages
    <3>2. Cardinality(visited_urls) <= Cardinality(ReachablePages)
      BY <1>3, FS_Subset
    <3>3. Cardinality(ReachablePages) = Cardinality(visited_urls)
      BY <1>3, <3>1, <3>2
    <3> QED
      BY <1>3, <3>3, FS_Subset
  <2> QED
    BY <1>1, <2>1, <2>2 DEF GiveUp
<1>5. WholeOrCut
  BY <1>1, <1>4 DEF Paging, WholeOrCut
<1>6. Searched'
  BY <1>1, <1>5 DEF Searched, WholeOrCut, ReachablePages, FeaturesOf, paging
<1>7. Unplanned' /\ Layout' /\ Joining' /\ Building' /\ Opening' /\ ReadAtItsTime'
  BY <1>1, PagingKeepsPlan DEF Pages
<1> QED
  BY <1>2, <1>6, <1>7 DEF Inv

(* A page that is no collection ends the pagination, and the search is known *)
(* to be cut; one that does not come is an error, unless it is the first.    *)
LEMMA FetchOtherKeepsInv ==
  ASSUME Inv, FetchItem \/ FetchErrorBody \/ FetchFails
  PROVE  Inv'
<1>1. /\ fetch_url \in DOMAIN search /\ phase = "paginate" /\ outcome = "none"
      /\ visited_urls' \subseteq DOMAIN search
      /\ IsFiniteSet(visited_urls') /\ current_page' = Cardinality(visited_urls')
      /\ current_page \in Nat /\ current_page' = current_page + 1
      /\ current_page = 0 => visited_urls = {}
  BY RequestCounts DEF FetchItem, FetchErrorBody, FetchSingle, FetchFails
<1>2. /\ UNCHANGED <<search, fetch_url, all_features, first_json, headers, store>>
      /\ \/ phase' = "plan" /\ outcome' = "none" /\ single' \in {"item", "body"}
         \/ phase' = "plan" /\ outcome' = "none" /\ current_page' <= 1
         \/ phase' = "done" /\ outcome' = "error"
  BY <1>1 DEF FetchItem, FetchErrorBody, FetchSingle, FetchFails, Resolve
<1>3. Pages /\ Paging /\ ItemsOnce
  BY <1>1 DEF Inv, Searched
<1>4. Pages' /\ ItemsOnce'
  BY <1>1, <1>2, <1>3 DEF Pages, ItemsOnce, Phases, Outcomes
<1>5. current_page' <= 1 => ~first_json
  BY <1>1, <1>3 DEF Paging
<1>6. Searched'
  BY <1>2, <1>5 DEF Searched, WholeOrCut
<1>7. Unplanned' /\ Layout' /\ Joining' /\ Building' /\ Opening' /\ ReadAtItsTime'
  BY <1>1, <1>2, PagingKeepsPlan
<1> QED
  BY <1>4, <1>6, <1>7 DEF Inv

(* What the search has gathered, once its pages are fetched.                *)
LEMMA GatheredKept ==
  ASSUME Inv, phase # "paginate", phase' \in Phases \ {"paginate", "open", "local"},
         outcome' \in Outcomes, outcome' = "none" <=> phase' # "done",
         phase \in {"open", "local"} \/ outcome # "error",
         UNCHANGED <<search, paging>>
  PROVE  Pages' /\ Searched' /\ ItemsOnce'
<1>1. Pages' /\ ItemsOnce'
  BY DEF Inv, Pages, ItemsOnce, paging
<1>2. WholeOrCut'
  BY DEF Inv, Searched, Pages, WholeOrCut, ReachablePages, FeaturesOf, paging
<1> QED
  BY <1>1, <1>2 DEF Searched

(* A source that is no STAC source, and every error, ends the resolution.   *)
LEMMA EndKeepsInv ==
  ASSUME Inv, phase \notin {"paginate", "done"}, phase' = "done",
         outcome' \in {"cog", "plain", "error"},
         UNCHANGED <<search, paging, sorted, results, panicked, store>>,
         set' \subseteq set
  PROVE  Inv'
<1>1. Pages' /\ Searched' /\ ItemsOnce'
  BY GatheredKept DEF Inv, Pages, Phases, Outcomes
<1>2. Unplanned' /\ Layout' /\ Joining' /\ Building' /\ Opening' /\ ReadAtItsTime'
  BY DEF Inv, Unplanned, Layout, Planned, Joining, Read, Building, Opening, ReadAtItsTime, store, paging
<1> QED
  BY <1>1, <1>2 DEF Inv

(* The actions that end the resolution so.                                 *)
Ends ==
  \/ OpenDirect \/ RejectStack \/ TryParent \/ RejectAssembly
  \/ PathRefused \/ OpenFile \/ RejectDocument \/ BuildFails
  \/ \E job \in set : HeaderFails(job)

(* They keep the invariant.                                                *)
LEMMA EndsKeepInv ==
  ASSUME Inv, Ends
  PROVE  Inv'
<1>1. /\ phase \notin {"paginate", "done"} /\ phase' = "done"
      /\ outcome' \in {"cog", "plain", "error"}
      /\ UNCHANGED <<search, paging, sorted, results, panicked, store>>
      /\ set' \subseteq set
  BY DEF Ends, OpenDirect, RejectStack, TryParent, RejectAssembly, PathRefused, OpenFile,
         RejectDocument, BuildFails, HeaderFails, JoinNext, Joined, ResolveFile, Resolve, headers
<1> QED
  BY <1>1, EndKeepsInv

-----------------------------------------------------------------------------
(* The header reads.                                                       *)

(* The features of a stack, in time order.                                 *)
LEMMA Stacked ==
  ASSUME search \in Searches, NEW fs \in Seq(Listed(search)), Stackable(fs)
  PROVE  /\ DOMAIN fs = 1 .. Len(fs) /\ Len(fs) \in Nat \ {0}
         /\ DOMAIN SortedByTime(fs) = DOMAIN fs
         /\ SortedByTime(fs) \in Seq(Listed(search)) /\ SortedByTime(fs) # <<>>
         /\ Len(SortedByTime(fs)) = Len(fs)
         /\ ToSet(SortedByTime(fs)) = ToSet(fs)
         /\ \A j, k \in DOMAIN fs : j < k =>
              Time(SortedByTime(fs)[j]) <= Time(SortedByTime(fs)[k])
         /\ \A f \in ToSet(fs) : f.datetime = {Time(f)}
         /\ \A f \in ToSet(fs) : SortedByTime(fs)[1].cogs \subseteq f.cogs
<1>1. DOMAIN fs = 1 .. Len(fs) /\ Len(fs) \in Nat \ {0}
  BY LenProperties, EmptySeq DEF Stackable
<1>2. \A i \in DOMAIN fs : fs[i] \in Listed(search) /\ fs[i].datetime # {}
  BY <1>1, ElementOfSeq DEF Stackable
<1>3. Dated(fs) /\ \A i \in DOMAIN fs : fs[i].datetime = {Time(fs[i])}
  BY <1>2, SearchFacts DEF Dated
<1>4. SortedByTime(fs) # <<>>
  BY <1>1, <1>3, SortedFeatures, EmptySeq
<1>5. \A i \in DOMAIN fs : SortedByTime(fs)[1].cogs \subseteq fs[i].cogs
  BY DEF Stackable
<1> QED
  BY <1>1, <1>3, <1>4, <1>5, SortedFeatures DEF ToSet

(* The reads are planned for the features of a stack, or for one item.       *)
LEMMA PlanKeepsInv ==
  ASSUME Inv, PlanStack \/ PlanGroup
  PROVE  Inv'
<1>1. /\ phase = "plan" /\ phase' = "headers" /\ outcome = "none" /\ outcome' = "none"
      /\ UNCHANGED <<search, paging, results, panicked, children, last_read>>
      /\ results = <<>> /\ panicked = {} /\ times = <<>>
      /\ search \in Searches /\ all_features \in Seq(Listed(search))
      /\ last_read = NoRead
  BY DEF Inv, Pages, Unplanned, PlanStack, PlanGroup, store
<1>2. Pages' /\ Searched' /\ ItemsOnce'
  BY <1>1, GatheredKept DEF Phases, Outcomes
<1>3. sorted' # <<>> /\ set' = Jobs' /\ Layout'
  <2>1. CASE PlanStack
    <3>1. sorted' = SortedByTime(all_features) /\ Stackable(all_features) /\ IsStack
      BY <2>1 DEF PlanStack
    <3>2. set' = Jobs' /\ times' = [k \in DOMAIN sorted' |-> Time(sorted'[k])]
      BY <2>1 DEF PlanStack, Jobs
    <3> QED
      BY <1>1, <3>1, <3>2, Stacked DEF Layout, IsStack, paging
  <2>2. CASE PlanGroup
    <3>1. /\ sorted' = <<Item>> /\ set' = Item.cogs \X {1} /\ ~first_json
          /\ times' = times
      BY <2>2 DEF PlanGroup, IsGroup, store
    <3>2. DOMAIN sorted' = {1} /\ sorted'[1] = Item
      BY <3>1
    <3> QED
      BY <1>1, <3>1, <3>2 DEF Layout, IsStack, paging, Item, Jobs
  <2> QED
    BY <2>1, <2>2
<1>4. Joining'
  <2>1. Read' = {}
    BY <1>1 DEF Read
  <2>2. results' \in Seq({Header(job)' : job \in Jobs'})
    BY <1>1
  <2> QED
    BY <1>1, <1>3, <2>1, <2>2 DEF Joining
<1>5. Unplanned' /\ Building' /\ Opening' /\ ReadAtItsTime'
  BY <1>1 DEF Unplanned, Building, Opening, ReadAtItsTime, NoRead
<1> QED
  BY <1>2, <1>3, <1>4, <1>5 DEF Inv

(* What is no STAC source goes on with its parent.                         *)
LEMMA NoStacKeepsInv ==
  ASSUME Inv, NoStac
  PROVE  Inv'
<1>1. /\ phase = "plan" /\ phase' = "parent" /\ outcome = "none" /\ outcome' = "none"
      /\ UNCHANGED <<search, paging, headers, store>>
  BY DEF Inv, Pages, NoStac
<1> QED
  BY <1>1, GatheredKept, PagingKeepsPlan DEF Inv, Phases, Outcomes

(* One more header is read.                                                *)
LEMMA AppendHeader ==
  ASSUME NEW S, NEW seq \in Seq(S), NEW x \in S
  PROVE  /\ Append(seq, x) \in Seq(S)
         /\ Len(Append(seq, x)) = Len(seq) + 1
         /\ \A i \in 1 .. Len(seq) : Append(seq, x)[i] = seq[i]
         /\ Append(seq, x)[Len(seq) + 1] = x
         /\ DOMAIN seq = 1 .. Len(seq) /\ Len(seq) \in Nat
         /\ DOMAIN Append(seq, x) = 1 .. Len(seq) + 1
  BY AppendProperties, LenProperties

(* A header is joined: it was read, or its task panicked.                   *)
LEMMA JoinKeepsInv ==
  ASSUME Inv, NEW job \in set, HeaderRead(job) \/ HeaderPanics(job)
  PROVE  Inv'
<1>1. /\ phase = "headers" /\ phase' = "headers" /\ outcome = "none" /\ outcome' = "none"
      /\ UNCHANGED <<search, paging, sorted, store>> /\ set' = set \ {job}
  BY DEF Inv, Pages, HeaderRead, HeaderPanics, JoinNext
<1>2. Pages' /\ Searched' /\ ItemsOnce'
  BY <1>1, GatheredKept DEF Phases, Outcomes
<1>3. Unplanned' /\ Layout' /\ Building' /\ Opening' /\ ReadAtItsTime'
  BY <1>1 DEF Inv, Unplanned, Layout, Planned, Building, Opening, ReadAtItsTime, IsStack, Item, paging, store
<1>4. /\ Joining /\ job \in Jobs /\ Jobs' = Jobs
      /\ results \in Seq({Header(j) : j \in Jobs}) /\ Read \cup set \cup panicked = Jobs
  BY <1>1 DEF Inv, Joining, Jobs
<1>5. {Header(j) : j \in Jobs}' = {Header(j) : j \in Jobs}
  BY <1>1 DEF Header, Jobs
<1>6. CASE HeaderPanics(job)
  <2>1. panicked' = panicked \cup {job} /\ results' = results
    BY <1>6 DEF HeaderPanics
  <2>2. Read' = Read
    BY <2>1 DEF Read
  <2>3. Joining'
    BY <1>1, <1>4, <1>5, <2>1, <2>2 DEF Joining
  <2> QED
    BY <1>2, <1>3, <2>3 DEF Inv
<1>7. CASE HeaderRead(job)
  <2> DEFINE r == Header(job)
  <2>1. /\ results' = Append(results, r) /\ panicked' = panicked
        /\ r \in {Header(j) : j \in Jobs}
    BY <1>4, <1>7 DEF HeaderRead, Header
  <2>2. r.name = job[1] /\ r.idx = job[2] /\ <<job[1], job[2]>> = job
    BY <1>4 DEF Header, Jobs
  <2> HIDE DEF r
  <2>3. /\ results' \in Seq({Header(j) : j \in Jobs})
        /\ \A i \in DOMAIN results : results'[i] = results[i]
        /\ results'[Len(results) + 1] = r
        /\ DOMAIN results' = DOMAIN results \cup {Len(results) + 1}
    BY <1>4, <2>1, AppendHeader
  <2>4. Read' = Read \cup {job}
    BY <2>2, <2>3 DEF Read
  <2>6. Jobs' = Jobs /\ {Header(j) : j \in Jobs}' = {Header(j) : j \in Jobs}
    BY <1>1 DEF Jobs, Header
  <2>7. set' \cap panicked' = {} /\ Read' \cap (set' \cup panicked') = {}
    BY <1>1, <1>4, <1>5, <2>1, <2>4 DEF Joining
  <2>8. phase' = "headers" => Read' \cup set' \cup panicked' = Jobs'
    BY <1>1, <1>4, <1>5, <2>1, <2>4, <2>6 DEF Joining
  <2>5. Joining'
    BY <2>3, <2>6, <2>7, <2>8 DEF Joining
  <2> QED
    BY <1>2, <1>3, <2>5 DEF Inv
<1> QED
  BY <1>6, <1>7

(* Once all reads are joined, a slot has the header of its item and asset,   *)
(* or nothing when its read panicked.                                      *)
LEMMA Slots ==
  ASSUME Inv, Joined
  PROVE  /\ Read \cup panicked = Jobs /\ Read \cap panicked = {}
         /\ \A name \in sorted[1].cogs, k \in DOMAIN sorted :
              /\ Slot(name, k) \subseteq {Cog(sorted[k], name)}
              /\ Slot(name, k) # {} <=> <<name, k>> \in Read
<1>1. /\ Read \cup panicked = Jobs /\ Read \cap panicked = {}
      /\ results \in Seq({Header(j) : j \in Jobs})
  BY DEF Inv, Joining, Joined
<1>2. \A i \in DOMAIN results : \E j \in Jobs : results[i] = Header(j)
  BY <1>1, ElementOfSeq, LenProperties
<1>3. \A i \in DOMAIN results :
        results[i].cog = Cog(sorted[results[i].idx], results[i].name)
  BY <1>2 DEF Header
<1> QED
  BY <1>1, <1>3 DEF Slot, Read

(* A stack is put together from the slots, whatever order the headers came   *)
(* in.                                                                     *)
LEMMA AssembleStackKeepsInv ==
  ASSUME Inv, AssembleStack
  PROVE  Inv'
<1>1. /\ phase = "headers" /\ phase' = "done" /\ outcome = "none" /\ outcome' = "stack"
      /\ Joined /\ IsStack /\ Complete /\ Uniform(StackChildren)
      /\ children' = StackChildren
      /\ UNCHANGED <<search, paging, headers, times, last_read>>
  BY DEF Inv, Pages, AssembleStack, Resolve, Joined
<1>2. Pages' /\ Searched' /\ ItemsOnce'
  BY <1>1, GatheredKept DEF Phases, Outcomes
<1>3. Unplanned' /\ Layout' /\ Joining' /\ Building' /\ ReadAtItsTime'
  BY <1>1 DEF Inv, Unplanned, Layout, Planned, Joining, Read, Building, ReadAtItsTime, IsStack,
         paging, headers
<1>4. /\ DOMAIN sorted = 1 .. Len(sorted) /\ Len(sorted) \in Nat
  BY <1>1, Stacked DEF Inv, Pages, Layout, Planned
<1>5. \A name \in sorted[1].cogs, k \in DOMAIN sorted :
        (CHOOSE c \in Slot(name, k) : TRUE) = Cog(sorted[k], name)
  BY <1>1, Slots DEF Complete
<1>6. /\ DOMAIN children' = sorted[1].cogs
      /\ \A name \in sorted[1].cogs :
           children'[name] = [k \in DOMAIN sorted |-> CHOOSE c \in Slot(name, k) : TRUE]
  BY <1>1 DEF StackChildren
<1>7. ASSUME NEW name \in sorted[1].cogs
      PROVE  /\ DOMAIN children'[name] = DOMAIN sorted
             /\ Len(children'[name]) = Len(sorted)
             /\ \A k \in DOMAIN sorted : children'[name][k] = Cog(sorted[k], name)
  <2>1. /\ DOMAIN children'[name] = DOMAIN sorted
        /\ \A k \in DOMAIN sorted : children'[name][k] = Cog(sorted[k], name)
    BY <1>5, <1>6
  <2>2. children'[name] \in [1 .. Len(sorted) -> {Cog(sorted[k], name) : k \in DOMAIN sorted}]
    <3>1. children'[name] = [k \in 1 .. Len(sorted) |-> children'[name][k]]
      BY <1>4, <1>6
    <3>2. \A k \in 1 .. Len(sorted) : children'[name][k] \in {Cog(sorted[i], name) : i \in DOMAIN sorted}
      BY <1>4, <2>1
    <3> QED
      BY <3>1, <3>2
  <2>3. Len(children'[name]) = Len(sorted)
    BY <1>4, <2>2, SeqDef, LenProperties
  <2> QED
    BY <2>1, <2>3
<1>8. panicked = {}
  BY <1>1, Slots DEF Complete, Jobs
<1>9. Opening'
  BY <1>1, <1>6, <1>7, <1>8 DEF Opening, IsStack, paging, headers, Uniform, Cog
<1> QED
  BY <1>2, <1>3, <1>9 DEF Inv

(* A group has the assets whose headers were read.                         *)
LEMMA AssembleGroupKeepsInv ==
  ASSUME Inv, AssembleGroup
  PROVE  Inv'
<1>1. /\ phase = "headers" /\ phase' = "done" /\ outcome = "none" /\ outcome' = "group"
      /\ Joined /\ ~IsStack
      /\ DOMAIN children' = {results[i].name : i \in DOMAIN results}
      /\ UNCHANGED <<search, paging, headers, times, last_read>>
  BY DEF Inv, Pages, AssembleGroup, Resolve, Joined
<1>2. Pages' /\ Searched' /\ ItemsOnce'
  BY <1>1, GatheredKept DEF Phases, Outcomes
<1>3. Unplanned' /\ Layout' /\ Joining' /\ Building' /\ ReadAtItsTime'
  BY <1>1 DEF Inv, Unplanned, Layout, Planned, Joining, Read, Building, ReadAtItsTime, IsStack,
         Item, paging, headers
<1>4. sorted = <<Item>>
  BY <1>1 DEF Inv, Layout, Planned
<1>5. Jobs = sorted[1].cogs \X {1}
  BY <1>4 DEF Jobs
<1>6. \A name : name \in {results[i].name : i \in DOMAIN results} <=> \E k : <<name, k>> \in Read
  BY DEF Read
<1>7. DOMAIN children' = sorted[1].cogs \ {job[1] : job \in panicked}
  <2>1. Read \cup panicked = sorted[1].cogs \X {1} /\ Read \cap panicked = {}
    BY <1>1, <1>5, Slots
  <2>2. \A name : (\E k : <<name, k>> \in Read) <=> <<name, 1>> \in Read
    BY <2>1
  <2>3. \A name : name \in {job[1] : job \in panicked} <=> <<name, 1>> \in panicked
    <3>1. \A job \in panicked : job = <<job[1], 1>>
      BY <2>1
    <3> QED
      BY <3>1
  <2>4. \A name : <<name, 1>> \in Read \cup panicked <=> name \in sorted[1].cogs
    BY <2>1
  <2> QED
    BY <1>1, <1>6, <2>1, <2>2, <2>3, <2>4
<1>8. Opening'
  BY <1>1, <1>7 DEF Opening, headers
<1> QED
  BY <1>2, <1>3, <1>8 DEF Inv

-----------------------------------------------------------------------------
(* A local document.                                                       *)

(* A collection's items are sorted, and no child is built yet.              *)
LEMMA OpenCollectionKeepsInv ==
  ASSUME Inv, OpenCollection
  PROVE  Inv'
<1>1. /\ phase = "local" /\ phase' = "children" /\ outcome = "none" /\ outcome' = "none"
      /\ search \in Searches /\ visited_urls = {}
      /\ Document.type = "collection" /\ Stackable(Document.features)
      /\ all_features' = Document.features /\ first_json' = TRUE
      /\ sorted' = SortedByTime(Document.features)
      /\ times' = [k \in DOMAIN sorted' |-> Time(sorted'[k])]
      /\ children' = [name \in sorted'[1].cogs |-> <<>>]
      /\ UNCHANGED <<search, fetch_url, visited_urls, current_page, set, results, panicked,
                     last_read>>
      /\ results = <<>> /\ panicked = {} /\ set = {} /\ last_read = NoRead
  BY DEF Inv, Pages, Unplanned, OpenCollection
<1>2. Document.features \in Seq(Listed(search))
  BY <1>1, SearchFacts DEF Document
<1>3. Pages' /\ Searched'
  BY <1>1, <1>2 DEF Inv, Pages, Phases, Outcomes, Searched, WholeOrCut
<1>4. ItemsOnce'
  BY <1>1, SearchFacts, ItemsDistinct DEF Document, ItemsOnce
<1>5. /\ sorted' # <<>> /\ DOMAIN sorted' = 1 .. Len(sorted') /\ Len(sorted') \in Nat
      /\ all_features' # <<>>
  BY <1>1, <1>2, Stacked, EmptySeq
<1>6. Layout'
  BY <1>1, <1>5 DEF Layout, IsStack
<1>7. Building'
  BY <1>1, <1>5, EmptySeq DEF Building
<1>8. Unplanned' /\ Joining' /\ Opening' /\ ReadAtItsTime'
  BY <1>1 DEF Inv, Unplanned, Joining, Read, Opening, ReadAtItsTime, NoRead
<1> QED
  BY <1>3, <1>4, <1>6, <1>7, <1>8 DEF Inv

(* So with a single item.                                                  *)
LEMMA OpenItemKeepsInv ==
  ASSUME Inv, OpenItem
  PROVE  Inv'
<1>1. /\ phase = "local" /\ phase' = "children" /\ outcome = "none" /\ outcome' = "none"
      /\ sorted' = <<Item>> /\ children' = [name \in Item.cogs |-> <<>>]
      /\ UNCHANGED <<search, paging, set, results, panicked, times, last_read>>
      /\ results = <<>> /\ panicked = {} /\ set = {} /\ times = <<>> /\ last_read = NoRead
  BY DEF Inv, Pages, Unplanned, OpenItem
<1>2. Pages' /\ Searched' /\ ItemsOnce'
  BY <1>1, GatheredKept DEF Phases, Outcomes
<1>3. sorted' # <<>> /\ sorted'[1] = Item /\ Len(sorted') = 1
  BY <1>1
<1>4. ~IsStack' /\ ~first_json'
  BY <1>1 DEF Inv, Pages, IsStack, paging
<1>5. Layout'
  BY <1>1, <1>3, <1>4 DEF Layout, Item, paging
<1>6. Building'
  BY <1>1, <1>3, EmptySeq DEF Building
<1>7. Unplanned' /\ Joining' /\ Opening' /\ ReadAtItsTime'
  BY <1>1 DEF Inv, Unplanned, Joining, Read, Opening, ReadAtItsTime, NoRead
<1> QED
  BY <1>2, <1>5, <1>6, <1>7 DEF Inv

(* The child of the next item is added to its asset.                        *)
LEMMA BuildChildKeepsInv ==
  ASSUME Inv, NEW name \in DOMAIN children, BuildChild(name)
  PROVE  Inv'
<1> DEFINE C(n) == {Cog(sorted[k], n) : k \in DOMAIN sorted}
           built == children[name]
           next == Cog(sorted[Len(built) + 1], name)
<1>1. /\ phase = "children" /\ phase' = "children" /\ outcome = "none" /\ outcome' = "none"
      /\ Len(built) < Len(sorted)
      /\ children' = [children EXCEPT ![name] = Append(built, next)]
      /\ UNCHANGED <<search, paging, headers, times, last_read>>
  BY DEF Inv, Pages, BuildChild
<1>2. Pages' /\ Searched' /\ ItemsOnce'
  BY <1>1, GatheredKept DEF Phases, Outcomes
<1>3. Unplanned' /\ Layout' /\ Joining' /\ Opening' /\ ReadAtItsTime'
  BY <1>1 DEF Inv, Unplanned, Layout, Planned, Joining, Opening, ReadAtItsTime, Read, IsStack,
         Item, paging, headers
<1>4. /\ built \in Seq(C(name)) /\ DOMAIN sorted = 1 .. Len(sorted) /\ Len(sorted) \in Nat
      /\ \A k \in 1 .. Len(built) : built[k] = Cog(sorted[k], name)
  <2>1. CASE IsStack
    BY <1>1, <2>1, Stacked DEF Inv, Pages, Layout, Planned, Building
  <2>2. CASE ~IsStack
    <3>1. sorted = <<Item>>
      BY <1>1, <2>2 DEF Inv, Layout, Planned
    <3>2. DOMAIN sorted = 1 .. Len(sorted) /\ Len(sorted) = 1
      BY <3>1
    <3> QED
      BY <1>1, <3>2 DEF Inv, Building
  <2> QED
    BY <2>1, <2>2
<1>5. Len(built) \in Nat /\ Len(built) + 1 \in DOMAIN sorted
  BY <1>1, <1>4, LenProperties
<1>6. next \in C(name)
  BY <1>5
<1> HIDE DEF C, built, next
<1>7. /\ Append(built, next) \in Seq(C(name)) /\ Len(Append(built, next)) = Len(built) + 1
      /\ \A k \in 1 .. Len(built) : Append(built, next)[k] = built[k]
      /\ Append(built, next)[Len(built) + 1] = next
  BY <1>4, <1>6, AppendHeader
<1>8. \A k \in 1 .. Len(built) + 1 : Append(built, next)[k] = Cog(sorted[k], name)
  BY <1>4, <1>5, <1>7 DEF next
<1>9. /\ DOMAIN children' = DOMAIN children /\ children'[name] = Append(built, next)
      /\ \A n \in DOMAIN children \ {name} : children'[n] = children[n]
      /\ sorted' = sorted /\ panicked' = panicked
  BY <1>1 DEF headers
<1>10. /\ Append(built, next) \in Seq(C(name))
       /\ Len(Append(built, next)) <= Len(sorted)
       /\ \A k \in 1 .. Len(Append(built, next)) : Append(built, next)[k] = Cog(sorted[k], name)
  BY <1>1, <1>4, <1>5, <1>7, <1>8
<1>11. Building'
  <2>1. DOMAIN children = sorted[1].cogs /\ panicked = {}
    BY <1>1 DEF Inv, Building
  <2>2. ASSUME NEW n \in DOMAIN children \ {name}
        PROVE  /\ children'[n] \in Seq(C(n)) /\ Len(children'[n]) <= Len(sorted)
               /\ \A k \in 1 .. Len(children'[n]) : children'[n][k] = Cog(sorted[k], n)
    BY <1>1, <1>9 DEF Inv, Building, C
  <2>3. \A n \in DOMAIN children' :
          /\ children'[n] \in Seq(C(n)) /\ Len(children'[n]) <= Len(sorted)
          /\ \A k \in 1 .. Len(children'[n]) : children'[n][k] = Cog(sorted[k], n)
    BY <1>9, <1>10, <2>2
  <2>4. \A n : C(n) = {Cog(sorted'[k], n) : k \in DOMAIN sorted'}
    BY <1>9 DEF C
  <2> QED
    BY <1>9, <2>1, <2>3, <2>4 DEF Building
<1> QED
  BY <1>2, <1>3, <1>11 DEF Inv

(* A document whose children are all built is opened, unless the grids of a  *)
(* stack differ.                                                           *)
LEMMA FinishLocalKeepsInv ==
  ASSUME Inv, FinishLocal
  PROVE  Inv'
<1>1. /\ phase = "children" /\ phase' = "done" /\ outcome = "none" /\ Built
      /\ outcome' = IF ~first_json THEN "group" ELSE IF Uniform(children) THEN "stack" ELSE "error"
      /\ UNCHANGED <<search, paging, headers, store>>
  BY DEF Inv, Pages, FinishLocal, Resolve
<1>2. Pages' /\ Searched' /\ ItemsOnce'
  BY <1>1, GatheredKept DEF Phases, Outcomes
<1>3. Unplanned' /\ Layout' /\ Joining' /\ Building' /\ ReadAtItsTime'
  BY <1>1 DEF Inv, Unplanned, Layout, Planned, Joining, Read, Building, ReadAtItsTime, IsStack,
         Item, paging, headers, store
<1>4. DOMAIN children = sorted[1].cogs /\ panicked = {}
  BY <1>1 DEF Inv, Building
<1>5. CASE outcome' = "stack"
  <2>1. first_json /\ Uniform(children)
    BY <1>1, <1>5
  <2>2. IsStack /\ DOMAIN sorted = 1 .. Len(sorted)
    BY <1>1, <2>1, Stacked DEF Inv, Pages, Layout, Planned
  <2>3. \A name \in DOMAIN children :
          /\ DOMAIN children[name] = DOMAIN sorted /\ Len(children[name]) = Len(sorted)
          /\ \A k \in DOMAIN sorted : children[name][k] = Cog(sorted[k], name)
    BY <1>1, <2>2, LenProperties DEF Inv, Building, Built
  <2>4. Opening'
    BY <1>1, <1>4, <1>5, <2>1, <2>2, <2>3 DEF Opening, IsStack, Uniform, Cog, paging, headers, store
  <2> QED
    BY <1>2, <1>3, <2>4 DEF Inv
<1>6. CASE outcome' # "stack"
  <2>1. Opening'
    BY <1>1, <1>4, <1>6 DEF Opening, headers, store
  <2> QED
    BY <1>2, <1>3, <2>1 DEF Inv
<1> QED
  BY <1>5, <1>6

-----------------------------------------------------------------------------
(* Reading.                                                                *)

(* In an open stack, the slices and the time axis are those of the same      *)
(* items, which are all that were gathered.                                *)
LEMMA SlicesOfStack ==
  ASSUME Inv, outcome = "stack"
  PROVE  /\ ToSet(sorted) = ToSet(all_features) /\ DOMAIN times = DOMAIN sorted
         /\ DOMAIN children = sorted[1].cogs
         /\ \A j, k \in DOMAIN times : j < k => times[j] <= times[k]
         /\ \A k \in DOMAIN times :
              /\ sorted[k] \in ToSet(all_features) /\ sorted[k].datetime = {times[k]}
              /\ sorted[1].cogs \subseteq sorted[k].cogs
         /\ \A name \in DOMAIN children :
              /\ DOMAIN children[name] = DOMAIN times
              /\ \A k \in DOMAIN times :
                   /\ children[name][k].item = sorted[k].id
                   /\ children[name][k].asset = name
<1>1. /\ search \in Searches /\ all_features \in Seq(Listed(search))
      /\ Stackable(all_features) /\ sorted = SortedByTime(all_features)
      /\ times = [k \in DOMAIN sorted |-> Time(sorted[k])]
      /\ DOMAIN children = sorted[1].cogs
      /\ \A name \in DOMAIN children :
           /\ DOMAIN children[name] = DOMAIN sorted
           /\ \A k \in DOMAIN sorted : children[name][k] = Cog(sorted[k], name)
  BY DEF Inv, Pages, Layout, Planned, Opening
<1>2. \A f, name : Cog(f, name).item = f.id /\ Cog(f, name).asset = name
  BY DEF Cog
<1>3. /\ DOMAIN sorted = DOMAIN all_features /\ ToSet(sorted) = ToSet(all_features)
      /\ \A j, k \in DOMAIN all_features : j < k => Time(sorted[j]) <= Time(sorted[k])
      /\ \A f \in ToSet(all_features) : f.datetime = {Time(f)}
      /\ \A f \in ToSet(all_features) : sorted[1].cogs \subseteq f.cogs
  BY <1>1, Stacked
<1>4. \A k \in DOMAIN sorted : sorted[k] \in ToSet(all_features)
  BY <1>3 DEF ToSet
<1> QED
  BY <1>1, <1>2, <1>3, <1>4

(* A chunk read from a stack is of an item of its time, or fill values.      *)
LEMMA ReadChunkKeepsInv ==
  ASSUME Inv, NEW name \in DOMAIN children, NEW k \in DOMAIN times, ReadChunk(name, k)
  PROVE  Inv'
<1>1. /\ outcome = "stack" /\ phase = "done"
      /\ UNCHANGED <<search, phase, paging, headers, outcome, times, children>>
  BY DEF Inv, Pages, ReadChunk
<1>2. Pages' /\ Searched' /\ ItemsOnce'
  BY <1>1, GatheredKept DEF Inv, Pages, Phases, Outcomes
<1>3. Unplanned' /\ Layout' /\ Joining' /\ Building' /\ Opening'
  BY <1>1 DEF Inv, Unplanned, Layout, Planned, Joining, Read, Building, Opening, IsStack, Item,
         paging, headers
<1>4. PICK item \in {children[name][k].item, Fill} :
        last_read' = [asset |-> name, time |-> times[k], item |-> item]
  BY DEF ReadChunk
<1>5. last_read'.asset = name /\ last_read'.time = times[k] /\ last_read'.item = item
  BY <1>4
<1>6. /\ sorted[k] \in ToSet(all_features) /\ sorted[k].datetime = {times[k]}
      /\ name \in sorted[k].cogs /\ children[name][k].item = sorted[k].id
  BY <1>1, SlicesOfStack
<1>7. ReadAtItsTime'
  BY <1>1, <1>4, <1>5, <1>6 DEF ReadAtItsTime, paging
<1> QED
  BY <1>2, <1>3, <1>7 DEF Inv

-----------------------------------------------------------------------------
(* The invariant holds before anything is opened.                           *)
LEMMA InitInv == Init => Inv
<1> SUFFICES ASSUME Init PROVE Inv
  OBVIOUS
<1>1. search \in Searches /\ 1 \in DOMAIN search
  BY SearchFacts DEF Init
<1>2. Pages
  BY <1>1, FS_EmptySet, EmptySeq DEF Init, Pages, Phases, Outcomes
<1>3. ToSet(all_features) = {} /\ FeaturesOf(visited_urls) = {} /\ Read = {}
  BY DEF Init, ToSet, FeaturesOf, Read
<1>4. Searched
  BY <1>1, <1>3, ReachClosed DEF Init, Searched, Paging, WholeOrCut
<1>5. ItemsOnce /\ Unplanned /\ Layout /\ Joining /\ Building /\ Opening
  BY <1>3 DEF Init, ItemsOnce, Unplanned, Layout, Planned, Joining, Building, Opening
<1>6. ReadAtItsTime
  BY DEF Init, ReadAtItsTime, NoRead
<1> QED
  BY <1>2, <1>4, <1>5, <1>6 DEF Inv

(* A step that changes nothing keeps it.                                    *)
LEMMA StutterKeepsInv ==
  ASSUME Inv, UNCHANGED vars
  PROVE  Inv'
<1>1. Pages' /\ ItemsOnce' /\ Unplanned' /\ ReadAtItsTime'
  BY DEF vars, Inv, Pages, ItemsOnce, Unplanned, ReadAtItsTime
<1>2. Searched'
  BY DEF vars, Inv, Searched, Paging, WholeOrCut, ReachablePages, FeaturesOf
<1>3. Layout' /\ Opening'
  BY DEF vars, Inv, Layout, Planned, Opening, IsStack, Item
<1>4. Joining'
  <2>1. /\ UNCHANGED <<phase, set, panicked, results>> /\ Read' = Read /\ Jobs' = Jobs
        /\ {Header(job) : job \in Jobs}' = {Header(job) : job \in Jobs}
    BY DEF vars, Read, Jobs, Header
  <2> QED
    BY <2>1 DEF Inv, Joining
<1>5. Building'
  <2> DEFINE C(n) == {Cog(sorted[k], n) : k \in DOMAIN sorted}
  <2>1. UNCHANGED <<phase, children, sorted, panicked>>
    BY DEF vars
  <2>2. \A n : C(n) = {Cog(sorted'[k], n) : k \in DOMAIN sorted'}
    BY <2>1
  <2>3. phase = "children" => \A n \in DOMAIN children : children[n] \in Seq(C(n))
    BY DEF Inv, Building
  <2> HIDE DEF C
  <2> QED
    BY <2>1, <2>2, <2>3 DEF Inv, Building
<1> QED
  BY <1>1, <1>2, <1>3, <1>4, <1>5 DEF Inv

(* Every step keeps it.                                                    *)
LEMMA NextInv == Inv /\ [Next]_vars => Inv'
<1> SUFFICES ASSUME Inv, [Next]_vars PROVE Inv'
  OBVIOUS
<1>1. CASE OpenDirect
  BY <1>1, EndsKeepInv DEF Ends
<1>2. CASE Paginate
  BY <1>2, StopPagingKeepsInv, FetchCollectionKeepsInv, FetchOtherKeepsInv DEF Paginate
<1>3. CASE Plan
  BY <1>3, PlanKeepsInv, NoStacKeepsInv, EndsKeepInv DEF Plan, Ends
<1>4. CASE Headers
  BY <1>4, JoinKeepsInv, EndsKeepInv DEF Headers, Ends
<1>5. CASE Assemble
  BY <1>5, AssembleStackKeepsInv, AssembleGroupKeepsInv, EndsKeepInv DEF Assemble, Ends
<1>6. CASE Local
  BY <1>6, OpenCollectionKeepsInv, OpenItemKeepsInv, BuildChildKeepsInv, FinishLocalKeepsInv,
     EndsKeepInv DEF Local, Ends
<1>7. CASE \E name \in DOMAIN children : \E k \in DOMAIN times : ReadChunk(name, k)
  BY <1>7, ReadChunkKeepsInv
<1>8. CASE Opened \/ UNCHANGED vars
  BY <1>8, StutterKeepsInv DEF Opened
<1> QED
  BY <1>1, <1>2, <1>3, <1>4, <1>5, <1>6, <1>7, <1>8 DEF Next

(* It is an invariant of the resolution.                                   *)
LEMMA InvHolds == Spec => []Inv
  BY InitInv, NextInv, PTL DEF Spec

(* The resolution is in one of its stages, counts the pages it has asked for, *)
(* and loses or repeats no header read.                                    *)
THEOREM SearchTyped == Spec => []TypeOK
<1>1. Inv => TypeOK
  <2> SUFFICES ASSUME Inv PROVE TypeOK
    OBVIOUS
  <2>1. \A i \in DOMAIN results : <<results[i].name, results[i].idx>> \notin set \cup panicked
    BY DEF Inv, Joining, Read
  <2> QED
    BY <2>1 DEF Inv, Pages, Joining, TypeOK, Phases, Outcomes
<1> QED
  BY <1>1, InvHolds, PTL

(* No item is taken twice, wherever the links between the pages lead.        *)
THEOREM EveryItemOnce == Spec => []ItemsOnce
<1>1. Inv => ItemsOnce
  BY DEF Inv
<1> QED
  BY <1>1, InvHolds, PTL

(* A stack of a search has all items of all pages that the links lead to,    *)
(* unless an error body or the page limit ended the pagination.             *)
THEOREM StackIsWhole == Spec => []WholeUnlessCut
<1>1. Inv => WholeUnlessCut
  BY DEF Inv, Pages, Searched, WholeOrCut, WholeUnlessCut, Opening, IsStack
<1> QED
  BY <1>1, InvHolds, PTL

(* A stack has a header for each item and asset of its earliest item, a group *)
(* lacks only assets whose read panicked.                                  *)
THEOREM NoHeaderLost == Spec => []JoinLosesNothing
<1>1. Inv => JoinLosesNothing
  BY DEF Inv, Opening, JoinLosesNothing, Built
<1> QED
  BY <1>1, InvHolds, PTL

(* All slices of all assets of a stack have one grid.                       *)
THEOREM StackHasOneGrid == Spec => []OneGrid
<1>1. Inv => OneGrid
  BY SlicesOfStack DEF Inv, Opening, OneGrid, Uniform
<1> QED
  BY <1>1, InvHolds, PTL

(* At each time index of a stack, every asset has its COG of the same item,  *)
(* which has this time; the times ascend and no gathered item is missing.    *)
THEOREM SlicesInTime == Spec => []SliceOfItsTime
<1>1. ASSUME Inv, outcome = "stack"
      PROVE  SliceOfItsTime
  <2>1. ASSUME NEW name \in DOMAIN children
        PROVE  {children[name][k].item : k \in DOMAIN times} = Ids(ToSet(all_features))
    <3>1. {children[name][k].item : k \in DOMAIN times} = {sorted[k].id : k \in DOMAIN sorted}
      BY <1>1, SlicesOfStack
    <3>2. {sorted[k].id : k \in DOMAIN sorted} = Ids(ToSet(sorted))
      BY DEF Ids, ToSet
    <3> QED
      BY <1>1, <3>1, <3>2, SlicesOfStack
  <2> QED
    BY <1>1, <2>1, SlicesOfStack DEF SliceOfItsTime
<1>2. Inv => SliceOfItsTime
  BY <1>1 DEF SliceOfItsTime
<1> QED
  BY <1>2, InvHolds, PTL

(* What a query reads at a time of a stack is of an item of that time.       *)
THEOREM ReadsInTime == Spec => []ReadAtItsTime
<1>1. Inv => ReadAtItsTime
  BY DEF Inv
<1> QED
  BY <1>1, InvHolds, PTL

=============================================================================
