----------------------------- MODULE StacSearch ------------------------------
(***************************************************************************)
(* How read_geo opens a source: resolve_sync_store.  Over HTTP it follows   *)
(* the pages of a search, sorts the items by time, reads the COG headers of *)
(* all items and assets concurrently, and puts them together as a virtual   *)
(* [time, y, x] array per asset (VirtualStacTimeStack).  A single item      *)
(* becomes a group of its assets, and a URL that is neither may name an     *)
(* asset of a parent item, or be a plain Zarr store.  A local document is   *)
(* one page, and its headers are read one after the other.                 *)
(*                                                                         *)
(* The HTTP servers are external: a request is answered with the page the   *)
(* server has, or with an error body that is JSON too (the status is never *)
(* looked at), or with nothing that parses.  Header reads finish in any     *)
(* order; one may fail, or panic.  Of a COG only its item, its asset and    *)
(* its grid are kept (shape, tiling, CRS, affine and data type as one), and *)
(* of an image one tile.                                                   *)
(***************************************************************************)
EXTENDS Integers, Sequences, FiniteSets, SequencesExt

CONSTANTS
  Searches,   (* what the servers hold, one search each                    *)
  MaxPages    (* max_pages: 1000 in the code                               *)

(* A search: its pages by URL, the first of which is 1.  A page: its type,  *)
(* "collection" or "item"; its features; and its next link, a set of at     *)
(* most one URL.  A feature: id, datetime (a set of at most one       *)
(* time), cogs (the names of its COG assets) and the grid of each of these. *)
Listed(s) == UNION {ToSet(s[u].features) : u \in DOMAIN s}

ASSUME SearchAssumption ==
  /\ MaxPages \in Nat \ {0}
  /\ \A s \in Searches :
       /\ IsFiniteSet(DOMAIN s) /\ 1 \in DOMAIN s
       /\ \A u \in DOMAIN s :
            /\ s[u].features \in Seq(Listed(s))
            /\ s[u].next \subseteq DOMAIN s /\ \A v, w \in s[u].next : v = w
            /\ s[u].type = "item" => Len(s[u].features) = 1
       /\ \A f \in Listed(s) : f.datetime \subseteq Int /\ \A t, u \in f.datetime : t = u

(* The servers list an item once, under an id of its own.                  *)
ASSUME ItemsDistinct ==
  \A s \in Searches : \A u, v \in {w \in DOMAIN s : s[w].type = "collection"} :
    \A i \in DOMAIN s[u].features, j \in DOMAIN s[v].features :
      s[u].features[i].id = s[v].features[j].id => u = v /\ i = j

VARIABLES
  search,        (* the search being resolved                              *)
  phase,         (* "open" before anything but a STAC URL is opened,       *)
                 (* "paginate", "plan", "headers", "parent", "local",      *)
                 (* "children", "done"                                     *)
  fetch_url, visited_urls, current_page,
  all_features,  (* the features of the collection pages, in order         *)
  first_json,    (* some page was a collection                             *)
  single,        (* single_feature_json: "none", "body" or "item"          *)
  sorted,        (* the features whose headers are read, in time order     *)
  set,           (* the JoinSet: header reads not yet joined               *)
  results,       (* the headers read, in the order they were joined        *)
  panicked,      (* header reads that panicked                             *)
  outcome,       (* "none", then "stack", "group", "cog", "plain", "error" *)
  times,         (* the time coordinate of a stack                         *)
  children,      (* the COGs of each asset of a stack or a group           *)
  last_read      (* the last chunk read of a stack                         *)

vars == <<search, phase, fetch_url, visited_urls, current_page, all_features,
          first_json, single, sorted, set, results, panicked, outcome, times,
          children, last_read>>
paging == <<fetch_url, visited_urls, current_page, all_features, first_json, single>>
headers == <<sorted, set, results, panicked>>
store == <<times, children, last_read>>

Time(feature) == CHOOSE t \in feature.datetime : TRUE

(* The COG of one asset of one item.                                       *)
Cog(feature, name) == [item |-> feature.id, asset |-> name, grid |-> feature.grid[name]]

(* sorted_features_by_datetime: a stable sort.                             *)
SortedByTime(fs) ==
  LET Place(i) == Cardinality({j \in DOMAIN fs :
                    \/ Time(fs[j]) < Time(fs[i])
                    \/ Time(fs[j]) = Time(fs[i]) /\ j <= i})
  IN [k \in DOMAIN fs |-> fs[CHOOSE i \in DOMAIN fs : Place(i) = k]]

NoRead == [asset |-> "none", time |-> 0, item |-> "none"]
Fill == "fill value"

-----------------------------------------------------------------------------
Init ==
  /\ search \in Searches
  /\ phase \in {"paginate", "open", "local"}
  /\ fetch_url = 1 /\ visited_urls = {} /\ current_page = 0
  /\ all_features = <<>> /\ first_json = FALSE /\ single = "none"
  /\ sorted = <<>> /\ set = {} /\ results = <<>> /\ panicked = {}
  /\ outcome = "none"
  /\ times = <<>> /\ children = <<>>
  /\ last_read = NoRead

Resolve(as) == phase' = "done" /\ outcome' = as

(* A COG whose header is supported or not, or a Zarr store.                *)
ResolveFile == Resolve("cog") \/ Resolve("error") \/ Resolve("plain")

(* An object of S3, or a URL that ends like a GeoTIFF or a Zarr store.     *)
OpenDirect ==
  /\ phase = "open"
  /\ ResolveFile
  /\ UNCHANGED <<search, paging, headers, store>>

-----------------------------------------------------------------------------
(* The pagination loop.                                                    *)

(* Faulty GiveUp: only the number of pages is limited.                     *)
GiveUpLimitOnly == current_page >= MaxPages

GiveUp == current_page >= MaxPages \/ fetch_url \in visited_urls

StopPaging ==
  /\ phase = "paginate" /\ GiveUp
  /\ phase' = "plan"
  /\ UNCHANGED <<search, paging, headers, outcome, store>>

(* The head of the loop, for a URL that is fetched.                        *)
Request ==
  /\ phase = "paginate" /\ ~GiveUp
  /\ visited_urls' = visited_urls \cup {fetch_url}
  /\ current_page' = current_page + 1

Page == search[fetch_url]

(* A page of features, with a link to the next one or without.             *)
FetchCollection ==
  /\ Request /\ Page.type = "collection"
  /\ all_features' = all_features \o Page.features
  /\ first_json' = TRUE
  /\ \/ Page.next = {} /\ phase' = "plan" /\ fetch_url' = fetch_url
     \/ fetch_url' \in Page.next /\ phase' = phase
  /\ UNCHANGED <<search, single, headers, outcome, store>>

(* Any other JSON, an item or an error body, ends the loop on every page.  *)
FetchSingle(kind) ==
  /\ Request
  /\ single' = kind
  /\ phase' = "plan"
  /\ UNCHANGED <<search, fetch_url, all_features, first_json, headers, outcome, store>>

FetchItem == Page.type = "item" /\ FetchSingle("item")
FetchErrorBody == FetchSingle("body")

(* Faulty FetchFails: a page that cannot be fetched ends the loop.         *)
FetchFailsSilently ==
  /\ Request
  /\ phase' = "plan"
  /\ UNCHANGED <<search, fetch_url, all_features, first_json, single, headers,
                 outcome, store>>

(* No answer, or none that parses: an error, except on the first page.     *)
FetchFails ==
  /\ Request
  /\ IF current_page' > 1 THEN Resolve("error") ELSE phase' = "plan" /\ outcome' = outcome
  /\ UNCHANGED <<search, fetch_url, all_features, first_json, single, headers, store>>

-----------------------------------------------------------------------------
(* What the pages amount to.                                               *)

IsStack == first_json /\ all_features # <<>>
Item == search[fetch_url].features[1]
IsGroup == ~first_json /\ single = "item" /\ Item.cogs # {}

(* The asset names are those of the earliest item, and every item must     *)
(* have a time and all of these assets.                                    *)
Stackable(features) ==
  /\ features # <<>> /\ \A i \in DOMAIN features : features[i].datetime # {}
  /\ LET names == SortedByTime(features)[1].cogs
     IN names # {} /\ \A i \in DOMAIN features : names \subseteq features[i].cogs

(* Faulty PlanStack: the headers are read in page order.                   *)
PlanStackUnsorted ==
  /\ phase = "plan" /\ IsStack /\ Stackable(all_features)
  /\ sorted' = all_features
  /\ set' = SortedByTime(all_features)[1].cogs \X DOMAIN sorted'
  /\ times' = [k \in DOMAIN sorted' |-> Time(SortedByTime(all_features)[k])]
  /\ phase' = "headers"
  /\ UNCHANGED <<search, paging, results, panicked, outcome, children, last_read>>

PlanStack ==
  /\ phase = "plan" /\ IsStack /\ Stackable(all_features)
  /\ sorted' = SortedByTime(all_features)
  /\ set' = sorted'[1].cogs \X DOMAIN sorted'
  /\ times' = [k \in DOMAIN sorted' |-> Time(sorted'[k])]
  /\ phase' = "headers"
  /\ UNCHANGED <<search, paging, results, panicked, outcome, children, last_read>>

RejectStack ==
  /\ phase = "plan" /\ IsStack /\ ~Stackable(all_features)
  /\ Resolve("error")
  /\ UNCHANGED <<search, paging, headers, store>>

PlanGroup ==
  /\ phase = "plan" /\ IsGroup
  /\ sorted' = <<Item>>
  /\ set' = Item.cogs \X {1}
  /\ phase' = "headers"
  /\ UNCHANGED <<search, paging, results, panicked, outcome, store>>

(* An empty collection gets here too.                                      *)
NoStac ==
  /\ phase = "plan" /\ ~IsStack /\ ~IsGroup
  /\ phase' = "parent"
  /\ UNCHANGED <<search, paging, headers, outcome, store>>

(* The parent URL is an item with this asset, whose header is supported or *)
(* not; else the URL is taken for a Zarr store.                            *)
TryParent ==
  /\ phase = "parent"
  /\ ResolveFile
  /\ UNCHANGED <<search, paging, headers, store>>

-----------------------------------------------------------------------------
(* The header reads, joined in the order they finish.                      *)

JoinNext(job) ==
  /\ phase = "headers" /\ job \in set
  /\ set' = set \ {job}

HeaderRead(job) ==
  /\ JoinNext(job)
  /\ results' = Append(results, [name |-> job[1], idx |-> job[2],
                                 cog |-> Cog(sorted[job[2]], job[1])])
  /\ UNCHANGED <<search, phase, paging, sorted, panicked, outcome, store>>

(* Faulty HeaderFails: the result is dropped like that of a panic.         *)
HeaderFailsSilently(job) ==
  /\ JoinNext(job)
  /\ UNCHANGED <<search, phase, paging, sorted, results, panicked, outcome, store>>

(* It fails, or the COG is not supported: the other reads are dropped.     *)
HeaderFails(job) ==
  /\ JoinNext(job)
  /\ Resolve("error")
  /\ UNCHANGED <<search, paging, sorted, results, panicked, store>>

(* join_next returns a JoinError, which is skipped.                        *)
HeaderPanics(job) ==
  /\ JoinNext(job)
  /\ panicked' = panicked \cup {job}
  /\ UNCHANGED <<search, phase, paging, sorted, results, outcome, store>>

Joined == phase = "headers" /\ set = {}

(* The header for a slot of the stack or an asset of the group, if read.   *)
Slot(name, idx) ==
  {results[i].cog : i \in {j \in DOMAIN results :
                             results[j].name = name /\ results[j].idx = idx}}

Complete == \A name \in sorted[1].cogs, idx \in DOMAIN sorted : Slot(name, idx) # {}

(* Faulty Uniform: the items of each asset are compared by themselves.     *)
UniformPerAsset(stack) ==
  \A name \in DOMAIN stack : \A j, k \in DOMAIN stack[name] :
    stack[name][j].grid = stack[name][k].grid

(* validate_grid_uniform, over the items of all assets.                    *)
Uniform(stack) ==
  \A n, m \in DOMAIN stack : \A j \in DOMAIN stack[n], k \in DOMAIN stack[m] :
    stack[n][j].grid = stack[m][k].grid

(* Faulty StackChildren: the headers of an asset in the order they came.   *)
StackChildrenAsJoined ==
  [name \in sorted[1].cogs |->
     LET mine == SelectSeq(results, LAMBDA r : r.name = name)
     IN [k \in DOMAIN mine |-> mine[k].cog]]

(* The slots of the reassembly, by asset and time index.                   *)
StackChildren ==
  [name \in sorted[1].cogs |->
     [k \in DOMAIN sorted |-> CHOOSE c \in Slot(name, k) : TRUE]]

AssembleStack ==
  /\ Joined /\ IsStack /\ Complete /\ Uniform(StackChildren)
  /\ children' = StackChildren
  /\ Resolve("stack")
  /\ UNCHANGED <<search, paging, headers, times, last_read>>

RejectAssembly ==
  /\ Joined /\ IsStack /\ ~(Complete /\ Uniform(StackChildren))
  /\ Resolve("error")
  /\ UNCHANGED <<search, paging, headers, store>>

AssembleGroup ==
  /\ Joined /\ ~IsStack
  /\ children' = [name \in {results[i].name : i \in DOMAIN results} |->
                    <<CHOOSE c \in Slot(name, 1) : TRUE>>]
  /\ Resolve("group")
  /\ UNCHANGED <<search, paging, headers, times, last_read>>

-----------------------------------------------------------------------------
(* A local path.                                                           *)

Document == search[1]

(* It does not exist or is outside the allowed directory.                  *)
PathRefused ==
  /\ phase = "local"
  /\ Resolve("error")
  /\ UNCHANGED <<search, paging, headers, store>>

(* It is a GeoTIFF or a Zarr store, or its contents are no STAC document.   *)
OpenFile ==
  /\ phase = "local"
  /\ ResolveFile
  /\ UNCHANGED <<search, paging, headers, store>>

(* A FeatureCollection: its next link is not looked at.                    *)
OpenCollection ==
  /\ phase = "local" /\ Document.type = "collection"
  /\ Stackable(Document.features)
  /\ all_features' = Document.features
  /\ first_json' = TRUE
  /\ sorted' = SortedByTime(Document.features)
  /\ times' = [k \in DOMAIN sorted' |-> Time(sorted'[k])]
  /\ children' = [name \in sorted'[1].cogs |-> <<>>]
  /\ phase' = "children"
  /\ UNCHANGED <<search, fetch_url, visited_urls, current_page, single, set, results,
                 panicked, outcome, last_read>>

OpenItem ==
  /\ phase = "local" /\ Document.type = "item" /\ Item.cogs # {}
  /\ sorted' = <<Item>>
  /\ children' = [name \in Item.cogs |-> <<>>]
  /\ phase' = "children"
  /\ UNCHANGED <<search, paging, set, results, panicked, outcome, times, last_read>>

RejectDocument ==
  /\ phase = "local"
  /\ IF Document.type = "item" THEN Item.cogs = {} ELSE ~Stackable(Document.features)
  /\ Resolve("error")
  /\ UNCHANGED <<search, paging, headers, store>>

(* build_local_cog_child, for the next item of the asset being built.      *)
BuildChild(name) ==
  /\ phase = "children" /\ Len(children[name]) < Len(sorted)
  /\ \A other \in DOMAIN children \ {name} : Len(children[other]) \in {0, Len(sorted)}
  /\ children' = [children EXCEPT ![name] = Append(@, Cog(sorted[Len(@) + 1], name))]
  /\ UNCHANGED <<search, phase, paging, headers, outcome, times, last_read>>

Built == \A name \in DOMAIN children : Len(children[name]) = Len(sorted)

(* Its path is refused, its header cannot be read or is not supported.     *)
BuildFails ==
  /\ phase = "children" /\ ~Built
  /\ Resolve("error")
  /\ UNCHANGED <<search, paging, headers, store>>

FinishLocal ==
  /\ phase = "children" /\ Built
  /\ Resolve(IF ~first_json THEN "group" ELSE IF Uniform(children) THEN "stack" ELSE "error")
  /\ UNCHANGED <<search, paging, headers, store>>

-----------------------------------------------------------------------------
(* VirtualStacTimeStack::get for the chunk of an asset at a time index: the *)
(* child's tile, or no chunk if the tile cannot be read, which the array    *)
(* library turns into fill values.  The reader sees times[k] beside it.     *)
ReadChunk(name, k) ==
  /\ outcome = "stack"
  /\ \E item \in {children[name][k].item, Fill} :
       last_read' = [asset |-> name, time |-> times[k], item |-> item]
  /\ UNCHANGED <<search, phase, paging, headers, outcome, times, children>>

Paginate == StopPaging \/ FetchCollection \/ FetchItem \/ FetchErrorBody \/ FetchFails
Plan == PlanStack \/ RejectStack \/ PlanGroup \/ NoStac \/ TryParent
Headers == \E job \in set : HeaderRead(job) \/ HeaderFails(job) \/ HeaderPanics(job)
Assemble == AssembleStack \/ RejectAssembly \/ AssembleGroup
Local ==
  \/ PathRefused \/ OpenFile \/ OpenCollection \/ OpenItem \/ RejectDocument
  \/ \E name \in DOMAIN children : BuildChild(name)
  \/ BuildFails \/ FinishLocal

Opened ==
  /\ phase = "done"
  /\ UNCHANGED vars

Next ==
  \/ OpenDirect \/ Paginate \/ Plan \/ Headers \/ Assemble \/ Local
  \/ \E name \in DOMAIN children : \E k \in DOMAIN times : ReadChunk(name, k)
  \/ Opened

Spec == Init /\ [][Next]_vars

-----------------------------------------------------------------------------
(* Properties                                                              *)

TypeOK ==
  /\ phase \in {"open", "paginate", "plan", "headers", "parent", "local", "children", "done"}
  /\ outcome \in {"none", "stack", "group", "cog", "plain", "error"}
  /\ outcome = "none" <=> phase # "done"
  /\ current_page = Cardinality(visited_urls)
  /\ fetch_url \in DOMAIN search
  /\ set \cap panicked = {}
  /\ \A i \in DOMAIN results : <<results[i].name, results[i].idx>> \notin set \cup panicked

(* The pages the next links lead to from the first one: those of every set  *)
(* of pages that holds the first one and that no link leads out of.        *)
ReachablePages ==
  {u \in DOMAIN search :
     \A pages \in SUBSET DOMAIN search :
       1 \in pages /\ (\A v \in pages : search[v].next \subseteq pages) => u \in pages}

FeaturesOf(urls) ==
  UNION {ToSet(search[u].features) : u \in {v \in urls : search[v].type = "collection"}}

Ids(features) == {f.id : f \in features}

(* Every time index of a stack is one fetched item's, every fetched item    *)
(* has one index, the time axis ascends, and at each index every asset has *)
(* its COG of that item, in whatever order the headers were read.          *)
SliceOfItsTime ==
  outcome = "stack" =>
    /\ \A j, k \in DOMAIN times : j < k => times[j] <= times[k]
    /\ \A name \in DOMAIN children :
         /\ DOMAIN children[name] = DOMAIN times
         /\ {children[name][k].item : k \in DOMAIN times} = Ids(ToSet(all_features))
         /\ \A k \in DOMAIN times :
              /\ children[name][k].asset = name
              /\ \E f \in ToSet(all_features) :
                   f.id = children[name][k].item /\ f.datetime = {times[k]}
         /\ \A other \in DOMAIN children : \A k \in DOMAIN times :
              children[other][k].item = children[name][k].item

(* What a query sees at a time is of an item of that time, or fill values. *)
ReadAtItsTime ==
  last_read.item \notin {"none", Fill} =>
    \E f \in ToSet(all_features) :
      /\ f.id = last_read.item /\ f.datetime = {last_read.time}
      /\ last_read.asset \in f.cogs

(* Links that lead back to a page neither repeat an item nor go on for ever. *)
ItemsOnce ==
  \A i, j \in DOMAIN all_features :
    all_features[i].id = all_features[j].id => i = j

(* A stack of a search holds the whole of it, pages that fail included,     *)
(* unless an error body was taken for the end of the pages or the page      *)
(* limit hit.                                                              *)
WholeUnlessCut ==
  (outcome = "stack" /\ visited_urls # {} /\ single = "none" /\ Cardinality(ReachablePages) <= MaxPages) =>
    Ids(ToSet(all_features)) = Ids(FeaturesOf(ReachablePages))

(* No header goes missing: a stack has one for every item and asset of its *)
(* earliest item, and a group lacks at most the assets whose read panicked. *)
JoinLosesNothing ==
  /\ outcome = "stack" => panicked = {} /\ DOMAIN children = sorted[1].cogs /\ Built
  /\ outcome = "group" =>
       DOMAIN children = sorted[1].cogs \ {job[1] : job \in panicked}

(* One grid describes all slices of all assets, as the stack's metadata     *)
(* and coordinates, taken from one child, say.                             *)
OneGrid ==
  outcome = "stack" =>
    \A n, m \in DOMAIN children : \A j, k \in DOMAIN times :
      children[n][j].grid = children[m][k].grid

(* docs: the next links are followed to fetch the full collection.         *)
FullCollection ==
  (outcome = "stack" /\ visited_urls # {}) => Ids(ToSet(all_features)) = Ids(FeaturesOf(ReachablePages))

=============================================================================
