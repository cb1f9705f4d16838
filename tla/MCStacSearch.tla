---------------------------- MODULE MCStacSearch ----------------------------
(* Searches for TLC.  Items come out of time order, two at the same time,  *)
(* and spread over pages.                                                  *)
EXTENDS StacSearch, TLC

Feature(id, datetime, cogs) ==
  [id |-> id, datetime |-> datetime, cogs |-> cogs, grid |-> [name \in cogs |-> "10m"]]

Collection(features, next) ==
  [type |-> "collection", features |-> features, next |-> next]

ItemPage(feature) == [type |-> "item", features |-> <<feature>>, next |-> {}]

Late == Feature("late", {30}, {"red", "nir"})
Early == Feature("early", {10}, {"red", "nir"})
Twin == Feature("twin", {30}, {"red", "nir"})
Single == Feature("single", {20}, {"red"})
Undated == Feature("undated", {}, {"red"})
Bare == Feature("bare", {1}, {})
Shifted == [Single EXCEPT !.id = "shifted", !.grid = "red" :> "elsewhere"]
MixedResolution ==
  [Early EXCEPT !.id = "mixed", !.grid = ("red" :> "10m") @@ ("nir" :> "20m")]

(* Three items of two assets on two pages.                                 *)
TwoPages == (1 :> Collection(<<Late>>, {2})) @@ (2 :> Collection(<<Early, Twin>>, {}))

MCSearches == {
  TwoPages,
  (* The last link leads back to the first page.                           *)
  (1 :> Collection(<<Late>>, {2})) @@ (2 :> Collection(<<Early>>, {1})),
  (* More pages than the limit.                                            *)
  (1 :> Collection(<<Late>>, {2})) @@ (2 :> Collection(<<>>, {3}))
    @@ (3 :> Collection(<<Early>>, {4})) @@ (4 :> Collection(<<Twin>>, {})),
  (* Items that cannot be stacked: an asset, a time, or COGs are missing.  *)
  (1 :> Collection(<<Early, Single>>, {})),
  (1 :> Collection(<<Late, Undated>>, {})),
  (1 :> Collection(<<Bare, Late>>, {})),
  (* The earliest item has fewer assets than the others.                   *)
  (1 :> Collection(<<Late, Single>>, {})),
  (* Grids that differ between items, and between the assets of an item.   *)
  (1 :> Collection(<<Single, Shifted>>, {})),
  (1 :> Collection(<<MixedResolution>>, {})),
  (* No items, and single items.                                           *)
  (1 :> Collection(<<>>, {})),
  (1 :> ItemPage(Late)),
  (1 :> ItemPage(Bare)) }

PagedSearches == {TwoPages}

=============================================================================
