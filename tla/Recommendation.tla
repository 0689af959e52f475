---------------------------- MODULE Recommendation ----------------------------
(***************************************************************************)
(* The recommendation service: get_product_list, called by ten threads.    *)
(* With the flag recommendationCacheFailure on, the products it knows are  *)
(* kept in cached_ids, which each miss fills up.  How often a product is   *)
(* in that list is left out: the answer is drawn from the set of them.     *)
(***************************************************************************)
CONSTANTS
  RecCalls,      \* the threads that serve ListRecommendations
  CatalogueIds   \* the products of the catalogue

VARIABLES
  products,     \* what product-catalog lists
  first_run,
  cached_ids,
  recCall,      \* of each call, its step, the products it has, what it loaded
  unlisted,     \* history: ListProducts failed after first_run was cleared
  noProducts    \* history: the catalogue was empty

recVars == <<products, first_run, cached_ids, recCall, unlisted, noProducts>>

NoRecCall == [step |-> "none", ids |-> {}, loaded |-> {}]

RecInit ==
  /\ products = CatalogueIds
  /\ first_run = TRUE
  /\ cached_ids = {}
  /\ recCall = [c \in RecCalls |-> NoRecCall]
  /\ unlisted = FALSE
  /\ noProducts = (products = {})

RecAt(c, step) == recCall[c].step = step
RecGoOn(c, step) == recCall' = [recCall EXCEPT ![c].step = step]

\* check_feature_flag
CheckFeatureFlag(c, enabled) ==
  /\ RecAt(c, "none")
  /\ RecGoOn(c, IF enabled THEN "chance" ELSE "list")
  /\ UNCHANGED <<products, first_run, cached_ids, unlisted, noProducts>>

\* if random.random() < 0.5 or first_run: first_run = False
Miss(c) ==
  /\ RecAt(c, "chance")
  /\ first_run' = FALSE
  /\ RecGoOn(c, "missed")
  /\ UNCHANGED <<products, cached_ids, unlisted, noProducts>>

\* else: product_ids = cached_ids
Hit(c) ==
  /\ RecAt(c, "chance")
  /\ ~first_run
  /\ recCall' = [recCall EXCEPT ![c] = [@ EXCEPT !.step = "hit", !.ids = cached_ids]]
  /\ UNCHANGED <<products, first_run, cached_ids, unlisted, noProducts>>

\* product_catalog_stub.ListProducts, after a miss or without the cache
ListProducts(c) ==
  /\ recCall[c].step \in {"missed", "list"}
  /\ recCall' = [recCall EXCEPT ![c] =
       [@ EXCEPT !.step = IF RecAt(c, "missed") THEN "load" ELSE "listed", !.ids = products]]
  /\ UNCHANGED <<products, first_run, cached_ids, unlisted, noProducts>>

\* It fails, and the call with it.
ListFails(c) ==
  /\ recCall[c].step \in {"missed", "list"}
  /\ unlisted' = (unlisted \/ RecAt(c, "missed"))
  /\ recCall' = [recCall EXCEPT ![c] = NoRecCall]
  /\ UNCHANGED <<products, first_run, cached_ids, noProducts>>

\* Either statement loads cached_ids, and stores it with something added: the
\* products of the answer, then a part of itself.
LoadCache(c) ==
  /\ recCall[c].step \in {"load", "loadAgain"}
  /\ recCall' = [recCall EXCEPT ![c] =
       [@ EXCEPT !.step = IF RecAt(c, "load") THEN "store" ELSE "storeAgain",
                 !.loaded = cached_ids]]
  /\ UNCHANGED <<products, first_run, cached_ids, unlisted, noProducts>>

StoreResponse(c) ==
  /\ RecAt(c, "store")
  /\ cached_ids' = recCall[c].loaded \cup recCall[c].ids
  /\ RecGoOn(c, "loadAgain")
  /\ UNCHANGED <<products, first_run, unlisted, noProducts>>

\* Faulty: what is stored is the part alone.
StoreOnlyQuarter(c) ==
  /\ RecAt(c, "storeAgain")
  /\ cached_ids' \in SUBSET recCall[c].loaded
  /\ RecGoOn(c, "stored")
  /\ UNCHANGED <<products, first_run, unlisted, noProducts>>

StoreQuarter(c) ==
  /\ RecAt(c, "storeAgain")
  /\ cached_ids' = recCall[c].loaded
  /\ RecGoOn(c, "stored")
  /\ UNCHANGED <<products, first_run, unlisted, noProducts>>

\* product_ids = cached_ids
TakeCache(c) ==
  /\ RecAt(c, "stored")
  /\ recCall' = [recCall EXCEPT ![c] = [@ EXCEPT !.step = "listed", !.ids = cached_ids]]
  /\ UNCHANGED <<products, first_run, cached_ids, unlisted, noProducts>>

\* The answer: up to five of the products, less those of the request.
Recommend(c) ==
  /\ recCall[c].step \in {"hit", "listed"}
  /\ recCall' = [recCall EXCEPT ![c] = NoRecCall]
  /\ UNCHANGED <<products, first_run, cached_ids, unlisted, noProducts>>

\* product-catalog reloads its files, or fails to.
ReloadProducts(ids) ==
  /\ products' = ids
  /\ noProducts' = (noProducts \/ ids = {})
  /\ UNCHANGED <<first_run, cached_ids, recCall, unlisted>>

RecNext(enabled) ==
  \/ \E c \in RecCalls : \/ CheckFeatureFlag(c, enabled) \/ Miss(c) \/ Hit(c)
                         \/ ListProducts(c) \/ ListFails(c)
                         \/ LoadCache(c) \/ StoreResponse(c) \/ StoreQuarter(c)
                         \/ TakeCache(c) \/ Recommend(c)
  \/ \E ids \in SUBSET CatalogueIds : ReloadProducts(ids)

-----------------------------------------------------------------------------

\* A call that has cleared first_run and not filled the cache yet.
Filling(c) == recCall[c].step \in {"missed", "load", "store"}

\* A call is answered from the cache only after a miss, and finds it empty only
\* while a call that missed is still filling it, after such a call failed
\* (first_run is cleared before ListProducts is called), or after the catalogue
\* was empty: concurrent misses that overwrite each other's cache never empty it.
EmptyCacheHasCause ==
  /\ first_run => \A c \in RecCalls : ~RecAt(c, "hit")
  /\ ~first_run /\ cached_ids = {} =>
       unlisted \/ noProducts \/ \E c \in RecCalls : Filling(c)

-----------------------------------------------------------------------------
(* What the proof rests on. *)

Steps ==
  {"none", "chance", "missed", "hit", "list", "load", "loadAgain", "store",
   "storeAgain", "stored", "listed"}

RecTypeOK ==
  /\ recCall \in [RecCalls -> [step : Steps, ids : SUBSET CatalogueIds,
                               loaded : SUBSET CatalogueIds]]
  /\ products \subseteq CatalogueIds /\ cached_ids \subseteq CatalogueIds
  /\ first_run \in BOOLEAN /\ unlisted \in BOOLEAN /\ noProducts \in BOOLEAN

\* What a call is about to store is empty only if the catalogue was, and once it
\* has stored something the cache is not empty again.
StoresSomething ==
  \/ noProducts
  \/ /\ products # {}
     /\ \A c \in RecCalls :
          /\ recCall[c].step \in {"load", "store"} => recCall[c].ids # {}
          /\ recCall[c].step \in {"loadAgain", "storeAgain"} => cached_ids # {}
          /\ RecAt(c, "storeAgain") => recCall[c].loaded # {}

RecInv == RecTypeOK /\ StoresSomething /\ EmptyCacheHasCause
=============================================================================
