------------------------------- MODULE Storage -------------------------------
(***************************************************************************)
(* The store: the migrations of its file, the saves and loads of a review   *)
(* and its children, and the rows the derives make; and the directories     *)
(* beside it, the cache of answers and the benchmarks' assets.  They share  *)
(* no state, so a behaviour is one of any of them.                          *)
(***************************************************************************)
EXTENDS Migrations, StoreCascade, RowMapping, ResponseCache, BenchmarkAssets

VARIABLE part  \* which of them

storageVars == <<part, vars, cascadeVars, rowVars, cacheVars, assetVars>>

\* What does not run stays in one initial state.
StorageInit ==
  /\ part \in {"migrations", "cascade", "rows", "cache", "assets"}
  /\ Init /\ (part # "migrations" => recorded = {})
  /\ CascadeInit /\ (part # "cascade" => \A p \in Loads : review[p] = CHOOSE r \in Reviews : TRUE)
  /\ RowInit /\ (part # "rows" => entity = "Review" /\ given = CHOOSE d \in Values("Review") : TRUE)
  /\ CacheInit
  /\ AssetInit

StorageNext ==
  \/ part = "migrations" /\ Next /\ UNCHANGED <<part, cascadeVars, rowVars, cacheVars, assetVars>>
  \/ part = "cascade" /\ CascadeNext /\ UNCHANGED <<part, vars, rowVars, cacheVars, assetVars>>
  \/ part = "rows" /\ RowNext /\ UNCHANGED <<part, vars, cascadeVars, cacheVars, assetVars>>
  \/ part = "cache" /\ CacheNext /\ UNCHANGED <<part, vars, cascadeVars, rowVars, assetVars>>
  \/ part = "assets" /\ AssetNext /\ UNCHANGED <<part, vars, cascadeVars, rowVars, cacheVars>>

StorageSpec == StorageInit /\ [][StorageNext]_storageVars

\* The types of the parts.
StorageTypeOK == TypeOK /\ CascadeTypeOK /\ RowTypeOK /\ CacheTypeOK /\ AssetTypeOK

-----------------------------------------------------------------------------
(* Values for model checking.                                              *)

MCDataset == <<"p", "q">>
MCChosen == [b \in {"b1", "b2"} |-> <<"q">>]

=============================================================================
