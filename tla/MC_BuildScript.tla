---------------------------- MODULE MC_BuildScript ----------------------------
(***************************************************************************)
(* Small instances of BuildScript for TLC.                                 *)
(***************************************************************************)
EXTENDS BuildScript

MCIndexPaths == {"configs/flows.toml", "other.toml"}
MCDefaultIndex == "configs/flows.toml"
MCFlowPaths == {"f", "g"}
MCListings == {<<"f">>, <<"g", "f">>}
MCVersions == {<<"v1">>, <<"v2">>}

\* The key of the crate's own println!, and that of tf-examples/build.rs:9.
SameKey == WatchedKey
ExampleKey == "TASKFLOW_FLOWS_INDEX_PATH"

=============================================================================
