------------------------------ MODULE TargetCatalog ------------------------------
(***************************************************************************)
(* The catalogue of targets created from the dashboard:                    *)
(* app/config/target_catalog.py.  They live in an overlay file that only   *)
(* the API process writes; that process holds the parsed document, every   *)
(* other process reloads the file when its date changes, before each use.  *)
(* Aliases, validation and the targets of config/targets.yaml are left     *)
(* out.                                                                    *)
(***************************************************************************)
EXTENDS Naturals, FiniteSets

CONSTANT Targets

VARIABLES
    overlay,  \* data/runtime-targets.yaml
    cache     \* the document held by the API process

catalogVars == <<overlay, cache>>

\* The connection of an entry passed its test, or was edited since.
Entries   == [Targets -> {"absent", "tested", "edited"}]
Listed    == {t \in Targets : cache[t] # "absent"}
OnFile    == {t \in Targets : overlay[t] # "absent"}

\* add_runtime reloads the file first.
AddRuntime(t) ==
    /\ overlay[t] = "absent"
    /\ overlay' = [overlay EXCEPT ![t] = "tested"]
    /\ cache' = overlay'

\* remove_runtime writes what the process holds.
RemoveRuntime(t) ==
    /\ t \in Listed
    /\ overlay' = [cache EXCEPT ![t] = "absent"]
    /\ cache' = overlay'

\* update_gateway_connector_config changes the entry of the API process only.
UpdateConfig(t) ==
    /\ t \in Listed
    /\ cache' = [cache EXCEPT ![t] = "edited"]
    /\ UNCHANGED overlay

Restart == cache' = overlay /\ UNCHANGED overlay
=============================================================================
