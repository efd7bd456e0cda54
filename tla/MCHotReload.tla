----------------------------- MODULE MCHotReload ----------------------------
(***************************************************************************)
(* Values for the model-checked instances of HotReload.                    *)
(***************************************************************************)
EXTENDS HotReload

Both          == {TRUE, FALSE}
MCAppList     == {AppList}
MCFiles       == Files
MCAdjs        == {0, 200}
MCNoGame      == {NotRunning}
=============================================================================
