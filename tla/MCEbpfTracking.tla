--------------------------- MODULE MCEbpfTracking ---------------------------
(***************************************************************************)
(* Values for the model-checked instances of EbpfTracking.                 *)
(***************************************************************************)
EXTENDS EbpfTracking

\* A rule for the package and one for the thread name "render", and either.
Full        == [threads |-> {"render"}, pkg |-> TRUE]
OnlyPackage == [threads |-> {}, pkg |-> TRUE]
OnlyThread  == [threads |-> {"render"}, pkg |-> FALSE]
Nothing     == [threads |-> {}, pkg |-> FALSE]
MCTwo       == {Full, OnlyPackage}
MCThree     == {Full, OnlyThread, Nothing}

MCForks     == {<<Zygote, "process">>, <<App, "thread">>}
MCNames     == {<<App, "render">>, <<App, "worker">>, <<"worker", "render">>}
MCShell     == {<<Zygote, "sh">>}
MCAppShell  == {<<App, "sh">>}
=============================================================================
