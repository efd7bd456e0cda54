---------------------------- MODULE ConfigHandoff ----------------------------
(***************************************************************************)
(* What the pair CURRENT_CONFIG and CONFIG_UPDATED promises: a box with    *)
(* room for the latest configuration.  Anybody may put a configuration in  *)
(* at any time; the engine takes what is in the box and then uses it.      *)
(* Configurations may be overwritten before they are taken, and a          *)
(* configuration may be delivered twice, but the last one put in is used.  *)
(***************************************************************************)
CONSTANTS
    Configs,   \* the configurations
    NoConfig   \* no configuration

VARIABLES
    box,       \* the latest configuration put in
    fresh,     \* the box is to be looked at
    held,      \* what the engine has taken and not yet used
    applied    \* what the engine last used

vars == <<box, fresh, held, applied>>

Init ==
    /\ box \in Configs
    /\ fresh = TRUE
    /\ held = NoConfig
    /\ applied = NoConfig

Put ==
    /\ box' \in Configs
    /\ fresh' = TRUE
    /\ UNCHANGED <<held, applied>>

\* fresh may stay up: it was raised again while the box was being emptied.
Take ==
    /\ fresh
    /\ held = NoConfig
    /\ held' = box
    /\ fresh' \in BOOLEAN
    /\ UNCHANGED <<box, applied>>

Use ==
    /\ held # NoConfig
    /\ applied' = held
    /\ held' = NoConfig
    /\ UNCHANGED <<box, fresh>>

Next == Put \/ Take \/ Use

Safety == Init /\ [][Next]_vars
Spec   == Safety /\ WF_vars(Take) /\ WF_vars(Use)
=============================================================================
