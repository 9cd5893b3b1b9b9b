------------------------------ MODULE MCWebview ------------------------------
(***************************************************************************)
(* What a window sees, for TLC: an asset that it reads in pieces, or an    *)
(* Electron app from its start.  They share no state: one is studied.      *)
(***************************************************************************)
EXTENDS AssetStream, ElectronApp

CONSTANT Studied

VARIABLE studied

\* With everything; without an updater, before protocol.handle; without preload.
AppChoices == {[updater |-> TRUE, legacy |-> FALSE, preload |-> TRUE],
               [updater |-> FALSE, legacy |-> TRUE, preload |-> TRUE],
               [updater |-> TRUE, legacy |-> FALSE, preload |-> FALSE]}

WebviewInit ==
    /\ studied \in Studied
    /\ StreamInit /\ ElectronInit
    /\ app \in AppChoices
    /\ studied # "stream" => size = 0
    /\ studied # "electron" => app = CHOOSE a \in AppChoices : TRUE

WebviewNext ==
    /\ UNCHANGED studied
    /\ \/ studied = "stream" /\ StreamNext /\ UNCHANGED electronVars
       \/ studied = "electron" /\ ElectronNext /\ UNCHANGED streamVars

WebviewSpec ==
    /\ WebviewInit /\ [][WebviewNext]_<<streamVars, electronVars, studied>>
    /\ StreamFairness /\ ElectronFairness
=============================================================================
