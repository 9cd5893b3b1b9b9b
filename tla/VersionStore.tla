---------------------------- MODULE VersionStore ----------------------------
(***************************************************************************)
(* What a bundle source promises about versions, with nothing of how it is *)
(* done: a bundle has a set of installed versions and one of them is       *)
(* current.  The first install of a bundle makes its version current,      *)
(* later ones leave the current version alone; only an installed version   *)
(* can be activated.  A new process starts from what the manifest files    *)
(* said, which no operation of the source changes.                         *)
(***************************************************************************)
CONSTANTS Bundles, Versions, None

VARIABLES
    installed,      \* bundle -> its installed versions
    current,        \* bundle -> its current version, or None
    saved           \* what a new process starts from: [installed, current]

vars == <<installed, current, saved>>

Consistent(ins, cur) ==
    \A b \in Bundles : IF cur[b] = None THEN ins[b] = {} ELSE cur[b] \in ins[b]

Init ==
    /\ installed \in [Bundles -> SUBSET Versions]
    /\ current \in [Bundles -> Versions \cup {None}]
    /\ Consistent(installed, current)
    /\ saved = [installed |-> installed, current |-> current]

Install(b, v) ==
    /\ installed' = [installed EXCEPT ![b] = @ \cup {v}]
    /\ current' = [current EXCEPT ![b] = IF @ = None THEN v ELSE @]
    /\ UNCHANGED saved

Activate(b, v) ==
    /\ v \in installed[b]
    /\ current' = [current EXCEPT ![b] = v]
    /\ UNCHANGED <<installed, saved>>

Restart ==
    /\ installed' = saved.installed
    /\ current' = saved.current
    /\ UNCHANGED saved

Next ==
    \/ Restart
    \/ \E b \in Bundles, v \in Versions : Install(b, v) \/ Activate(b, v)

Spec == Init /\ [][Next]_vars
=============================================================================
