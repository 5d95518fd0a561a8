-------------------------- MODULE PinnedDependencies --------------------------
(***************************************************************************)
(* What generated_requirements_for_source promises for a lock file: one    *)
(* step from the scan directory to its answer, the pins or an error.       *)
(***************************************************************************)
CONSTANTS
    Directories,    \* the scan directories considered
    Waiting,        \* the answer before there is one
    Promised        \* the answer to each directory

VARIABLES
    dir,            \* the directory that is scanned
    answer          \* Waiting, or the answer

vars == <<dir, answer>>

Init == dir \in Directories /\ answer = Waiting

Next ==
    /\ answer = Waiting
    /\ answer' # Waiting
    /\ answer' = Promised[dir]
    /\ UNCHANGED dir

Spec == Init /\ [][Next]_vars

=============================================================================
