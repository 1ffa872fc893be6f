---------------------------- MODULE Publication ----------------------------
(***************************************************************************)
(* What a command that writes certificates promises of the files it        *)
(* publishes, without staging, renames, backups, locks and rollback: it    *)
(* replaces a whole set of files at once, by its own and all of one CA, or *)
(* leaves every file as it is.  Only an execution that dies, or cannot     *)
(* undo what it began, may leave some files of the set old, some missing   *)
(* and some new; and nothing is promised of executions that are caught     *)
(* publishing the same files at once.                                      *)
(***************************************************************************)
CONSTANTS
    Run,        \* executions of a command
    CA,         \* CAs that CLN may have
    File,       \* the published files
    Sets,       \* the sets of files that commands publish
    Contents,   \* what a file may be
    Absent,     \* one that does not exist
    New(_, _, _)  \* New(f, c, r): the file f of execution r under the CA c

VARIABLES
    installed,  \* the files, outside of publish_files
    outcome     \* how each execution ended

Init ==
    /\ installed \in [File -> Contents]
    /\ outcome = [r \in Run |-> "none"]

Ends(r, how) ==
    /\ outcome[r] = "none"
    /\ outcome' = [outcome EXCEPT ![r] = how]

Succeed(r) ==
    /\ Ends(r, "done")
    /\ \E set \in Sets, c \in CA :
         installed' = [f \in File |-> IF f \in set THEN New(f, c, r) ELSE installed[f]]

Fail(r) ==
    /\ Ends(r, "failed")
    /\ UNCHANGED installed

\* Some files of a set are as they were, some missing, some those of r.
Halfway(r) ==
    /\ DOMAIN installed' = File
    /\ \E set \in Sets, c \in CA :
         \A f \in File :
            installed'[f] \in IF f \in set THEN {installed[f], Absent, New(f, c, r)}
                              ELSE {installed[f]}

BreakOff(r) == Ends(r, "broken") /\ Halfway(r)

\* r is joined by another, or joins one that is mixed already.
Clash(r) ==
    /\ outcome[r] = "none"
    /\ \E q \in Run :
         /\ outcome[q] \in {"none", "mixed"} /\ q # r
         /\ outcome' = [outcome EXCEPT ![r] = "mixed", ![q] = "mixed"]
    /\ Halfway(r)

Meddle(r) ==
    /\ outcome[r] = "mixed"
    /\ outcome' \in {outcome, [outcome EXCEPT ![r] = "broken"]}
    /\ installed' \in [File -> Contents]
    /\ \E set \in Sets : \A f \in File \ set : installed'[f] = installed[f]

Next == \E r \in Run : Succeed(r) \/ Fail(r) \/ BreakOff(r) \/ Clash(r) \/ Meddle(r)

Spec == Init /\ [][Next]_<<installed, outcome>>
=============================================================================
