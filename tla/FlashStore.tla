----------------------------- MODULE FlashStore -----------------------------
(***************************************************************************)
(* What ws63flash.py promises about the Flash: the image the user asked    *)
(* for changes only as a whole, when a command has verified all of its     *)
(* sectors, and meanwhile the image is never lost: a sector that does not  *)
(* hold it has it in a backup on disk.  Only sectors of the command in     *)
(* progress are disturbed.  This says nothing of how; Flash implements it. *)
(***************************************************************************)
CONSTANTS Sectors, Contents, Keep

VARIABLES
    image,      \* what every sector is to hold
    where,      \* where a sector's image is to be found
    open        \* the sectors of the command in progress

vars == <<image, where, open>>

Requests == [Sectors -> Contents \cup {Keep}]
Covered(f) == {s \in Sectors : f[s] # Keep}
Override(g, f) == [s \in Sectors |-> IF f[s] = Keep THEN g[s] ELSE f[s]]

Init ==
    /\ image \in [Sectors -> Contents]
    /\ where = [s \in Sectors |-> "flash"]
    /\ open = {}

\* One command at a time.
Begin == open = {} /\ open' \in SUBSET Sectors /\ UNCHANGED <<image, where>>
End   == open' = {} /\ UNCHANGED <<image, where>>

\* A sector is erased, or holds what it should again.
Disturb ==
    /\ where' \in [Sectors -> {"flash", "backup"}]
    /\ \A s \in Sectors \ open : where'[s] = where[s]
    /\ UNCHANGED <<image, open>>

\* The command is done: all its sectors hold what was asked for.  One that
\* finds them so already is done as it begins.
Update(f) ==
    /\ open \in {{}, Covered(f)} /\ open' = Covered(f)
    /\ image' = Override(image, f)
    /\ where' = [s \in Sectors |-> IF s \in Covered(f) THEN "flash" ELSE where[s]]

Next == Begin \/ End \/ Disturb \/ \E f \in Requests : Update(f)
Spec == Init /\ [][Next]_vars
=============================================================================
