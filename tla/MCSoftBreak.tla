---------------------------- MODULE MCSoftBreak ----------------------------
(***************************************************************************)
(* The instance of SoftBreak that is checked: an instruction of two        *)
(* halfwords that crosses a word of RAM, and a sector with a neighbour.    *)
(* The program starts uniform; GDB's writes make every other one in RAM.   *)
(***************************************************************************)
EXTENDS SoftBreak

MCInit == Init /\ user = [c \in Cells |-> CHOOSE v \in Code : TRUE]
MCSpec == MCInit /\ [][Next]_vars

=============================================================================
