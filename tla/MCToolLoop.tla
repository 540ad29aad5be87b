------------------------------ MODULE MCToolLoop ------------------------------
(***************************************************************************)
(* ToolLoop for one gap, one caller without tools, and one slot.           *)
(***************************************************************************)
EXTENDS ToolLoop

CONSTANTS gap, doc

MCCallers == {gap, doc}
MCOneShot == {doc}
=============================================================================
