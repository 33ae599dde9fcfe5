----------------------------- MODULE MCLibraries -----------------------------
(* A small instance of the library modules. *)
EXTENDS Libraries

Intervals == [ACTIVE |-> 1, IDLE |-> 2, SAFE |-> 3]
Defaults == <<1, 2>>
=============================================================================
