---------------------------- MODULE FileChangeMC ----------------------------
(***************************************************************************)
(* FileChange for TLC: the third spelling is another name of the first file. *)
(***************************************************************************)
EXTENDS FileChange, TLC

CONSTANTS f1, f2

Spelled == [n \in Names |-> IF n = 2 THEN f2 ELSE f1]

Call(kind, source, destination) ==
    [kind |-> kind, source |-> source, destination |-> destination]

(* Copies and moves both ways and onto themselves, and what may meet them on  *)
(* the second file, or on the first under its other name.                   *)
SomeCalls ==
    {Call("write", NoName, 3), Call("copy", 1, 2), Call("copy", 1, 3), Call("move", 2, 1),
     Call("delete", 2, NoName), Call("zip", NoName, 2), Call("unzip", 1, 2)}

Swaps == Permutations(Callers)
=============================================================================
