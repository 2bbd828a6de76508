---------------------------- MODULE MCPersonaSync ----------------------------
(***************************************************************************)
(* PersonaSync for TLC: two environments of one owner.  Path 1 stands for  *)
(* SOUL.md, which has no writer lock, and path 2 for a memory file, except *)
(* in the runs with one file, which is a memory file.                      *)
(***************************************************************************)
EXTENDS PersonaSync, TLC

CONSTANTS A, B, none, unsent, one, two

MCDevices == {A, B}

OneText == {none, one}
TwoTexts == {none, one, two}

\* No formula of the specification tells devices, or texts, apart.
Interchangeable == Permutations(MCDevices) \cup Permutations({one, two})
=============================================================================
