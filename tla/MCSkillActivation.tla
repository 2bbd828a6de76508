-------------------------- MODULE MCSkillActivation --------------------------
(***************************************************************************)
(* SkillActivation for TLC.  A package holds one of the good trees; bad is *)
(* the content of a directory that no package can hold.                    *)
(***************************************************************************)
EXTENDS SkillActivation, TLC

CONSTANTS p, c, good, better, bad

TwoTrees == {good, bad}
ThreeTrees == {good, better, bad}
=============================================================================
