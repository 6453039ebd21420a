---------------------------- MODULE MCLotFiles ----------------------------
(***************************************************************************)
(* Small instances of LotFiles.  The file ids are interchangeable, the     *)
(* slots are not.                                                          *)
(***************************************************************************)
EXTENDS LotFiles, TLC

CONSTANTS p1, a, b, c

Interchangeable == Permutations(Lots)
ThreeVersions == <<2, 1, 2>>
TwoTables == {{p1}, {}}
=============================================================================
