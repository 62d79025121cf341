------------------------------- MODULE MCScan -------------------------------
(* A small instance of Scan: a folder of two photos, one of them selected   *)
(* by itself as well.                                                      *)
EXTENDS Scan, TLC

CONSTANTS f1, f2, folder, single

FolderAndFile == (folder :> {f1, f2}) @@ (single :> {f1})

=============================================================================
