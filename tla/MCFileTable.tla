----------------------------- MODULE MCFileTable -----------------------------
(* An instance of FileTable for TLC: three files at once, of the two cores, so *)
(* that the table of two slots grows, and a failed open.                       *)
EXTENDS FileTable
=============================================================================
