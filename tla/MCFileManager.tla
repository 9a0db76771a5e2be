--------------------------- MODULE MCFileManager ---------------------------
(* FileManager with one directory below the root, an archive in it and a file *)
(* beside it.                                                                *)
EXTENDS FileManager

CONSTANTS d, f, g

MCParent == [e \in {d, f, g} |-> IF e = f THEN d ELSE Root]
=============================================================================
