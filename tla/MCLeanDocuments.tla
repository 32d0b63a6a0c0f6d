--------------------------- MODULE MCLeanDocuments ---------------------------
(* Two texts tell apart what the server has of a document from what it should *)
(* have; three restartFile calls overlap on it.                               *)
EXTENDS LeanDocuments
=============================================================================
