-------------------------- MODULE MCDocumentIndex ---------------------------
(***************************************************************************)
(* DocumentIndex for TLC: versions of the source text of two, one and two  *)
(* chunks, so that a change may keep the count, lower it or raise it.      *)
(***************************************************************************)
EXTENDS DocumentIndex

TwoVersions == <<2, 1>>
ThreeVersions == <<2, 1, 2>>
=============================================================================
