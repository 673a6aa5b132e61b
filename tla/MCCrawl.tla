------------------------------ MODULE MCCrawl -------------------------------
(***************************************************************************)
(* Crawl over every graph of three URLs and one of another host, from two  *)
(* lists of seeds.                                                         *)
(***************************************************************************)
EXTENDS Crawl

CONSTANTS voting, affairs, meeting, elsewhere

AllURLs == {voting, affairs, meeting, elsewhere}
Ours == {voting, affairs, meeting}
Seeds == {<<voting, affairs>>, <<elsewhere, affairs, affairs>>}
=============================================================================
