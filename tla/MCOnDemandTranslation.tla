----------------------- MODULE MCOnDemandTranslation ------------------------
(***************************************************************************)
(* OnDemandTranslation with its languages: 1, 2 and 3 are English, French  *)
(* and German, whose codes sort as de, en, fr.                             *)
(***************************************************************************)
EXTENDS OnDemandTranslation

TwoLanguages == <<1, 2>>
ThreeLanguages == <<3, 1, 2>>
=============================================================================
