----------------------------- MODULE MCAirframe -----------------------------
(* The shed and one paddock; two mornings.                                 *)
EXTENDS Airframe

MCPlaces == {"shed", "creek"}
=============================================================================
