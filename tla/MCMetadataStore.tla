--------------------------- MODULE MCMetadataStore ---------------------------
(* MetadataStore for TLC: two or three callers on one record.              *)
EXTENDS MetadataStore, TLC

\* A key the layer accepts, and one it rejects.
MCExtraChoices == {{"processedKey"}, {"other"}}

\* Callers are interchangeable: no formula names one.
CallerSymmetry == Permutations(Callers)
=============================================================================
