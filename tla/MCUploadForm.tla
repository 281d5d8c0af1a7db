---------------------------- MODULE MCUploadForm ----------------------------
(* UploadForm for TLC: every name of at most five characters in a form of    *)
(* one part, and forms of up to three parts with few names.                  *)
EXTENDS UploadForm, SequencesExt

Part(kind, filename, good) == [kind |-> kind, filename |-> filename, good |-> good]

Parts == {Part(kind, filename, good) : kind \in {"other", "field", "file"},
              filename \in {<<>>, <<"a">>, <<".", "control">>}, good \in BOOLEAN}

MCForms == {<<Part("file", name, TRUE)>> : name \in BoundedSeq(Chars, 5)}
               \cup BoundedSeq(Parts, 3)
=============================================================================
