----------------------------- MODULE UploadForm -----------------------------
(***************************************************************************)
(* From the client's form to the keys of its objects: the upload handler's *)
(* loop over the parts, _sanitize_filename, and what the stripping of the  *)
(* key and transcode's _processed_key leave of the name.  Pipeline takes   *)
(* the outcome as given: a request that is rejected, or a file name.       *)
(*                                                                         *)
(* A name is a sequence of characters, of which these are told apart: the  *)
(* separators, the dot, the space, an unprintable one and a letter.  Both  *)
(* keys are {prefix}/{name}; the prefix is the same on every path and is   *)
(* left out.                                                               *)
(***************************************************************************)
EXTENDS Sequences, Naturals, FiniteSets, FiniteSetsExt

CONSTANT Forms   \* the forms clients send: sequences of parts

Separators == {"/", "\\"}
Chars      == Separators \cup {".", " ", "control", "a"}
NoName     == <<>>

\* A part that is not form-data; a field, as text or not; one with a filename,
\* with data or without.  A part of neither name nor filename is ignored, too.
FormPart == [kind     : {"other", "field", "file"},
             filename : Seq(Chars),
             good     : BOOLEAN]        \* a text field, a file that has data

IsFile(part) == part.kind = "file" /\ part.filename # NoName

ASSUME UploadFormAssumption == Forms \subseteq Seq(FormPart)

VARIABLES form, next,   \* the request, and the part the loop has come to
          file,         \* file_info: the filename, NoName while there is none
          at,           \* "parts", "rejected", "stored", "transcoded", "failed"
          key,          \* the sanitized name, in the key of the uploaded object
          processedKey  \* the name in the key of the processed object

vars == <<form, next, file, at, key, processedKey>>

TypeOK == /\ next \in 1..(Len(form) + 1)
          /\ at \in {"parts", "rejected", "stored", "transcoded", "failed"}
          /\ file \in Seq(Chars)
          /\ {key, processedKey} \subseteq Seq(Chars \ Separators)

Init == /\ form \in Forms
        /\ next = 1 /\ at = "parts"
        /\ file = NoName /\ key = NoName /\ processedKey = NoName

-----------------------------------------------------------------------------
\* 0: the name has none of them.
LastIndex(name, chars) == Max({0} \cup {i \in 1..Len(name) : name[i] \in chars})

\* Mutant of Basename: the other separator is forgotten.
BasenameSlash(name) ==
    SubSeq(name, LastIndex(name, {"/"}) + 1, Len(name))

\* name.replace("\\", "/").rsplit("/", 1)[-1]
Basename(name) ==
    SubSeq(name, LastIndex(name, Separators) + 1, Len(name))

\* str.strip() of a key: of the characters it takes, only the space can be there.
StripEnd(name) == SubSeq(name, 1, LastIndex(name, Chars \ {" "}))

\* "".join(ch for ch in name if ch.isprintable()), up to each character.
Kept(name) ==
    LET kept[n \in 0..Len(name)] ==
            IF n = 0 THEN <<>>
            ELSE IF name[n] = "control" THEN kept[n - 1]
                                        ELSE Append(kept[n - 1], name[n])
    IN  kept

Printable(name) == Kept(name)[Len(name)]

Dots == {<<".">>, <<".", ".">>}

\* Mutant of Sanitized: names are checked before the characters are dropped.
SanitizedLate(name) == IF Basename(name) \in Dots THEN NoName ELSE Printable(Basename(name))

\* NoName: the name is refused.
Sanitized(name) == LET kept == Printable(Basename(name))
                   IN  IF kept \in Dots THEN NoName ELSE kept

Reject == at' = "rejected" /\ UNCHANGED <<file, key>>

\* Mutant of ReadPart: a second file replaces the first one.
ReadPartLast ==
    /\ at = "parts" /\ next <= Len(form)
    /\ next' = next + 1
    /\ IF IsFile(form[next])
       THEN IF ~ form[next].good
            THEN Reject
            ELSE file' = form[next].filename /\ UNCHANGED <<at, key>>
       ELSE IF form[next].kind # "other" /\ ~ form[next].good
            THEN Reject
            ELSE UNCHANGED <<at, file, key>>
    /\ UNCHANGED <<form, processedKey>>

\* One part.  A file without a filename counts as a field.
ReadPart ==
    LET part == form[next]
        bad  == \/ part.kind # "other" /\ ~ part.good
                \/ IsFile(part) /\ file # NoName
    IN  /\ at = "parts" /\ next <= Len(form)
        /\ next' = next + 1
        /\ \/ bad /\ Reject
           \/ ~ bad /\ IsFile(part) /\ file' = part.filename /\ UNCHANGED <<at, key>>
           \/ ~ bad /\ ~ IsFile(part) /\ UNCHANGED <<at, file, key>>
        /\ UNCHANGED <<form, processedKey>>

\* After the loop: the file is there and its name is usable, and it is stored.
Store == /\ at = "parts" /\ next > Len(form)
         /\ \/ /\ Sanitized(file) = NoName
               /\ Reject
            \/ /\ Sanitized(file) # NoName
               /\ key' = Sanitized(file)
               /\ at' = "stored"
               /\ UNCHANGED file
         /\ UNCHANGED <<form, next, processedKey>>

\* Mutant of Transcode: the name without what looks like an extension.
TranscodeStem == /\ at = "stored"
                 /\ processedKey' = LET dot == LastIndex(key, {"."})
                                    IN  IF dot = 0 THEN key ELSE SubSeq(key, 1, dot - 1)
                 /\ at' = IF processedKey' = NoName THEN "failed" ELSE "transcoded"
                 /\ UNCHANGED <<form, next, file, key>>

\* The worker derives the second key from the stripped first one.
Transcode == /\ at = "stored"
             /\ processedKey' = Basename(StripEnd(key))
             /\ at' = IF processedKey' = NoName THEN "failed" ELSE "transcoded"
             /\ UNCHANGED <<form, next, file, key>>

Next == ReadPart \/ Store \/ Transcode

Spec == Init /\ [][Next]_vars

-----------------------------------------------------------------------------
(* Properties.                                                             *)

\* What the handler means to accept, without its loop: one file, which has data
\* and a name, among fields of text, in any order, and whatever else.
WellFormed ==
    LET files == {i \in DOMAIN form : IsFile(form[i])}
    IN  /\ \A i \in DOMAIN form : form[i].kind # "other" => form[i].good
        /\ \E i \in files : /\ files = {i}
                            /\ Sanitized(form[i].filename) # NoName

\* The loop, which stops at the first part it does not like, accepts just that.
AcceptsWellFormed ==
    /\ at \in {"stored", "transcoded", "failed"} => WellFormed
    /\ at = "rejected" => ~ WellFormed

\* No file name reshapes the key: what is left of it is one path segment, neither
\* empty nor dots, without unprintable characters.
KeyIsOneSegment ==
    at = "stored" => /\ \A i \in DOMAIN key : key[i] \notin Separators \cup {"control"}
                     /\ key \notin Dots \cup {NoName}

\* The processed object keeps the name of the upload, but for the spaces at its
\* end; the worker refuses no key but the one of a name of nothing but spaces.
NameSurvives ==
    /\ at = "transcoded" => \E n \in 0..Len(key) :
            key = processedKey \o [i \in 1..n |-> " "]
    /\ at = "failed" => \A i \in DOMAIN key : key[i] = " "
=============================================================================
