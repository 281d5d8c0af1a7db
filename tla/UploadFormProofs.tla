-------------------------- MODULE UploadFormProofs --------------------------
(***************************************************************************)
(* What the upload handler and the worker make of every form and of every  *)
(* file name, however long.  The names are sequences, so the lemmas about  *)
(* Basename, Printable and StripEnd are inductions over the length of one; *)
(* they are stated with sets of naturals in place of predicates.           *)
(***************************************************************************)
EXTENDS UploadForm, WellFoundedInduction, SequenceTheorems, TLAPS

\* A nonempty set of naturals has a least element.
LEMMA NatLeast ==
    ASSUME NEW T \in SUBSET Nat, T # {}
    PROVE  \E m \in T : \A n \in T : m <= n
<1> DEFINE R == OpToRel(<, Nat)
<1>1. PICK m \in T : \A n \in T : <<n, m>> \notin R
  <2>1. IsWellFoundedOn(R, Nat)
    BY NatLessThanWellFounded
  <2> HIDE DEF R
  <2> QED  BY <2>1, WFMin
<1>2. \A n \in T : ~ (n < m)
  BY <1>1 DEF OpToRel
<1> QED  BY <1>2

\* Induction up to len: a set that has 0, and each n that it has n - 1 of, has all.
LEMMA NatInductionUpTo ==
    ASSUME NEW len \in Nat, NEW S, 0 \in S,
           \A n \in 1..len : n - 1 \in S => n \in S
    PROVE  0..len \subseteq S
<1> SUFFICES ASSUME (0..len) \ S # {}  PROVE FALSE
  OBVIOUS
<1> DEFINE T == (0..len) \ S
<1>1. PICK m \in T : \A n \in T : m <= n
  <2>1. T \in SUBSET Nat /\ T # {}
    OBVIOUS
  <2> HIDE DEF T
  <2> QED  BY <2>1, NatLeast
<1>2. m \in 1..len /\ m - 1 \in 0..len /\ ~ (m <= m - 1)
  OBVIOUS
<1> QED  BY <1>1, <1>2

-----------------------------------------------------------------------------
(* The last index of some characters.                                      *)

\* A set of naturals up to len has a greatest element.
LEMMA MaxUpTo ==
    ASSUME NEW len \in Nat, NEW S \in SUBSET (0..len), S # {}
    PROVE  Max(S) \in S /\ \A i \in S : i <= Max(S)
<1> DEFINE T == {n \in 0..len : len - n \in S}
<1>1. PICK m \in T : \A n \in T : m <= n
  <2>1. T \in SUBSET Nat
    OBVIOUS
  <2>2. PICK x \in S : TRUE
    OBVIOUS
  <2>3. len - x \in T
    OBVIOUS
  <2> QED  BY <2>1, <2>3, NatLeast
<1>2. \A i \in S : len - i \in T
  OBVIOUS
<1>3. len - m \in S /\ \A i \in S : len - m >= i
  BY <1>1, <1>2
<1> QED  BY <1>3 DEF Max

LEMMA LastIndexIsLast ==
    ASSUME NEW name \in Seq(Chars), NEW chars
    PROVE  /\ LastIndex(name, chars) \in 0..Len(name)
           /\ LastIndex(name, chars) # 0 => name[LastIndex(name, chars)] \in chars
           /\ \A i \in (LastIndex(name, chars) + 1)..Len(name) : name[i] \notin chars
<1> DEFINE S == {0} \cup {i \in 1..Len(name) : name[i] \in chars}
<1>1. Len(name) \in Nat /\ S \in SUBSET (0..Len(name)) /\ S # {}
  OBVIOUS
<1>2. Max(S) \in S /\ \A i \in S : i <= Max(S)
  BY <1>1, MaxUpTo
<1>3. LastIndex(name, chars) = Max(S)
  BY DEF LastIndex
<1>4. Max(S) \in 0..Len(name) /\ (Max(S) # 0 => name[Max(S)] \in chars)
  BY <1>1, <1>2
<1>5. \A i \in (Max(S) + 1)..Len(name) : name[i] \notin chars
  <2>1. \A i \in (Max(S) + 1)..Len(name) : i \in 1..Len(name) /\ ~ (i <= Max(S))
    BY <1>1, <1>4
  <2> QED  BY <1>2, <2>1
<1> QED  BY <1>3, <1>4, <1>5

\* The basename has no separator, and loses nothing of a name without one.
LEMMA BasenameIsSegment ==
    ASSUME NEW name \in Seq(Chars)
    PROVE  /\ Basename(name) \in Seq(Chars \ Separators)
           /\ name \in Seq(Chars \ Separators) => Basename(name) = name
<1> DEFINE last == LastIndex(name, Separators)
<1>1. /\ last \in 0..Len(name)
      /\ last # 0 => name[last] \in Separators
      /\ \A i \in (last + 1)..Len(name) : name[i] \notin Separators
  BY LastIndexIsLast
<1>2. \A i \in (last + 1)..Len(name) : name[i] \in Chars \ Separators
  BY <1>1
<1>3. SubSeq(name, last + 1, Len(name)) \in Seq(Chars \ Separators)
  <2> HIDE DEF last
  <2> QED  BY <1>1, <1>2, SubSeqProperties
<1>4. ASSUME name \in Seq(Chars \ Separators)
      PROVE  Basename(name) = name
  <2>1. last = 0
    BY <1>1, <1>4
  <2> QED  BY <2>1, SubSeqFull DEF Basename
<1> QED  BY <1>3, <1>4 DEF Basename

\* What strip() takes of the end are spaces.
LEMMA StripEndTakesSpaces ==
    ASSUME NEW name \in Seq(Chars \ Separators)
    PROVE  /\ StripEnd(name) \in Seq(Chars \ Separators)
           /\ Len(StripEnd(name)) \in 0..Len(name)
           /\ \A i \in 1..Len(StripEnd(name)) : StripEnd(name)[i] = name[i]
           /\ \A i \in (Len(StripEnd(name)) + 1)..Len(name) : name[i] = " "
<1>1. /\ name \in Seq(Chars) /\ Len(name) \in Nat
      /\ \A i \in 1..Len(name) : name[i] \in Chars \ Separators
  OBVIOUS
<1>2. PICK last \in 0..Len(name) :
          /\ last = LastIndex(name, Chars \ {" "})
          /\ \A i \in (last + 1)..Len(name) : name[i] \notin Chars \ {" "}
  BY <1>1, LastIndexIsLast
<1>3. 1 \in Int /\ last \in Int /\ last - 1 + 1 = last /\ \A i \in 1..last : 1 + i - 1 = i
  BY <1>1
<1>4. /\ SubSeq(name, 1, last) \in Seq(Chars \ Separators)
      /\ Len(SubSeq(name, 1, last)) = last
      /\ \A i \in 1..last : SubSeq(name, 1, last)[i] = name[i]
  <2>1. \A i \in 1..last : name[i] \in Chars \ Separators
    <3>1. \A i \in 1..last : i \in 1..Len(name)
      <4>1. Len(name) \in Nat
        BY <1>1
      <4> QED  BY <4>1
    <3> QED  BY <1>1, <3>1
  <2>2. /\ SubSeq(name, 1, last) \in Seq(Chars \ Separators)
        /\ Len(SubSeq(name, 1, last)) = IF 1 <= last THEN last - 1 + 1 ELSE 0
        /\ \A i \in 1..(last - 1 + 1) : SubSeq(name, 1, last)[i] = name[1 + i - 1]
    BY <1>3, <2>1, SubSeqProperties
  <2> QED  BY <1>3, <2>2
<1>5. \A i \in (last + 1)..Len(name) : name[i] = " "
  <2>1. \A i \in (last + 1)..Len(name) : i \in 1..Len(name)
    BY <1>1
  <2> QED  BY <1>1, <1>2, <2>1
<1> QED  BY <1>1, <1>2, <1>4, <1>5 DEF StripEnd

-----------------------------------------------------------------------------
(* What is left of a name without its unprintable characters.              *)

\* The equation that defines Kept has a solution.
LEMMA KeptExists ==
    ASSUME NEW name, Len(name) \in Nat
    PROVE  \E kept : kept = [n \in 0..Len(name) |->
               IF n = 0 THEN <<>>
               ELSE IF name[n] = "control" THEN kept[n - 1]
                                           ELSE Append(kept[n - 1], name[n])]
<1> DEFINE Step(g, n) == IF n = 0 THEN <<>>
                         ELSE IF name[n] = "control" THEN g[n - 1]
                                                     ELSE Append(g[n - 1], name[n])
           S == {m \in 0..Len(name) : \E g : g = [n \in 0..m |-> Step(g, n)]}
<1>1. 0 \in S
  <2> DEFINE h == [n \in 0..0 |-> <<>>]
  <2>1. h = [n \in 0..0 |-> Step(h, n)]
    OBVIOUS
  <2> HIDE DEF h
  <2> QED  BY <2>1
<1>2. ASSUME NEW m \in 1..Len(name), m - 1 \in S
      PROVE  m \in S
  <2>1. PICK g : g = [n \in 0..(m - 1) |-> Step(g, n)]
    BY <1>2
  <2> DEFINE h == [n \in 0..m |-> IF n = m THEN Step(g, m) ELSE g[n]]
  <2>2. \A n \in 0..m : n # m => n \in 0..(m - 1)
    OBVIOUS
  <2>3. \A n \in 0..m : n # 0 => n - 1 \in 0..m /\ n - 1 # m /\ h[n - 1] = g[n - 1]
    OBVIOUS
  <2>4. ASSUME NEW n \in 0..m
        PROVE  h[n] = Step(h, n)
    <3>1. n # 0 => h[n - 1] = g[n - 1]
      BY <2>3
    <3>2. n # m => g[n] = Step(g, n)
      BY <2>1, <2>2
    <3>3. h[n] = Step(g, n)
      BY <3>2
    <3> QED  BY <3>1, <3>3
  <2>5. h = [n \in 0..m |-> Step(h, n)]
    BY <2>4
  <2> HIDE DEF h
  <2> QED  BY <2>5
<1>3. Len(name) \in S
  <2> HIDE DEF S
  <2>1. 0..Len(name) \subseteq S
    BY <1>1, <1>2, NatInductionUpTo
  <2> QED  BY <2>1
<1> QED  BY <1>3

LEMMA KeptIsKept ==
    ASSUME NEW name, Len(name) \in Nat
    PROVE  /\ Kept(name)[0] = <<>>
           /\ \A n \in 1..Len(name) :
                Kept(name)[n] = IF name[n] = "control" THEN Kept(name)[n - 1]
                                ELSE Append(Kept(name)[n - 1], name[n])
<1> DEFINE Sol(kept) == kept = [n \in 0..Len(name) |->
               IF n = 0 THEN <<>>
               ELSE IF name[n] = "control" THEN kept[n - 1]
                                           ELSE Append(kept[n - 1], name[n])]
<1>1. \E kept : Sol(kept)
  BY KeptExists
<1>2. Kept(name) = CHOOSE kept : Sol(kept)
  BY DEF Kept
<1>3. Sol(Kept(name))
  <2> HIDE DEF Sol
  <2> QED  BY <1>1, <1>2
<1>4. \A n \in 1..Len(name) : n \in 0..Len(name) /\ n # 0
  OBVIOUS
<1>5. 0 \in 0..Len(name)
  OBVIOUS
<1> QED  BY <1>3, <1>4, <1>5

\* Only printable characters are left, each one of the name.
LEMMA PrintableIsPrintable ==
    ASSUME NEW C, NEW name \in Seq(C)
    PROVE  Printable(name) \in Seq(C \ {"control"})
<1> DEFINE S == {n \in 0..Len(name) : Kept(name)[n] \in Seq(C \ {"control"})}
<1>1. Len(name) \in Nat /\ \A n \in 1..Len(name) : name[n] \in C
  OBVIOUS
<1>2. 0 \in S
  <2>1. Kept(name)[0] = <<>>
    BY <1>1, KeptIsKept
  <2>2. 0 \in 0..Len(name)
    BY <1>1
  <2> QED  BY <2>1, <2>2, EmptySeq
<1>3. ASSUME NEW n \in 1..Len(name), n - 1 \in S
      PROVE  n \in S
  <2>1. Kept(name)[n - 1] \in Seq(C \ {"control"})
    BY <1>3
  <2>2. ASSUME name[n] = "control"
        PROVE  Kept(name)[n] \in Seq(C \ {"control"})
    <3>1. Kept(name)[n] = Kept(name)[n - 1]
      BY <1>1, <2>2, KeptIsKept
    <3> QED  BY <2>1, <3>1
  <2>3. ASSUME name[n] # "control"
        PROVE  Kept(name)[n] \in Seq(C \ {"control"})
    <3>1. Kept(name)[n] = Append(Kept(name)[n - 1], name[n])
      BY <1>1, <2>3, KeptIsKept
    <3>2. name[n] \in C \ {"control"}
      BY <1>1, <2>3
    <3>3. Append(Kept(name)[n - 1], name[n]) \in Seq(C \ {"control"})
      BY <2>1, <3>2, AppendProperties
    <3> QED  BY <3>1, <3>3
  <2>4. n \in 0..Len(name)
    BY <1>1
  <2> QED  BY <2>2, <2>3, <2>4
<1>4. Len(name) \in S
  <2> HIDE DEF S
  <2>1. 0..Len(name) \subseteq S
    BY <1>1, <1>2, <1>3, NatInductionUpTo
  <2> QED  BY <1>1, <2>1
<1> QED  BY <1>4 DEF Printable

Segments == Seq((Chars \ Separators) \ {"control"})

\* A name that is not refused is one printable segment, and not dots.
LEMMA SanitizedIsUsable ==
    ASSUME NEW name \in Seq(Chars)
    PROVE  Sanitized(name) \in Segments /\ Sanitized(name) \notin Dots
<1>1. Basename(name) \in Seq(Chars \ Separators)
  BY BasenameIsSegment
<1>2. Printable(Basename(name)) \in Segments
  BY <1>1, PrintableIsPrintable DEF Segments
<1>3. NoName \in Segments /\ NoName \notin Dots
  BY EmptySeq DEF NoName, Segments, Dots
<1> QED  BY <1>2, <1>3 DEF Sanitized

\* A request without a file has no name to store.
LEMMA SanitizedOfNone == Sanitized(NoName) = NoName
<1>1. Basename(NoName) = NoName
  <2>1. NoName \in Seq(Chars \ Separators) /\ NoName \in Seq(Chars)
    BY EmptySeq DEF NoName
  <2> QED  BY <2>1, BasenameIsSegment
<1>2. Len(NoName) = 0 /\ Len(NoName) \in Nat
  BY EmptySeq DEF NoName
<1>3. Printable(NoName) = NoName
  BY <1>2, KeptIsKept DEF Printable, NoName
<1> QED  BY <1>1, <1>3 DEF Sanitized

LEMMA SegmentsAreNames ==
    ASSUME NEW name \in Segments
    PROVE  name \in Seq(Chars \ Separators) /\ name \in Seq(Chars)
<1>1. \A i \in 1..Len(name) : name[i] \in (Chars \ Separators) \ {"control"}
  BY ElementOfSeq DEF Segments
<1>2. Len(name) \in Nat /\ name = [i \in 1..Len(name) |-> name[i]]
  BY LenProperties DEF Segments
<1> QED  BY <1>1, <1>2

-----------------------------------------------------------------------------
(* The loop over the parts.                                                *)

Good(part) == part.kind # "other" => part.good

\* i is the only file among the first n parts.
OnlyFile(f, i, n) == i \in 1..n /\ \A j \in 1..n : IsFile(f[j]) <=> j = i

\* What the handler knows of the parts it has read.
ReadInv ==
    /\ \A i \in 1..(next - 1) : Good(form[i])
    /\ file = NoName => \A i \in 1..(next - 1) : ~ IsFile(form[i])
    /\ file # NoName => \E i \in 1..(next - 1) :
            OnlyFile(form, i, next - 1) /\ file = form[i].filename

UploadFormInv ==
    /\ form \in Seq(FormPart)
    /\ TypeOK
    /\ at = "parts" => ReadInv
    /\ at = "rejected" => ~ WellFormed
    /\ at \in {"stored", "transcoded", "failed"} =>
            WellFormed /\ key \in Segments /\ key \notin Dots \cup {NoName}
    /\ at = "transcoded" => processedKey = StripEnd(key)
    /\ at = "failed" => StripEnd(key) = NoName

LEMMA WellFormedIs ==
    ASSUME form \in Seq(FormPart)
    PROVE  WellFormed <=>
             /\ \A i \in 1..Len(form) : Good(form[i])
             /\ \E i \in 1..Len(form) : /\ OnlyFile(form, i, Len(form))
                                        /\ Sanitized(form[i].filename) # NoName
<1>1. DOMAIN form = 1..Len(form)
  BY LenProperties
<1> QED  BY <1>1 DEF WellFormed, Good, OnlyFile

-----------------------------------------------------------------------------
LEMMA FormStart == Init => UploadFormInv
<1> SUFFICES ASSUME Init  PROVE UploadFormInv
  OBVIOUS
<1>1. form \in Seq(FormPart)
  BY UploadFormAssumption DEF Init
<1>2. Len(form) \in Nat
  BY <1>1
<1>3. NoName \in Seq(Chars) /\ NoName \in Seq(Chars \ Separators)
  BY EmptySeq DEF NoName
<1>4. TypeOK
  BY <1>2, <1>3 DEF Init, TypeOK
<1>5. ReadInv
  BY DEF Init, ReadInv
<1> QED  BY <1>1, <1>4, <1>5 DEF Init, UploadFormInv

LEMMA ReadPartKeeps ==
    ASSUME UploadFormInv, ReadPart
    PROVE  UploadFormInv'
<1> DEFINE part == form[next]
<1>1. /\ form \in Seq(FormPart) /\ Len(form) \in Nat /\ next \in 1..Len(form)
      /\ part \in FormPart /\ UNCHANGED <<form, processedKey, key>>
      /\ next' = next + 1 /\ next' \in 1..(Len(form) + 1)
      /\ 1..(next' - 1) = (1..(next - 1)) \cup {next} /\ next \notin 1..(next - 1)
      /\ next' - 1 \in Nat
      /\ 1..(next' - 1) \subseteq 1..Len(form)
  <2>1. form \in Seq(FormPart) /\ Len(form) \in Nat
    BY DEF UploadFormInv
  <2>2. next \in 1..Len(form) /\ UNCHANGED <<form, processedKey, key>> /\ next' = next + 1
    BY <2>1 DEF UploadFormInv, TypeOK, ReadPart, Reject
  <2>3. part \in FormPart
    BY <2>1, <2>2, ElementOfSeq
  <2> QED  BY <2>1, <2>2, <2>3
<1>2. at = "parts" /\ ReadInv /\ TypeOK
  BY DEF UploadFormInv, ReadPart
<1>3. WellFormed' <=> WellFormed
  BY <1>1 DEF WellFormed
<1>4. CASE (part.kind # "other" /\ ~ part.good) /\ Reject
  <2>1. ~ Good(form[next])
    BY <1>4 DEF Good
  <2>2. ~ WellFormed
    BY <1>1, <2>1, WellFormedIs
  <2>3. TypeOK'
    BY <1>1, <1>2, <1>4 DEF TypeOK, Reject
  <2> QED  BY <1>1, <1>3, <1>4, <2>2, <2>3 DEF UploadFormInv, Reject
<1>5. CASE (IsFile(part) /\ file # NoName) /\ Reject
  <2>1. PICK i \in 1..(next - 1) : IsFile(form[i])
    BY <1>2, <1>5 DEF ReadInv, OnlyFile
  <2>2. i # next /\ i \in 1..Len(form) /\ IsFile(form[next])
    BY <1>1, <1>5, <2>1
  <2>3. ~ WellFormed
    BY <1>1, <2>1, <2>2, WellFormedIs DEF OnlyFile
  <2>4. TypeOK'
    BY <1>1, <1>2, <1>5 DEF TypeOK, Reject
  <2> QED  BY <1>1, <1>3, <1>5, <2>3, <2>4 DEF UploadFormInv, Reject
<1>6. ASSUME Good(part), \A i \in 1..(next - 1) : Good(form[i])
      PROVE  \A i \in 1..(next' - 1) : Good(form'[i])
  BY <1>1, <1>6
<1>7. CASE /\ Good(part) /\ IsFile(part) /\ file = NoName
           /\ file' = part.filename /\ UNCHANGED <<at, key>>
  <2>1. \A i \in 1..(next - 1) : ~ IsFile(form[i])
    BY <1>2, <1>7 DEF ReadInv
  <2>2. OnlyFile(form', next, next' - 1) /\ next \in 1..(next' - 1)
    BY <1>1, <1>7, <2>1 DEF OnlyFile, IsFile
  <2>3. file' # NoName /\ file' \in Seq(Chars)
    BY <1>1, <1>7 DEF IsFile, FormPart
  <2>4. file' = form'[next].filename
    BY <1>1, <1>7
  <2>5. \A i \in 1..(next' - 1) : Good(form'[i])
    BY <1>2, <1>6, <1>7 DEF ReadInv
  <2>6. ReadInv'
    BY <2>2, <2>3, <2>4, <2>5 DEF ReadInv
  <2>7. TypeOK'
    BY <1>1, <1>2, <1>7, <2>3 DEF TypeOK
  <2> QED  BY <1>1, <1>2, <1>7, <2>6, <2>7 DEF UploadFormInv
<1>8. CASE Good(part) /\ ~ IsFile(part) /\ UNCHANGED <<at, file, key>>
  <2>1. \A i \in 1..(next' - 1) : Good(form'[i])
    BY <1>2, <1>6, <1>8 DEF ReadInv
  <2>2. file = NoName => \A i \in 1..(next' - 1) : ~ IsFile(form'[i])
    BY <1>1, <1>2, <1>8 DEF ReadInv
  <2>3. ASSUME file # NoName
        PROVE  \E i \in 1..(next' - 1) : OnlyFile(form', i, next' - 1) /\ file = form'[i].filename
    <3>1. PICK i \in 1..(next - 1) : OnlyFile(form, i, next - 1) /\ file = form[i].filename
      BY <1>2, <2>3 DEF ReadInv
    <3>2. i # next /\ i \in 1..(next' - 1)
      BY <1>1
    <3>3. \A j \in 1..(next' - 1) : IsFile(form'[j]) <=> j = i
      BY <1>1, <1>8, <3>1, <3>2 DEF OnlyFile
    <3> QED  BY <1>1, <3>1, <3>2, <3>3 DEF OnlyFile
  <2>4. ReadInv'
    BY <1>8, <2>1, <2>2, <2>3 DEF ReadInv
  <2>5. TypeOK'
    BY <1>1, <1>2, <1>8 DEF TypeOK
  <2> QED  BY <1>1, <1>2, <1>8, <2>4, <2>5 DEF UploadFormInv
<1> QED  BY <1>4, <1>5, <1>7, <1>8 DEF ReadPart, Good

LEMMA StoreKeeps ==
    ASSUME UploadFormInv, Store
    PROVE  UploadFormInv'
<1>1. /\ form \in Seq(FormPart) /\ Len(form) \in Nat /\ TypeOK /\ ReadInv
      /\ next - 1 = Len(form) /\ UNCHANGED <<form, next, processedKey, file>>
  <2>1. form \in Seq(FormPart) /\ Len(form) \in Nat
    BY DEF UploadFormInv
  <2> QED  BY <2>1 DEF UploadFormInv, TypeOK, Store, Reject
<1>2. WellFormed' <=> WellFormed
  BY <1>1 DEF WellFormed
<1>3. WellFormed <=> Sanitized(file) # NoName
  <2>1. CASE file = NoName
    <3>1. \A i \in 1..Len(form) : ~ IsFile(form[i])
      BY <1>1, <2>1 DEF ReadInv
    <3>2. ~ WellFormed
      BY <1>1, <3>1, WellFormedIs DEF OnlyFile
    <3> QED  BY <2>1, <3>2, SanitizedOfNone
  <2>2. CASE file # NoName
    <3>1. PICK i \in 1..Len(form) :
              OnlyFile(form, i, Len(form)) /\ file = form[i].filename
      BY <1>1, <2>2 DEF ReadInv
    <3>2. \A j \in 1..Len(form) : OnlyFile(form, j, Len(form)) => j = i
      BY <3>1 DEF OnlyFile
    <3>3. \A j \in 1..Len(form) : Good(form[j])
      BY <1>1 DEF ReadInv
    <3> QED  BY <1>1, <3>1, <3>2, <3>3, WellFormedIs
  <2> QED  BY <2>1, <2>2
<1>4. CASE Sanitized(file) = NoName /\ Reject
  <2>1. TypeOK'
    BY <1>1, <1>4 DEF TypeOK, Reject
  <2> QED  BY <1>1, <1>2, <1>3, <1>4, <2>1 DEF UploadFormInv, Reject
<1>5. CASE Sanitized(file) # NoName /\ key' = Sanitized(file) /\ at' = "stored"
  <2>1. key' \in Segments /\ key' \notin Dots
    BY <1>1, <1>5, SanitizedIsUsable DEF TypeOK
  <2>2. TypeOK'
    BY <1>1, <1>5, <2>1, SegmentsAreNames DEF TypeOK
  <2> QED  BY <1>1, <1>2, <1>3, <1>5, <2>1, <2>2 DEF UploadFormInv
<1> QED  BY <1>4, <1>5 DEF Store

\* Of a stored key the worker takes only the spaces at its end.
LEMMA TranscodeKeeps ==
    ASSUME UploadFormInv, Transcode
    PROVE  UploadFormInv'
<1>1. /\ TypeOK /\ WellFormed /\ key \in Segments /\ key \notin Dots \cup {NoName}
      /\ form \in Seq(FormPart) /\ UNCHANGED <<form, next, file, key>>
  BY DEF UploadFormInv, Transcode
<1>2. WellFormed'
  BY <1>1 DEF WellFormed
<1>3. StripEnd(key) \in Seq(Chars \ Separators)
  BY <1>1, SegmentsAreNames, StripEndTakesSpaces
<1>4. StripEnd(key) \in Seq(Chars)
  <2>1. \A i \in 1..Len(StripEnd(key)) : StripEnd(key)[i] \in Chars
    BY <1>3, ElementOfSeq
  <2> QED  BY <1>3, <2>1
<1>5. processedKey' = StripEnd(key)
  BY <1>3, <1>4, BasenameIsSegment DEF Transcode
<1>6. TypeOK'
  BY <1>1, <1>3, <1>5 DEF TypeOK, Transcode
<1> QED  BY <1>1, <1>2, <1>5, <1>6 DEF UploadFormInv, Transcode

LEMMA FormInvariance == Spec => []UploadFormInv
<1>1. UploadFormInv /\ [Next]_vars => UploadFormInv'
  <2> SUFFICES ASSUME UploadFormInv, [Next]_vars
               PROVE  UploadFormInv'
    OBVIOUS
  <2>1. CASE UNCHANGED vars
    <3>1. (WellFormed' <=> WellFormed) /\ (ReadInv' <=> ReadInv) /\ (TypeOK' <=> TypeOK)
      BY <2>1 DEF vars, WellFormed, ReadInv, TypeOK
    <3> QED  BY <2>1, <3>1 DEF vars, UploadFormInv
  <2> QED  BY <2>1, ReadPartKeeps, StoreKeeps, TranscodeKeeps DEF Next
<1> QED  BY <1>1, FormStart, PTL DEF Spec

-----------------------------------------------------------------------------
\* Every name the loop, the key and the worker hold is of the characters it may
\* have: no separator reaches a key.
THEOREM TypeCorrect == Spec => []TypeOK
<1>1. UploadFormInv => TypeOK
  BY DEF UploadFormInv
<1> QED  BY <1>1, FormInvariance, PTL

\* The loop of _parse_multipart and the checks after it accept the well-formed
\* requests and no other, however many parts a request has and in any order.
THEOREM WellFormedIsAccepted == Spec => []AcceptsWellFormed
<1>1. UploadFormInv => AcceptsWellFormed
  BY DEF UploadFormInv, AcceptsWellFormed
<1> QED  BY <1>1, FormInvariance, PTL

\* No file name, however long, reshapes the key of the object stored for it.
THEOREM KeyKeepsItsShape == Spec => []KeyIsOneSegment
<1>1. UploadFormInv => KeyIsOneSegment
  <2> SUFFICES ASSUME UploadFormInv, at = "stored"
               PROVE  /\ \A i \in DOMAIN key : key[i] \notin Separators \cup {"control"}
                      /\ key \notin Dots \cup {NoName}
    BY DEF KeyIsOneSegment
  <2>1. key \in Segments /\ key \notin Dots \cup {NoName}
    BY DEF UploadFormInv
  <2>2. DOMAIN key = 1..Len(key)
    BY <2>1, LenProperties DEF Segments
  <2>3. \A i \in DOMAIN key : key[i] \in (Chars \ Separators) \ {"control"}
    BY <2>1, <2>2, ElementOfSeq DEF Segments
  <2> QED  BY <2>1, <2>3
<1> QED  BY <1>1, FormInvariance, PTL

\* A row of n equal elements.
LEMMA Repeated ==
    ASSUME NEW n \in Nat, NEW S, NEW x \in S
    PROVE  [i \in 1..n |-> x] \in Seq(S) /\ Len([i \in 1..n |-> x]) = n
OBVIOUS

\* A name is what strip() leaves of it, followed by spaces.
LEMMA StrippedAndSpaces ==
    ASSUME NEW name \in Seq(Chars \ Separators)
    PROVE  \E n \in 0..Len(name) : name = StripEnd(name) \o [i \in 1..n |-> " "]
<1> DEFINE n == Len(name) - Len(StripEnd(name))
<1>1. /\ StripEnd(name) \in Seq(Chars \ Separators)
      /\ Len(name) \in Nat /\ Len(StripEnd(name)) \in Nat /\ n \in 0..Len(name)
      /\ Len(StripEnd(name)) + n = Len(name)
  <2>1. /\ StripEnd(name) \in Seq(Chars \ Separators)
        /\ Len(StripEnd(name)) \in 0..Len(name)
    BY StripEndTakesSpaces
  <2>2. Len(name) \in Nat
    BY LenProperties
  <2> QED  BY <2>1, <2>2
<1> HIDE DEF n
<1> DEFINE spaces == [i \in 1..n |-> " "]
<1>2. spaces \in Seq(Chars \ Separators) /\ Len(spaces) = n
  <2>1. " " \in Chars \ Separators
    BY DEF Chars, Separators
  <2>2. n \in Nat
    BY <1>1
  <2> QED  BY <2>1, <2>2, Repeated
<1>3. \A i \in 1..n : spaces[i] = " "
  OBVIOUS
<1> HIDE DEF spaces
<1> DEFINE both == StripEnd(name) \o spaces
<1>4. /\ both \in Seq(Chars \ Separators) /\ Len(both) = Len(name)
      /\ \A i \in 1..Len(name) : both[i] =
            IF i <= Len(StripEnd(name)) THEN StripEnd(name)[i]
                                        ELSE spaces[i - Len(StripEnd(name))]
  BY <1>1, <1>2, ConcatProperties
<1>5. \A i \in 1..Len(name) : both[i] = name[i]
  <2>1. ASSUME NEW i \in 1..Len(name), i <= Len(StripEnd(name))
        PROVE  both[i] = name[i]
    <3>1. i \in 1..Len(StripEnd(name))
      BY <1>1, <2>1
    <3>2. StripEnd(name)[i] = name[i]
      BY <3>1, StripEndTakesSpaces
    <3> QED  BY <1>4, <2>1, <3>2
  <2>2. ASSUME NEW i \in 1..Len(name), ~ (i <= Len(StripEnd(name)))
        PROVE  both[i] = name[i]
    <3>1. /\ i \in (Len(StripEnd(name)) + 1)..Len(name)
          /\ i - Len(StripEnd(name)) \in 1..n
      BY <1>1, <2>2
    <3>2. name[i] = " " /\ spaces[i - Len(StripEnd(name))] = " "
      BY <1>3, <3>1, StripEndTakesSpaces
    <3> QED  BY <1>4, <2>2, <3>2
  <2> QED  BY <2>1, <2>2
<1>6. both = name
  <2> HIDE DEF both
  <2> QED  BY <1>4, <1>5, SeqEqual
<1> QED  BY <1>1, <1>6 DEF spaces

\* The processed object is named as the upload was but for spaces at the end, and
\* the worker refuses only the key of a name of nothing but spaces.
THEOREM NameIsKept == Spec => []NameSurvives
<1>1. UploadFormInv => NameSurvives
  <2> SUFFICES ASSUME UploadFormInv
               PROVE  NameSurvives
    OBVIOUS
  <2>1. ASSUME at \in {"transcoded", "failed"}
        PROVE  key \in Seq(Chars \ Separators) /\ DOMAIN key = 1..Len(key)
    BY <2>1, SegmentsAreNames, LenProperties DEF UploadFormInv
  <2>2. at = "transcoded" => \E n \in 0..Len(key) :
            key = processedKey \o [i \in 1..n |-> " "]
    BY <2>1, StrippedAndSpaces DEF UploadFormInv
  <2>3. at = "failed" => \A i \in DOMAIN key : key[i] = " "
    <3> SUFFICES ASSUME at = "failed"
                 PROVE  \A i \in 1..Len(key) : key[i] = " "
      BY <2>1
    <3>1. StripEnd(key) = <<>>
      BY DEF UploadFormInv, NoName
    <3>2. Len(StripEnd(key)) + 1 = 1
      BY <3>1, EmptySeq
    <3>3. \A i \in (Len(StripEnd(key)) + 1)..Len(key) : key[i] = " "
      BY <2>1, StripEndTakesSpaces
    <3> QED  BY <3>2, <3>3
  <2> QED  BY <2>2, <2>3 DEF NameSurvives
<1> QED  BY <1>1, FormInvariance, PTL

-----------------------------------------------------------------------------
(* What Pipeline takes as given of the names in its keys.                  *)

Names == Seq(Chars \ Separators) \ {NoName}

\* What strip() leaves does not end in a space.
LEMMA StripEndEnds ==
    ASSUME NEW name \in Seq(Chars \ Separators), StripEnd(name) # NoName
    PROVE  StripEnd(name)[Len(StripEnd(name))] # " "
<1>1. PICK last \in 0..Len(name) :
          /\ last = LastIndex(name, Chars \ {" "})
          /\ last # 0 => name[last] \in Chars \ {" "}
  <2>1. name \in Seq(Chars)
    OBVIOUS
  <2> QED  BY <2>1, LastIndexIsLast
<1>2. last \in Int /\ Len(name) \in Nat /\ 1 \in Int
  <2>1. Len(name) \in Nat
    BY LenProperties
  <2> QED  BY <2>1
<1>3. StripEnd(name) = SubSeq(name, 1, last)
  BY <1>1 DEF StripEnd
<1>4. last # 0
  <2>1. SubSeq(name, 1, 0) = <<>>
    BY SubSeqEmpty
  <2> QED  BY <1>3, <2>1 DEF NoName
<1>5. Len(StripEnd(name)) = last
  <2>1. \A i \in 1..last : name[i] \in Chars \ Separators
    <3>1. \A i \in 1..last : i \in 1..Len(name)
      BY <1>2
    <3> QED  BY <3>1, ElementOfSeq
  <2>2. Len(SubSeq(name, 1, last)) = IF 1 <= last THEN last - 1 + 1 ELSE 0
    BY <1>2, <2>1, SubSeqProperties
  <2> QED  BY <1>2, <1>3, <1>4, <2>2
<1>6. last \in 1..Len(StripEnd(name))
  BY <1>2, <1>4, <1>5
<1>7. StripEnd(name)[last] = name[last]
  BY <1>6, StripEndTakesSpaces
<1> QED  BY <1>1, <1>4, <1>5, <1>7

\* If nothing lies between b and the end, b is the end.
LEMMA EndOrBefore ==
    ASSUME NEW a \in Nat, NEW b \in 0..a, ~ (a \in (b + 1)..a)
    PROVE  b = a
OBVIOUS

\* A name that does not end in a space is left alone.
LEMMA StripEndLeaves ==
    ASSUME NEW name \in Names, name[Len(name)] # " "
    PROVE  StripEnd(name) = name
<1> DEFINE rest == StripEnd(name)
<1>1. name \in Seq(Chars \ Separators) /\ Len(name) \in Nat \ {0}
  BY EmptySeq DEF Names, NoName
<1>2. /\ rest \in Seq(Chars \ Separators)
      /\ Len(rest) \in 0..Len(name)
      /\ \A i \in 1..Len(rest) : rest[i] = name[i]
      /\ \A i \in (Len(rest) + 1)..Len(name) : name[i] = " "
  BY <1>1, StripEndTakesSpaces
<1> HIDE DEF rest
<1>3. Len(rest) = Len(name)
  BY <1>1, <1>2, EndOrBefore
<1>4. rest = name
  BY <1>1, <1>2, <1>3, SeqEqual
<1> QED  BY <1>4 DEF rest

\* The names of the keys are as Pipeline assumes: strip() makes a name of a name, or
\* nothing; the second strip, of the worker, takes nothing that the shim's has left;
\* the names left alone are those that do not end in a space; and the basename of the
\* stripped key is the whole of it.
THEOREM NamesFitPipeline ==
    /\ StripEnd(NoName) = NoName
    /\ \A name \in Names :
          /\ StripEnd(name) \in Names \cup {NoName}
          /\ StripEnd(StripEnd(name)) = StripEnd(name)
          /\ StripEnd(name) = name <=> name[Len(name)] # " "
          /\ Basename(StripEnd(name)) = StripEnd(name)
<1>1. StripEnd(NoName) = NoName
  <2>1. NoName \in Seq(Chars \ Separators) /\ Len(NoName) = 0
    BY EmptySeq DEF NoName
  <2>2. StripEnd(NoName) \in Seq(Chars \ Separators) /\ Len(StripEnd(NoName)) \in 0..0
    BY <2>1, StripEndTakesSpaces
  <2>3. Len(StripEnd(NoName)) \notin Nat \ {0}
    BY <2>2
  <2> QED  BY <2>2, <2>3, EmptySeq DEF NoName
<1>2. ASSUME NEW name \in Names
      PROVE  /\ StripEnd(name) \in Names \cup {NoName}
             /\ StripEnd(StripEnd(name)) = StripEnd(name)
             /\ StripEnd(name) = name <=> name[Len(name)] # " "
             /\ Basename(StripEnd(name)) = StripEnd(name)
  <2>1. name \in Seq(Chars \ Separators) /\ name # NoName
    BY DEF Names
  <2>2. StripEnd(name) \in Seq(Chars \ Separators)
    BY <2>1, StripEndTakesSpaces
  <2>3. StripEnd(name) \in Names \cup {NoName}
    BY <2>2 DEF Names
  <2>4. StripEnd(StripEnd(name)) = StripEnd(name)
    BY <1>1, <2>1, <2>3, StripEndEnds, StripEndLeaves
  <2>5. StripEnd(name) = name <=> name[Len(name)] # " "
    BY <2>1, StripEndEnds, StripEndLeaves
  <2>6. StripEnd(name) \in Seq(Chars)
    <3>1. \A i \in 1..Len(StripEnd(name)) : StripEnd(name)[i] \in Chars
      BY <2>2, ElementOfSeq
    <3> QED  BY <2>2, <3>1
  <2>7. Basename(StripEnd(name)) = StripEnd(name)
    BY <2>2, <2>6, BasenameIsSegment
  <2> QED  BY <2>3, <2>4, <2>5, <2>7
<1> QED  BY <1>1, <1>2
=============================================================================
