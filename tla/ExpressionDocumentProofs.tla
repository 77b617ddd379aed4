---------------------- MODULE ExpressionDocumentProofs ----------------------
(***************************************************************************)
(* Proofs about ExpressionDocument, for documents of any length: a document   *)
(* shows, and means, exactly what its cells do, _compact changes neither, and   *)
(* inserting and deleting at a position do to the cells what the same         *)
(* operation does to a flat line, however the spans are cut and joined.       *)
(*                                                                         *)
(* The module's folds are functions on sets of indices. They are first shown   *)
(* to work from the first element to the last; then every fact about a         *)
(* document follows by induction on its length (SetInduction, from the well-   *)
(* foundedness of < on the natural numbers).                                 *)
(***************************************************************************)
EXTENDS ExpressionDocument, SequenceTheorems, WellFoundedInduction, TLAPS

\* A set of numbers with 0 and the successor of each of its elements has them all.
LEMMA SetInduction ==
  ASSUME NEW S, S \subseteq Nat, 0 \in S, \A n \in S : n + 1 \in S
  PROVE  S = Nat
<1> DEFINE R == OpToRel(<, Nat)
           T == Nat \ S
<1> SUFFICES ASSUME T # {} PROVE FALSE
  OBVIOUS
<1>1. IsWellFoundedOn(R, Nat)
  BY NatLessThanWellFounded
<1>2. \A a, b \in Nat : a < b => <<a, b>> \in R
  BY DEF OpToRel
<1> HIDE DEF R
<1>3. PICK n \in T : \A m \in T : ~(<<m, n>> \in R)
  BY <1>1, WFMin
<1>4. n # 0 /\ n \in Nat
  OBVIOUS
<1>5. n - 1 \in Nat /\ n - 1 < n
  BY <1>4
<1>6. n - 1 \notin T
  BY <1>2, <1>3, <1>5, <1>4
<1> QED
  BY <1>5, <1>6

-----------------------------------------------------------------------------
(***************************************************************************)
(* Sequences, whatever their elements.                                     *)
(***************************************************************************)

IsSeq(s) == s \in Seq(Range(s))

\* A sequence is one of its own elements.
LEMMA SeqIsSeq ==
  ASSUME NEW S, NEW s \in Seq(S)
  PROVE  IsSeq(s)
BY SeqOfRange DEF IsSeq

\* A function on an initial segment of the numbers.
LEMMA FunctionIsSeq ==
  ASSUME NEW n \in Nat, NEW s, DOMAIN s = 1..n, s = [i \in DOMAIN s |-> s[i]]
  PROVE  IsSeq(s) /\ Len(s) = n
<1>1. s \in [1..n -> Range(s)]
  BY DEF Range
<1>2. s \in Seq(Range(s))
  BY <1>1
<1> QED
  BY <1>1, <1>2 DEF IsSeq

LEMMA SeqFacts ==
  ASSUME NEW s, IsSeq(s)
  PROVE  /\ Len(s) \in Nat
         /\ DOMAIN s = 1..Len(s)
         /\ s = [i \in 1..Len(s) |-> s[i]]
BY DEF IsSeq

LEMMA EqualSeqs ==
  ASSUME NEW s, NEW t, IsSeq(s), IsSeq(t), Len(s) = Len(t), \A i \in 1..Len(s) : s[i] = t[i]
  PROVE  s = t
BY SeqFacts

LEMMA EmptyIsSeq == IsSeq(<<>>) /\ Len(<<>>) = 0
<1>1. <<>> \in Seq({})
  OBVIOUS
<1> QED
  BY <1>1, SeqIsSeq

LEMMA NoElements ==
  ASSUME NEW s, IsSeq(s)
  PROVE  s = <<>> <=> Len(s) = 0
BY EmptySeq DEF IsSeq

LEMMA SingleIsSeq ==
  ASSUME NEW e
  PROVE  IsSeq(<<e>>) /\ Len(<<e>>) = 1 /\ <<e>>[1] = e
<1>1. <<e>> \in Seq({e})
  OBVIOUS
<1> QED
  BY <1>1, SeqIsSeq

LEMMA SingleSeq ==
  ASSUME NEW s, IsSeq(s), Len(s) = 1
  PROVE  s = <<s[1]>>
<1>1. IsSeq(<<s[1]>>) /\ Len(<<s[1]>>) = 1 /\ <<s[1]>>[1] = s[1]
  BY SingleIsSeq
<1>2. \A i \in 1..Len(s) : s[i] = <<s[1]>>[i]
  BY <1>1
<1> QED
  BY <1>1, <1>2, EqualSeqs

\* Two sequences are sequences over one set.
LEMMA Common ==
  ASSUME NEW s, NEW t, IsSeq(s), IsSeq(t)
  PROVE  s \in Seq(Range(s) \cup Range(t)) /\ t \in Seq(Range(s) \cup Range(t))
BY SeqMonotonic DEF IsSeq

LEMMA ConcatSeqs ==
  ASSUME NEW s, NEW t, IsSeq(s), IsSeq(t)
  PROVE  /\ IsSeq(s \o t)
         /\ Len(s \o t) = Len(s) + Len(t)
         /\ \A i \in 1..Len(s) : (s \o t)[i] = s[i]
         /\ \A i \in 1..Len(t) : (s \o t)[Len(s) + i] = t[i]
<1>1. s \in Seq(Range(s) \cup Range(t)) /\ t \in Seq(Range(s) \cup Range(t))
  BY Common
<1>2. Len(s) \in Nat /\ Len(t) \in Nat
  BY SeqFacts
<1>3. s \o t \in Seq(Range(s) \cup Range(t))
  BY <1>1, ConcatProperties
<1>4. /\ Len(s \o t) = Len(s) + Len(t)
      /\ \A i \in 1..Len(s) + Len(t) : (s \o t)[i] = IF i <= Len(s) THEN s[i] ELSE t[i - Len(s)]
  BY <1>1, ConcatProperties
<1>5. \A i \in 1..Len(t) : /\ Len(s) + i \in 1..Len(s) + Len(t) /\ ~(Len(s) + i <= Len(s))
                           /\ (Len(s) + i) - Len(s) = i
  BY <1>2
<1>6. \A i \in 1..Len(s) : i \in 1..Len(s) + Len(t) /\ i <= Len(s)
  BY <1>2
<1> QED
  BY <1>3, <1>4, <1>5, <1>6, SeqIsSeq

LEMMA ConcatNothing ==
  ASSUME NEW s, IsSeq(s)
  PROVE  s \o <<>> = s /\ <<>> \o s = s
BY ConcatEmptySeq DEF IsSeq

LEMMA ConcatAssoc ==
  ASSUME NEW s, NEW t, NEW u, IsSeq(s), IsSeq(t), IsSeq(u)
  PROVE  (s \o t) \o u = s \o (t \o u)
<1> DEFINE S == Range(s) \cup Range(t) \cup Range(u)
<1>1. s \in Seq(S) /\ t \in Seq(S) /\ u \in Seq(S)
  BY SeqMonotonic DEF IsSeq
<1> QED
  BY <1>1, ConcatAssociative

LEMMA AppendSeqs ==
  ASSUME NEW s, IsSeq(s), NEW e
  PROVE  /\ IsSeq(Append(s, e))
         /\ Append(s, e) = s \o <<e>>
         /\ Append(s, e) # <<>>
         /\ Len(Append(s, e)) = Len(s) + 1
         /\ DOMAIN Append(s, e) = 1..Len(s) + 1
         /\ \A i \in 1..Len(s) : Append(s, e)[i] = s[i]
         /\ Append(s, e)[Len(s) + 1] = e
<1> DEFINE S == Range(s) \cup {e}
<1>1. s \in Seq(S) /\ e \in S
  BY SeqMonotonic DEF IsSeq
<1>2. Append(s, e) \in Seq(S)
  BY <1>1, AppendProperties
<1>3. IsSeq(Append(s, e)) /\ Append(s, e) = s \o <<e>>
  BY <1>1, <1>2, AppendIsConcat, SeqIsSeq
<1> HIDE DEF S
<1>4. /\ Append(s, e) # <<>>
      /\ Len(Append(s, e)) = Len(s) + 1
      /\ \A i \in 1..Len(s) : Append(s, e)[i] = s[i]
      /\ Append(s, e)[Len(s) + 1] = e
  BY <1>1, AppendProperties
<1> QED
  BY <1>3, <1>4, SeqFacts

LEMMA PartIsSeq ==
  ASSUME NEW s, IsSeq(s), NEW m \in Nat \ {0}, NEW n \in Nat, n <= Len(s)
  PROVE  /\ IsSeq(SubSeq(s, m, n))
         /\ Len(SubSeq(s, m, n)) = IF m <= n THEN n - m + 1 ELSE 0
         /\ \A i \in 1..n - m + 1 : SubSeq(s, m, n)[i] = s[m + i - 1]
<1>1. Len(s) \in Nat /\ \A i \in m..n : s[i] \in Range(s)
  BY SeqFacts DEF Range
<1>2. m \in Int /\ n \in Int
  OBVIOUS
<1>3. /\ SubSeq(s, m, n) \in Seq(Range(s))
      /\ Len(SubSeq(s, m, n)) = IF m <= n THEN n - m + 1 ELSE 0
      /\ \A i \in 1..n - m + 1 : SubSeq(s, m, n)[i] = s[m + i - 1]
  <2> DEFINE S == Range(s)
  <2>1. \A i \in m..n : s[i] \in S
    BY <1>1
  <2> HIDE DEF S
  <2>2. SubSeq(s, m, n) \in Seq(S)
    BY <1>2, <2>1, SubSeqProperties
  <2>3. Len(SubSeq(s, m, n)) = IF m <= n THEN n - m + 1 ELSE 0
    BY <1>2, <2>1, SubSeqProperties
  <2>4. \A i \in 1..n - m + 1 : SubSeq(s, m, n)[i] = s[m + i - 1]
    BY <1>2, <2>1, SubSeqProperties
  <2> QED
    BY <2>2, <2>3, <2>4 DEF S
<1> QED
  BY <1>3, SeqIsSeq

\* A sequence is any two of its halves.
LEMMA SplitSeq ==
  ASSUME NEW s, IsSeq(s), NEW n \in 0..Len(s)
  PROVE  /\ s = SubSeq(s, 1, n) \o SubSeq(s, n + 1, Len(s))
         /\ IsSeq(SubSeq(s, 1, n)) /\ Len(SubSeq(s, 1, n)) = n
         /\ IsSeq(SubSeq(s, n + 1, Len(s))) /\ Len(SubSeq(s, n + 1, Len(s))) = Len(s) - n
<1>1. Len(s) \in Nat /\ n \in Nat /\ n <= Len(s)
  BY SeqFacts
<1>2. SubSeq(s, 1, n) \o SubSeq(s, n + 1, Len(s)) = SubSeq(s, 1, Len(s))
  <2>1. 1 \in 1..Len(s) + 1 /\ n \in 1 - 1..Len(s) /\ Len(s) \in n..Len(s)
    BY <1>1
  <2> QED
    BY <2>1, ConcatAdjacentSubSeq DEF IsSeq
<1>3. SubSeq(s, 1, Len(s)) = s
  BY SubSeqFull DEF IsSeq
<1>4. IsSeq(SubSeq(s, 1, n)) /\ Len(SubSeq(s, 1, n)) = n
  BY <1>1, PartIsSeq
<1>5. IsSeq(SubSeq(s, n + 1, Len(s))) /\ Len(SubSeq(s, n + 1, Len(s))) = Len(s) - n
  BY <1>1, PartIsSeq
<1> QED
  BY <1>2, <1>3, <1>4, <1>5

\* The halves of a concatenation.
LEMMA Halves ==
  ASSUME NEW s, NEW t, IsSeq(s), IsSeq(t)
  PROVE  /\ SubSeq(s \o t, 1, Len(s)) = s
         /\ SubSeq(s \o t, Len(s) + 1, Len(s \o t)) = t
<1> DEFINE u == s \o t
<1>1. /\ IsSeq(u) /\ Len(u) = Len(s) + Len(t)
      /\ \A i \in 1..Len(s) : u[i] = s[i]
      /\ \A i \in 1..Len(t) : u[Len(s) + i] = t[i]
  BY ConcatSeqs
<1>2. Len(s) \in Nat /\ Len(t) \in Nat
  BY SeqFacts
<1> HIDE DEF u
<1>3. SubSeq(u, 1, Len(s)) = s
  <2>1. /\ IsSeq(SubSeq(u, 1, Len(s))) /\ Len(SubSeq(u, 1, Len(s))) = Len(s)
        /\ \A i \in 1..Len(s) : SubSeq(u, 1, Len(s))[i] = u[i]
    BY <1>1, <1>2, PartIsSeq
  <2> QED
    BY <1>1, <2>1, EqualSeqs
<1>4. SubSeq(u, Len(s) + 1, Len(u)) = t
  <2>1. /\ IsSeq(SubSeq(u, Len(s) + 1, Len(u))) /\ Len(SubSeq(u, Len(s) + 1, Len(u))) = Len(t)
        /\ \A i \in 1..Len(t) : SubSeq(u, Len(s) + 1, Len(u))[i] = u[Len(s) + i]
    BY <1>1, <1>2, PartIsSeq
  <2> QED
    BY <1>1, <2>1, EqualSeqs
<1> QED
  BY <1>3, <1>4 DEF u

\* Inserting between two parts, and taking out what is between them.
LEMMA InsertedBetween ==
  ASSUME NEW s, NEW t, IsSeq(s), IsSeq(t), NEW e
  PROVE  InsertAt(s \o t, Len(s) + 1, e) = s \o <<e>> \o t
<1>1. Len(s) \in Nat /\ Len(s) + 1 - 1 = Len(s)
  BY SeqFacts
<1>2. /\ SubSeq(s \o t, 1, Len(s)) = s
      /\ SubSeq(s \o t, Len(s) + 1, Len(s \o t)) = t
  BY Halves
<1>3. SubSeq(s \o t, 1, (Len(s) + 1) - 1) = s
  BY <1>1, <1>2
<1> QED
  BY <1>2, <1>3 DEF InsertAt

LEMMA RemovedBetween ==
  ASSUME NEW s, NEW t, IsSeq(s), IsSeq(t), NEW e
  PROVE  RemoveAt(s \o <<e>> \o t, Len(s) + 1) = s \o t
<1> DEFINE a == s \o <<e>>
<1>1. IsSeq(<<e>>) /\ Len(<<e>>) = 1
  BY SingleIsSeq
<1>2. IsSeq(a) /\ Len(a) = Len(s) + 1
  BY <1>1, ConcatSeqs
<1>3. a \o t = s \o (<<e>> \o t) /\ IsSeq(<<e>> \o t)
  BY <1>1, ConcatAssoc, ConcatSeqs
<1>4. SubSeq(a \o t, 1, Len(s)) = s
  BY <1>3, Halves
<1> HIDE DEF a
<1>5. SubSeq(a \o t, Len(a) + 1, Len(a \o t)) = t
  BY <1>2, Halves
<1>6. Len(s) \in Nat /\ Len(s) + 1 - 1 = Len(s) /\ (Len(s) + 1) + 1 = Len(a) + 1
  BY <1>2, SeqFacts
<1>7. RemoveAt(a \o t, Len(s) + 1) = s \o t
  <2>1. SubSeq(a \o t, 1, (Len(s) + 1) - 1) = s
    BY <1>4, <1>6
  <2>2. SubSeq(a \o t, (Len(s) + 1) + 1, Len(a \o t)) = t
    BY <1>5, <1>6
  <2> QED
    BY <2>1, <2>2 DEF RemoveAt
<1> QED
  BY <1>7 DEF a

-----------------------------------------------------------------------------
(***************************************************************************)
(* The folds of ExpressionDocument. FoldLeft looks its results up in a         *)
(* function on sets of indices; here they become a sequence of steps.        *)
(***************************************************************************)

LEMMA LargestIndex ==
  ASSUME NEW n \in Nat, NEW s, s \subseteq 1..n + 1, n + 1 \in s
  PROVE  Max(s) = n + 1 /\ s \ {n + 1} \subseteq 1..n
<1>1. \A y \in s : n + 1 >= y
  OBVIOUS
<1>2. \A x \in s : (\A y \in s : x >= y) => x = n + 1
  OBVIOUS
<1>3. Max(s) = n + 1
  BY <1>1, <1>2, Zenon DEF Max
<1> QED
  BY <1>3

\* What the two folds do with the next element.
FoldStep(kind, done, next) == IF kind = "join" THEN done \o next ELSE Attached(done, next)

\* The function a fold looks its results up in, D being the indices.
FoldsOver(fold, kind, s, D) ==
  fold = [I \in SUBSET D |->
            IF I = {} THEN <<>> ELSE FoldStep(kind, fold[I \ {Max(I)}], s[Max(I)])]

Folded(kind, s) == (CHOOSE fold : FoldsOver(fold, kind, s, DOMAIN s))[DOMAIN s]

LEMMA JoinedIsFolded ==
  ASSUME NEW texts
  PROVE  Joined(texts) = Folded("join", texts)
<1> DEFINE Looked(fold) ==
             fold = [I \in SUBSET DOMAIN texts |->
                       IF I = {} THEN <<>> ELSE fold[I \ {Max(I)}] \o texts[Max(I)]]
<1>1. Joined(texts) = (CHOOSE fold : Looked(fold))[DOMAIN texts]
  BY Zenon DEF Joined, FoldLeft, MapThenFoldSet
<1>2. \A done, next : FoldStep("join", done, next) = done \o next
  BY DEF FoldStep
<1>3. \A fold : Looked(fold) <=> FoldsOver(fold, "join", texts, DOMAIN texts)
  BY <1>2 DEF FoldsOver
<1> HIDE DEF Looked
<1>4. (CHOOSE fold : Looked(fold)) = (CHOOSE fold : FoldsOver(fold, "join", texts, DOMAIN texts))
  BY <1>3
<1> QED
  BY <1>1, <1>4 DEF Folded

LEMMA CompactIsFolded ==
  ASSUME NEW spans
  PROVE  Compact(spans) = Folded("compact", spans)
<1> DEFINE Looked(fold) ==
             fold = [I \in SUBSET DOMAIN spans |->
                       IF I = {} THEN <<>> ELSE Attached(fold[I \ {Max(I)}], spans[Max(I)])]
<1>1. Compact(spans) = (CHOOSE fold : Looked(fold))[DOMAIN spans]
  BY Zenon DEF Compact, FoldLeft, MapThenFoldSet
<1>2. \A done, next : FoldStep("compact", done, next) = Attached(done, next)
  BY DEF FoldStep
<1>3. \A fold : Looked(fold) <=> FoldsOver(fold, "compact", spans, DOMAIN spans)
  BY <1>2 DEF FoldsOver
<1> HIDE DEF Looked
<1>4. (CHOOSE fold : Looked(fold)) = (CHOOSE fold : FoldsOver(fold, "compact", spans, DOMAIN spans))
  BY <1>3
<1> QED
  BY <1>1, <1>4 DEF Folded

\* There is such a function: one index more needs the results without it only.
LEMMA FoldsExist ==
  ASSUME NEW kind, NEW t, NEW n \in Nat
  PROVE  \E fold : FoldsOver(fold, kind, t, 1..n)
<1> DEFINE S == {k \in Nat : \E fold : FoldsOver(fold, kind, t, 1..k)}
<1>1. 0 \in S
  <2>1. FoldsOver([I \in SUBSET (1..0) |-> <<>>], kind, t, 1..0)
    <3>1. \A I \in SUBSET (1..0) : I = {}
      OBVIOUS
    <3> QED
      BY <3>1 DEF FoldsOver
  <2> QED
    BY <2>1
<1>2. ASSUME NEW k \in S PROVE k + 1 \in S
  <2>1. PICK fold : FoldsOver(fold, kind, t, 1..k)
    OBVIOUS
  <2> DEFINE longer == [I \in SUBSET (1..k + 1) |->
                          IF k + 1 \in I THEN FoldStep(kind, fold[I \ {k + 1}], t[k + 1]) ELSE fold[I]]
  <2>2. ASSUME NEW I \in SUBSET (1..k + 1)
        PROVE  longer[I] = IF I = {} THEN <<>> ELSE FoldStep(kind, longer[I \ {Max(I)}], t[Max(I)])
    <3>1. CASE k + 1 \in I
      <4>1. Max(I) = k + 1 /\ I \ {k + 1} \subseteq 1..k
        BY <3>1, LargestIndex
      <4>2. longer[I \ {k + 1}] = fold[I \ {k + 1}]
        BY <4>1
      <4> QED
        BY <3>1, <4>1, <4>2
    <3>2. CASE k + 1 \notin I
      <4>1. I \in SUBSET (1..k) /\ longer[I] = fold[I]
        BY <3>2
      <4>2. fold[I] = IF I = {} THEN <<>> ELSE FoldStep(kind, fold[I \ {Max(I)}], t[Max(I)])
        BY <2>1, <4>1 DEF FoldsOver
      <4>3. longer[I \ {Max(I)}] = fold[I \ {Max(I)}]
        BY <3>2
      <4> QED
        BY <4>1, <4>2, <4>3
    <3> QED
      BY <3>1, <3>2
  <2> HIDE DEF longer
  <2>3. DOMAIN longer = SUBSET (1..k + 1) /\ longer = [I \in SUBSET (1..k + 1) |-> longer[I]]
    BY DEF longer
  <2>4. FoldsOver(longer, kind, t, 1..k + 1)
    BY <2>2, <2>3, Zenon DEF FoldsOver
  <2> QED
    BY <2>4
<1> HIDE DEF S
<1>3. S = Nat
  BY <1>1, <1>2, SetInduction DEF S
<1> QED
  BY <1>3 DEF S

\* The results of a fold along a sequence.
FoldSteps(f, kind, t) ==
  /\ Folded(kind, t) = f[Len(t)]
  /\ f[0] = <<>>
  /\ \A k \in 0..Len(t) - 1 : f[k + 1] = FoldStep(kind, f[k], t[k + 1])

LEMMA FoldedBySteps ==
  ASSUME NEW kind, NEW t, IsSeq(t)
  PROVE  \E f : FoldSteps(f, kind, t)
<1> DEFINE over == CHOOSE fold : FoldsOver(fold, kind, t, DOMAIN t)
           f == [k \in 0..Len(t) |-> over[1..k]]
<1>1. Len(t) \in Nat /\ DOMAIN t = 1..Len(t)
  BY SeqFacts
<1>2. Folded(kind, t) = over[DOMAIN t]
  BY DEF Folded
<1>3. FoldsOver(over, kind, t, 1..Len(t))
  BY <1>1, FoldsExist
<1> HIDE DEF over
<1>4. ASSUME NEW I \in SUBSET (1..Len(t))
      PROVE  over[I] = IF I = {} THEN <<>> ELSE FoldStep(kind, over[I \ {Max(I)}], t[Max(I)])
  BY <1>3 DEF FoldsOver
<1>5. f[0] = <<>>
  <2>1. 1..0 = {} /\ {} \in SUBSET (1..Len(t)) /\ 0 \in 0..Len(t)
    BY <1>1
  <2>2. over[{}] = <<>>
    BY <1>4, <2>1
  <2> QED
    BY <2>1, <2>2
<1>6. ASSUME NEW k \in 0..Len(t) - 1 PROVE f[k + 1] = FoldStep(kind, f[k], t[k + 1])
  <2> DEFINE I == 1..k + 1
  <2>1. /\ k \in Nat /\ k + 1 \in I /\ I \ {k + 1} = 1..k /\ I # {}
        /\ I \in SUBSET (1..Len(t)) /\ k \in 0..Len(t) /\ k + 1 \in 0..Len(t)
    BY <1>1
  <2>2. Max(I) = k + 1
    BY <2>1, LargestIndex
  <2>3. over[I] = FoldStep(kind, over[1..k], t[k + 1])
    <3> HIDE DEF I
    <3> QED
      BY <1>4, <2>1, <2>2
  <2> QED
    BY <2>1, <2>3
<1>7. Folded(kind, t) = f[Len(t)]
  BY <1>1, <1>2
<1>8. FoldSteps(f, kind, t)
  BY <1>5, <1>6, <1>7 DEF FoldSteps
<1> QED
  BY <1>8

LEMMA FoldedNothing ==
  ASSUME NEW kind
  PROVE  Folded(kind, <<>>) = <<>>
<1>1. PICK f : FoldSteps(f, kind, <<>>)
  BY EmptyIsSeq, FoldedBySteps
<1> QED
  BY <1>1, EmptyIsSeq DEF FoldSteps

\* One element more is one step more.
LEMMA FoldedAppend ==
  ASSUME NEW kind, NEW t, IsSeq(t), NEW e
  PROVE  Folded(kind, Append(t, e)) = FoldStep(kind, Folded(kind, t), e)
<1> DEFINE longer == Append(t, e)
           n == Len(t)
<1>1. /\ IsSeq(longer) /\ Len(longer) = n + 1 /\ longer[n + 1] = e
      /\ \A i \in 1..n : longer[i] = t[i]
      /\ n \in Nat
  BY AppendSeqs, SeqFacts
<1>2. PICK a : FoldSteps(a, kind, t)
  BY FoldedBySteps
<1>3. PICK b : FoldSteps(b, kind, longer)
  BY <1>1, FoldedBySteps
<1>4. /\ Folded(kind, t) = a[n] /\ a[0] = <<>>
      /\ \A k \in 0..n - 1 : a[k + 1] = FoldStep(kind, a[k], t[k + 1])
  BY <1>2 DEF FoldSteps
<1> HIDE DEF longer, n
<1>5. /\ Folded(kind, longer) = b[n + 1] /\ b[0] = <<>>
      /\ \A k \in 0..n : b[k + 1] = FoldStep(kind, b[k], longer[k + 1])
  <2>1. (n + 1) - 1 = n
    BY <1>1
  <2> QED
    BY <1>1, <1>3, <2>1 DEF FoldSteps
<1> DEFINE S == {k \in Nat : k <= n => a[k] = b[k]}
<1>6. 0 \in S
  BY <1>4, <1>5
<1>7. ASSUME NEW k \in S PROVE k + 1 \in S
  <2>1. ASSUME k + 1 <= n PROVE a[k + 1] = b[k + 1]
    <3>1. k \in 0..n - 1 /\ k \in 0..n /\ k + 1 \in 1..n /\ a[k] = b[k]
      BY <1>1, <2>1
    <3> QED
      BY <1>1, <1>4, <1>5, <3>1
  <2> QED
    BY <2>1
<1> HIDE DEF S
<1>8. S = Nat
  BY <1>6, <1>7, SetInduction DEF S
<1>9. a[n] = b[n]
  BY <1>1, <1>8 DEF S
<1>10. Folded(kind, longer) = FoldStep(kind, b[n], e)
  <2>1. n \in 0..n
    BY <1>1
  <2> QED
    BY <1>1, <1>5, <2>1, Zenon
<1>11. Folded(kind, longer) = FoldStep(kind, Folded(kind, t), e)
  BY <1>4, <1>9, <1>10
<1> QED
  BY <1>11 DEF longer

\* Joined and Compact from the first element to the last.
LEMMA JoinedStepwise ==
  /\ Joined(<<>>) = <<>>
  /\ \A texts, text : IsSeq(texts) => Joined(Append(texts, text)) = Joined(texts) \o text
BY JoinedIsFolded, FoldedNothing, FoldedAppend DEF FoldStep

LEMMA CompactStepwise ==
  /\ Compact(<<>>) = <<>>
  /\ \A spans, span : IsSeq(spans) => Compact(Append(spans, span)) = Attached(Compact(spans), span)
BY CompactIsFolded, FoldedNothing, FoldedAppend DEF FoldStep

-----------------------------------------------------------------------------
(***************************************************************************)
(* Texts and cells.                                                        *)
(***************************************************************************)

\* A text read character by character is shown, and meant, as it is.
LEMMA CellsOfTextFacts ==
  ASSUME NEW text, IsSeq(text)
  PROVE  /\ IsSeq(CellsOfText(text)) /\ Len(CellsOfText(text)) = Len(text)
         /\ \A i \in 1..Len(text) : CellsOfText(text)[i] = CharCell(text[i])
         /\ Shown(CellsOfText(text)) = text
         /\ Meant(CellsOfText(text)) = text
<1> DEFINE cells == CellsOfText(text)
<1>1. Len(text) \in Nat /\ DOMAIN text = 1..Len(text) /\ text = [i \in 1..Len(text) |-> text[i]]
  BY SeqFacts
<1>2. DOMAIN cells = 1..Len(text) /\ cells = [i \in DOMAIN cells |-> cells[i]]
  BY <1>1 DEF CellsOfText
<1>3. \A i \in 1..Len(text) : cells[i] = CharCell(text[i])
  BY <1>1 DEF CellsOfText
<1> HIDE DEF cells
<1>4. IsSeq(cells) /\ Len(cells) = Len(text)
  BY <1>1, <1>2, FunctionIsSeq
<1>5. \A i \in 1..Len(text) : cells[i].shown = text[i] /\ cells[i].meant = text[i]
  <2>1. \A token : CharCell(token).shown = token /\ CharCell(token).meant = token
    BY DEF CharCell
  <2> QED
    BY <1>3, <2>1
<1>6. Shown(cells) = text /\ Meant(cells) = text
  BY <1>1, <1>2, <1>5 DEF Shown, Meant
<1> QED
  BY <1>3, <1>4, <1>6 DEF cells

\* What cells show and mean is as long as they are, and joined when they are.
LEMMA ShownFacts ==
  ASSUME NEW cells, IsSeq(cells)
  PROVE  /\ IsSeq(Shown(cells)) /\ Len(Shown(cells)) = Len(cells)
         /\ IsSeq(Meant(cells)) /\ Len(Meant(cells)) = Len(cells)
         /\ \A i \in 1..Len(cells) : Shown(cells)[i] = cells[i].shown /\ Meant(cells)[i] = cells[i].meant
<1>1. Len(cells) \in Nat /\ DOMAIN cells = 1..Len(cells)
  BY SeqFacts
<1>2. /\ DOMAIN Shown(cells) = 1..Len(cells) /\ Shown(cells) = [i \in DOMAIN Shown(cells) |-> Shown(cells)[i]]
      /\ DOMAIN Meant(cells) = 1..Len(cells) /\ Meant(cells) = [i \in DOMAIN Meant(cells) |-> Meant(cells)[i]]
  BY <1>1 DEF Shown, Meant
<1>3. \A i \in 1..Len(cells) : Shown(cells)[i] = cells[i].shown /\ Meant(cells)[i] = cells[i].meant
  BY <1>1 DEF Shown, Meant
<1> QED
  BY <1>1, <1>2, <1>3, FunctionIsSeq

LEMMA ShownConcat ==
  ASSUME NEW c, NEW d, IsSeq(c), IsSeq(d)
  PROVE  /\ Shown(c \o d) = Shown(c) \o Shown(d)
         /\ Meant(c \o d) = Meant(c) \o Meant(d)
<1>1. /\ IsSeq(c \o d) /\ Len(c \o d) = Len(c) + Len(d)
      /\ \A i \in 1..Len(c) : (c \o d)[i] = c[i]
      /\ \A i \in 1..Len(d) : (c \o d)[Len(c) + i] = d[i]
      /\ Len(c) \in Nat /\ Len(d) \in Nat
  BY ConcatSeqs, SeqFacts
<1> DEFINE Maps(m, n, whole) ==
             /\ IsSeq(m) /\ Len(m) = Len(c) /\ IsSeq(n) /\ Len(n) = Len(d)
             /\ IsSeq(whole) /\ Len(whole) = Len(c) + Len(d)
             /\ \A i \in 1..Len(c) : whole[i] = m[i]
             /\ \A i \in 1..Len(d) : whole[Len(c) + i] = n[i]
<1>2. ASSUME NEW m, NEW n, NEW whole, Maps(m, n, whole) PROVE whole = m \o n
  <2>1. /\ IsSeq(m \o n) /\ Len(m \o n) = Len(c) + Len(d)
        /\ \A i \in 1..Len(c) : (m \o n)[i] = m[i]
        /\ \A i \in 1..Len(d) : (m \o n)[Len(c) + i] = n[i]
    BY <1>2, ConcatSeqs
  <2>2. ASSUME NEW i \in 1..Len(c) + Len(d) PROVE whole[i] = (m \o n)[i]
    <3>1. CASE i \in 1..Len(c)
      BY <1>2, <2>1, <3>1
    <3>2. CASE i \notin 1..Len(c)
      <4>1. i - Len(c) \in 1..Len(d) /\ Len(c) + (i - Len(c)) = i
        BY <1>1, <3>2
      <4> QED
        BY <1>2, <2>1, <4>1
    <3> QED
      BY <3>1, <3>2
  <2> QED
    BY <1>2, <2>1, <2>2, EqualSeqs
<1>3. \A i \in 1..Len(c) : i \in 1..Len(c) + Len(d)
  BY <1>1
<1>4. \A i \in 1..Len(d) : Len(c) + i \in 1..Len(c) + Len(d)
  BY <1>1
<1> DEFINE u == c \o d
<1>5. /\ IsSeq(u) /\ Len(u) = Len(c) + Len(d)
      /\ \A i \in 1..Len(c) : u[i] = c[i] /\ i \in 1..Len(u)
      /\ \A i \in 1..Len(d) : u[Len(c) + i] = d[i] /\ Len(c) + i \in 1..Len(u)
  BY <1>1, <1>3, <1>4
<1> HIDE DEF u
<1>6. /\ IsSeq(Shown(c)) /\ IsSeq(Shown(d)) /\ IsSeq(Meant(c)) /\ IsSeq(Meant(d))
      /\ Len(Shown(c)) = Len(c) /\ Len(Meant(c)) = Len(c)
      /\ Len(Shown(d)) = Len(d) /\ Len(Meant(d)) = Len(d)
      /\ \A i \in 1..Len(c) : Shown(c)[i] = c[i].shown /\ Meant(c)[i] = c[i].meant
      /\ \A i \in 1..Len(d) : Shown(d)[i] = d[i].shown /\ Meant(d)[i] = d[i].meant
  BY ShownFacts
<1>7. /\ IsSeq(Shown(u)) /\ IsSeq(Meant(u)) /\ Len(Shown(u)) = Len(u) /\ Len(Meant(u)) = Len(u)
      /\ \A i \in 1..Len(u) : Shown(u)[i] = u[i].shown /\ Meant(u)[i] = u[i].meant
  BY <1>5, ShownFacts
<1>8. Maps(Shown(c), Shown(d), Shown(u))
  BY <1>5, <1>6, <1>7
<1>9. Maps(Meant(c), Meant(d), Meant(u))
  BY <1>5, <1>6, <1>7
<1> HIDE DEF Maps
<1> QED
  BY <1>2, <1>8, <1>9 DEF u

LEMMA CellsOfTextConcat ==
  ASSUME NEW t, NEW u, IsSeq(t), IsSeq(u)
  PROVE  CellsOfText(t \o u) = CellsOfText(t) \o CellsOfText(u)
<1> DEFINE whole == CellsOfText(t \o u)
           parts == CellsOfText(t) \o CellsOfText(u)
<1>1. /\ IsSeq(t \o u) /\ Len(t \o u) = Len(t) + Len(u)
      /\ \A i \in 1..Len(t) : (t \o u)[i] = t[i]
      /\ \A i \in 1..Len(u) : (t \o u)[Len(t) + i] = u[i]
      /\ Len(t) \in Nat /\ Len(u) \in Nat
  BY ConcatSeqs, SeqFacts
<1>2. /\ IsSeq(whole) /\ Len(whole) = Len(t) + Len(u)
      /\ \A i \in 1..Len(t) + Len(u) : whole[i] = CharCell((t \o u)[i])
  BY <1>1, CellsOfTextFacts
<1>3. /\ IsSeq(CellsOfText(t)) /\ Len(CellsOfText(t)) = Len(t)
      /\ \A i \in 1..Len(t) : CellsOfText(t)[i] = CharCell(t[i])
      /\ IsSeq(CellsOfText(u)) /\ Len(CellsOfText(u)) = Len(u)
      /\ \A i \in 1..Len(u) : CellsOfText(u)[i] = CharCell(u[i])
  BY CellsOfTextFacts
<1>4. /\ IsSeq(parts) /\ Len(parts) = Len(t) + Len(u)
      /\ \A i \in 1..Len(t) : parts[i] = CharCell(t[i])
      /\ \A i \in 1..Len(u) : parts[Len(t) + i] = CharCell(u[i])
  BY <1>3, ConcatSeqs
<1> HIDE DEF whole, parts
<1>5. ASSUME NEW i \in 1..Len(t) + Len(u) PROVE whole[i] = parts[i]
  <2>1. CASE i \in 1..Len(t)
    BY <1>1, <1>2, <1>4, <2>1
  <2>2. CASE i \notin 1..Len(t)
    <3>1. i - Len(t) \in 1..Len(u) /\ Len(t) + (i - Len(t)) = i
      BY <1>1, <2>2
    <3> QED
      BY <1>1, <1>2, <1>4, <3>1
  <2> QED
    BY <2>1, <2>2
<1>6. whole = parts
  BY <1>2, <1>4, <1>5, EqualSeqs
<1> QED
  BY <1>6 DEF whole, parts

\* A sequence that is not empty is the others and its last element.
LEMMA LastElement ==
  ASSUME NEW s, IsSeq(s), s # <<>>
  PROVE  /\ s = Append(Front(s), Last(s))
         /\ IsSeq(Front(s)) /\ Len(Front(s)) = Len(s) - 1 /\ Len(s) \in Nat \ {0}
         /\ \A i \in 1..Len(s) - 1 : Front(s)[i] = s[i]
         /\ Last(s) = s[Len(s)]
<1>1. Len(s) \in Nat \ {0}
  BY NoElements, SeqFacts
<1> DEFINE n == Len(s) - 1
<1>2. n \in Nat /\ n <= Len(s) /\ n - 1 + 1 = n /\ n + 1 = Len(s)
  BY <1>1
<1>3. Front(s) = SubSeq(s, 1, n) /\ Last(s) = s[Len(s)]
  BY DEF Front, Last
<1> HIDE DEF n
<1>4. IsSeq(Front(s)) /\ Len(Front(s)) = n
  BY <1>2, <1>3, PartIsSeq
<1>5. \A i \in 1..n : Front(s)[i] = s[i]
  <2>1. \A i \in 1..n - 1 + 1 : SubSeq(s, 1, n)[i] = s[1 + i - 1]
    BY <1>2, PartIsSeq
  <2>2. \A i \in 1..n : 1 + i - 1 = i
    BY <1>2
  <2> QED
    BY <1>2, <1>3, <2>1, <2>2
<1> DEFINE t == Append(Front(s), Last(s))
<1>6. /\ IsSeq(t) /\ Len(t) = n + 1
      /\ \A i \in 1..n : t[i] = Front(s)[i]
      /\ t[n + 1] = Last(s)
  BY <1>4, AppendSeqs
<1> HIDE DEF t
<1>7. \A i \in 1..Len(s) : s[i] = t[i]
  BY <1>2, <1>3, <1>5, <1>6
<1>8. s = t
  BY <1>2, <1>6, <1>7, EqualSeqs
<1> QED
  BY <1>1, <1>3, <1>4, <1>5, <1>8 DEF t, n

\* What is computed for each element, when there is one element more.
LEMMA MapAppend ==
  ASSUME NEW d, IsSeq(d), NEW m, DOMAIN m = DOMAIN d, m = [i \in DOMAIN d |-> m[i]],
         NEW w, DOMAIN w = 1..Len(d) + 1, w = [i \in 1..Len(d) + 1 |-> w[i]],
         \A i \in 1..Len(d) : w[i] = m[i]
  PROVE  IsSeq(m) /\ w = Append(m, w[Len(d) + 1])
<1>1. Len(d) \in Nat /\ DOMAIN d = 1..Len(d) /\ Len(d) + 1 \in Nat
  BY SeqFacts
<1>2. IsSeq(m) /\ Len(m) = Len(d)
  BY <1>1, FunctionIsSeq
<1>3. IsSeq(w) /\ Len(w) = Len(d) + 1
  BY <1>1, FunctionIsSeq
<1> DEFINE t == Append(m, w[Len(d) + 1])
<1>4. ASSUME NEW x
      PROVE  /\ IsSeq(Append(m, x)) /\ Len(Append(m, x)) = Len(d) + 1 /\ Append(m, x)[Len(d) + 1] = x
             /\ \A i \in 1..Len(d) : Append(m, x)[i] = m[i]
  <2>1. /\ IsSeq(Append(m, x)) /\ Len(Append(m, x)) = Len(m) + 1 /\ Append(m, x)[Len(m) + 1] = x
        /\ \A i \in 1..Len(m) : Append(m, x)[i] = m[i]
    BY <1>2, AppendSeqs, ZenonT(40)
  <2> QED
    BY <1>2, <2>1, ZenonT(40)
<1>7. /\ IsSeq(t) /\ Len(t) = Len(d) + 1 /\ t[Len(d) + 1] = w[Len(d) + 1]
      /\ \A i \in 1..Len(d) : t[i] = m[i]
  BY <1>4
<1> HIDE DEF t
<1>5. \A i \in 1..Len(d) + 1 : i \in 1..Len(d) \/ i = Len(d) + 1
  BY <1>1
<1>6. w = t
  BY <1>3, <1>5, <1>7, EqualSeqs
<1> QED
  BY <1>2, <1>6 DEF t

\* A span's part of the source.
SpanSource(span) == IF span.prefix THEN <<PrefixSource[span.text[1]]>> ELSE span.text

LEMMA SpanAppended ==
  ASSUME NEW d, IsSeq(d), NEW span
  PROVE  /\ Display(Append(d, span)) = Display(d) \o span.text
         /\ Source(Append(d, span)) = Source(d) \o SpanSource(span)
         /\ CellsOfSpans(Append(d, span)) = CellsOfSpans(d) \o CellsOfSpan(span)
<1> DEFINE e == Append(d, span)
           n == Len(d)
<1>1. /\ DOMAIN e = 1..n + 1 /\ e[n + 1] = span /\ \A i \in 1..n : e[i] = d[i]
      /\ DOMAIN d = 1..n /\ n \in Nat
  BY AppendSeqs, SeqFacts
<1>2. n + 1 \in 1..n + 1 /\ \A i \in 1..n : i \in 1..n + 1
  BY <1>1
<1> HIDE DEF e
<1>3. Display(e) = Display(d) \o span.text
  <2> DEFINE m == [i \in DOMAIN d |-> d[i].text]
             w == [i \in DOMAIN e |-> e[i].text]
  <2>1. /\ DOMAIN m = DOMAIN d /\ m = [i \in DOMAIN d |-> m[i]]
        /\ DOMAIN w = 1..n + 1 /\ w = [i \in 1..n + 1 |-> w[i]]
        /\ w[n + 1] = span.text /\ \A i \in 1..n : w[i] = m[i]
    BY <1>1, <1>2
  <2>2. Display(e) = Joined(w) /\ Display(d) = Joined(m)
    BY DEF Display
  <2> HIDE DEF m, w
  <2>3. IsSeq(m) /\ w = Append(m, span.text)
    <3>1. IsSeq(m) /\ w = Append(m, w[Len(d) + 1])
      BY <2>1, MapAppend
    <3> QED
      BY <2>1, <3>1
  <2> QED
    BY <2>2, <2>3, JoinedStepwise
<1>4. Source(e) = Source(d) \o SpanSource(span)
  <2> DEFINE m == [i \in DOMAIN d |-> IF d[i].prefix THEN <<PrefixSource[d[i].text[1]]>> ELSE d[i].text]
             w == [i \in DOMAIN e |-> IF e[i].prefix THEN <<PrefixSource[e[i].text[1]]>> ELSE e[i].text]
  <2>0. Source(e) = Joined(w) /\ Source(d) = Joined(m)
    BY DEF Source
  <2>1. /\ DOMAIN m = DOMAIN d /\ m = [i \in DOMAIN d |-> m[i]]
        /\ DOMAIN w = 1..n + 1 /\ w = [i \in 1..n + 1 |-> w[i]]
    BY <1>1
  <2>2. w[n + 1] = SpanSource(span)
    BY <1>1, <1>2 DEF SpanSource
  <2>3. ASSUME NEW i \in 1..n PROVE w[i] = m[i]
    BY <1>1, <1>2
  <2> HIDE DEF m, w
  <2>4. IsSeq(m) /\ w = Append(m, SpanSource(span))
    <3>1. IsSeq(m) /\ w = Append(m, w[Len(d) + 1])
      BY <2>1, <2>2, <2>3, MapAppend
    <3> QED
      BY <2>1, <2>2, <2>3, <3>1
  <2> QED
    BY <2>0, <2>4, JoinedStepwise
<1>5. CellsOfSpans(e) = CellsOfSpans(d) \o CellsOfSpan(span)
  <2> DEFINE m == [i \in DOMAIN d |-> CellsOfSpan(d[i])]
             w == [i \in DOMAIN e |-> CellsOfSpan(e[i])]
  <2>1. /\ DOMAIN m = DOMAIN d /\ m = [i \in DOMAIN d |-> m[i]]
        /\ DOMAIN w = 1..n + 1 /\ w = [i \in 1..n + 1 |-> w[i]]
        /\ w[n + 1] = CellsOfSpan(span) /\ \A i \in 1..n : w[i] = m[i]
    BY <1>1, <1>2
  <2>2. CellsOfSpans(e) = Joined(w) /\ CellsOfSpans(d) = Joined(m)
    BY DEF CellsOfSpans
  <2> HIDE DEF m, w
  <2>3. IsSeq(m) /\ w = Append(m, CellsOfSpan(span))
    <3>1. IsSeq(m) /\ w = Append(m, w[Len(d) + 1])
      BY <2>1, MapAppend
    <3> QED
      BY <2>1, <3>1
  <2> QED
    BY <2>2, <2>3, JoinedStepwise
<1> QED
  BY <1>3, <1>4, <1>5 DEF e

\* No spans show, mean and hold nothing.
LEMMA NothingShown ==
  Display(<<>>) = <<>> /\ Source(<<>>) = <<>> /\ CellsOfSpans(<<>>) = <<>>
<1>1. DOMAIN <<>> = {}
  BY EmptyIsSeq, SeqFacts
<1>2. \A f : DOMAIN f = {} /\ f = [i \in {} |-> f[i]] => f = <<>>
  <2> SUFFICES ASSUME NEW f, DOMAIN f = {}, f = [i \in {} |-> f[i]] PROVE f = <<>>
    OBVIOUS
  <2>1. 1..0 = {} /\ 0 \in Nat
    OBVIOUS
  <2>2. IsSeq(f) /\ Len(f) = 0
    BY <2>1, FunctionIsSeq
  <2> QED
    BY <2>2, NoElements
<1>3. Display(<<>>) = Joined(<<>>)
  BY <1>1, <1>2 DEF Display
<1>4. Source(<<>>) = Joined(<<>>)
  BY <1>1, <1>2 DEF Source
<1>5. CellsOfSpans(<<>>) = Joined(<<>>)
  BY <1>1, <1>2 DEF CellsOfSpans
<1> QED
  BY <1>3, <1>4, <1>5, JoinedStepwise

-----------------------------------------------------------------------------
(***************************************************************************)
(* Documents: spans of text and prefixes, in any order.                    *)
(***************************************************************************)

IsSpan(span) ==
  \/ \E text : IsSeq(text) /\ span = TextSpan(text)
  \/ \E symbol \in Symbols : span = PrefixSpan(symbol)

IsDocument(d) == IsSeq(d) /\ \A i \in 1..Len(d) : IsSpan(d[i])

\* A cell is a character or a prefix.
IsCell(cell) ==
  \/ \E token : cell = CharCell(token)
  \/ \E symbol \in Symbols : cell = PrefixCell(symbol)

IsLine(cells) == IsSeq(cells) /\ \A i \in 1..Len(cells) : IsCell(cells[i])

LEMMA TextSpanFacts ==
  ASSUME NEW text, IsSeq(text)
  PROVE  /\ IsSpan(TextSpan(text)) /\ TextSpan(text).prefix = FALSE /\ TextSpan(text).text = text
         /\ CellsOfSpan(TextSpan(text)) = CellsOfText(text)
BY DEF IsSpan, TextSpan, CellsOfSpan

LEMMA PrefixSpanFacts ==
  ASSUME NEW symbol \in Symbols
  PROVE  /\ IsSpan(PrefixSpan(symbol)) /\ PrefixSpan(symbol).prefix = TRUE
         /\ PrefixSpan(symbol).text = <<symbol>>
         /\ CellsOfSpan(PrefixSpan(symbol)) = <<PrefixCell(symbol)>>
<1>1. <<symbol>>[1] = symbol
  BY SingleIsSeq
<1> QED
  BY <1>1 DEF IsSpan, PrefixSpan, CellsOfSpan

LEMMA SpanFacts ==
  ASSUME NEW span, IsSpan(span)
  PROVE  /\ span.prefix \in BOOLEAN /\ IsSeq(span.text)
         /\ IsLine(CellsOfSpan(span)) /\ Len(CellsOfSpan(span)) = Len(span.text)
         /\ Shown(CellsOfSpan(span)) = span.text
         /\ Meant(CellsOfSpan(span)) = SpanSource(span)
         /\ span.prefix => \E symbol \in Symbols : span = PrefixSpan(symbol)
         /\ ~span.prefix => span = TextSpan(span.text)
<1>1. ASSUME NEW text, IsSeq(text), span = TextSpan(text)
      PROVE  /\ span.prefix = FALSE /\ span.text = text
             /\ IsLine(CellsOfSpan(span)) /\ Len(CellsOfSpan(span)) = Len(text)
             /\ Shown(CellsOfSpan(span)) = text /\ Meant(CellsOfSpan(span)) = SpanSource(span)
  <2>1. /\ span.prefix = FALSE /\ span.text = text /\ CellsOfSpan(span) = CellsOfText(text)
    BY <1>1, TextSpanFacts
  <2>2. SpanSource(span) = text
    BY <2>1 DEF SpanSource
  <2>3. IsLine(CellsOfText(text))
    BY <1>1, CellsOfTextFacts DEF IsLine, IsCell
  <2> QED
    BY <1>1, <2>1, <2>2, <2>3, CellsOfTextFacts
<1>2. ASSUME NEW symbol \in Symbols, span = PrefixSpan(symbol)
      PROVE  /\ span.prefix = TRUE /\ span.text = <<symbol>>
             /\ IsLine(CellsOfSpan(span)) /\ Len(CellsOfSpan(span)) = 1
             /\ Shown(CellsOfSpan(span)) = <<symbol>> /\ Meant(CellsOfSpan(span)) = SpanSource(span)
  <2> DEFINE cell == PrefixCell(symbol)
             cells == <<cell>>
  <2>1. span.prefix = TRUE /\ span.text = <<symbol>> /\ CellsOfSpan(span) = cells
    BY <1>2, PrefixSpanFacts
  <2>2. <<symbol>>[1] = symbol /\ IsSeq(<<symbol>>) /\ Len(<<symbol>>) = 1
    BY SingleIsSeq
  <2>3. SpanSource(span) = <<PrefixSource[symbol]>>
    BY <2>1, <2>2 DEF SpanSource
  <2>4. cell.shown = symbol /\ cell.meant = PrefixSource[symbol] /\ IsCell(cell)
    BY DEF PrefixCell, IsCell
  <2> HIDE DEF cell
  <2>5. IsSeq(cells) /\ Len(cells) = 1 /\ cells[1] = cell
    BY SingleIsSeq
  <2> HIDE DEF cells
  <2>6. IsLine(cells)
    BY <2>4, <2>5 DEF IsLine
  <2>7. /\ IsSeq(Shown(cells)) /\ Len(Shown(cells)) = 1 /\ Shown(cells)[1] = symbol
        /\ IsSeq(Meant(cells)) /\ Len(Meant(cells)) = 1 /\ Meant(cells)[1] = PrefixSource[symbol]
    BY <2>4, <2>5, ShownFacts
  <2>8. Shown(cells) = <<symbol>> /\ Meant(cells) = <<PrefixSource[symbol]>>
    BY <2>7, SingleSeq
  <2> QED
    BY <2>1, <2>3, <2>5, <2>6, <2>8
<1>3. CASE \E text : IsSeq(text) /\ span = TextSpan(text)
  <2>1. PICK text : IsSeq(text) /\ span = TextSpan(text)
    BY <1>3
  <2> QED
    BY <1>1, <2>1
<1>4. CASE \E symbol \in Symbols : span = PrefixSpan(symbol)
  <2>1. PICK symbol \in Symbols : span = PrefixSpan(symbol)
    BY <1>4
  <2>2. IsSeq(<<symbol>>) /\ Len(<<symbol>>) = 1
    BY SingleIsSeq
  <2> QED
    BY <1>2, <2>1, <2>2
<1> QED
  BY <1>3, <1>4 DEF IsSpan

\* Lines and documents put together, and their parts.
LEMMA LinesConcat ==
  ASSUME NEW c, NEW d, IsLine(c), IsLine(d)
  PROVE  IsLine(c \o d)
<1>1. /\ IsSeq(c \o d) /\ Len(c \o d) = Len(c) + Len(d)
      /\ \A i \in 1..Len(c) : (c \o d)[i] = c[i]
      /\ \A i \in 1..Len(d) : (c \o d)[Len(c) + i] = d[i]
      /\ Len(c) \in Nat /\ Len(d) \in Nat
  BY ConcatSeqs, SeqFacts DEF IsLine
<1>2. \A i \in 1..Len(c) + Len(d) : i \in 1..Len(c) \/ (i - Len(c) \in 1..Len(d) /\ Len(c) + (i - Len(c)) = i)
  BY <1>1
<1> QED
  BY <1>1, <1>2 DEF IsLine

LEMMA DocumentsConcat ==
  ASSUME NEW c, NEW d, IsDocument(c), IsDocument(d)
  PROVE  IsDocument(c \o d)
<1>1. /\ IsSeq(c \o d) /\ Len(c \o d) = Len(c) + Len(d)
      /\ \A i \in 1..Len(c) : (c \o d)[i] = c[i]
      /\ \A i \in 1..Len(d) : (c \o d)[Len(c) + i] = d[i]
      /\ Len(c) \in Nat /\ Len(d) \in Nat
  BY ConcatSeqs, SeqFacts DEF IsDocument
<1>2. \A i \in 1..Len(c) + Len(d) : i \in 1..Len(c) \/ (i - Len(c) \in 1..Len(d) /\ Len(c) + (i - Len(c)) = i)
  BY <1>1
<1> QED
  BY <1>1, <1>2 DEF IsDocument

LEMMA NoSpansIsDocument == IsDocument(<<>>)
BY EmptyIsSeq DEF IsDocument

LEMMA SingleDocument ==
  ASSUME NEW span, IsSpan(span)
  PROVE  IsDocument(<<span>>)
<1>1. IsSeq(<<span>>) /\ Len(<<span>>) = 1 /\ <<span>>[1] = span
  BY SingleIsSeq
<1> QED
  BY <1>1 DEF IsDocument

LEMMA DocumentPart ==
  ASSUME NEW d, IsDocument(d), NEW m \in Nat \ {0}, NEW n \in Nat, n <= Len(d)
  PROVE  IsDocument(SubSeq(d, m, n))
<1>1. IsSeq(d) /\ Len(d) \in Nat
  BY SeqFacts DEF IsDocument
<1>2. /\ IsSeq(SubSeq(d, m, n))
      /\ Len(SubSeq(d, m, n)) = IF m <= n THEN n - m + 1 ELSE 0
      /\ \A i \in 1..n - m + 1 : SubSeq(d, m, n)[i] = d[m + i - 1]
  BY <1>1, PartIsSeq
<1>3. ASSUME NEW i \in 1..Len(SubSeq(d, m, n)) PROVE i \in 1..n - m + 1 /\ m + i - 1 \in 1..Len(d)
  <2>1. CASE m <= n
    <3>1. i \in 1..n - m + 1
      BY <1>2, <2>1
    <3> QED
      BY <1>1, <3>1
  <2>2. CASE ~(m <= n)
    BY <1>2, <2>2
  <2> QED
    BY <2>1, <2>2
<1> QED
  BY <1>2, <1>3 DEF IsDocument

\* A document that is not empty is a shorter one and its last span.
LEMMA LastSpan ==
  ASSUME NEW d, IsDocument(d), d # <<>>
  PROVE  /\ IsDocument(Front(d)) /\ IsSpan(Last(d)) /\ d = Append(Front(d), Last(d))
         /\ Len(Front(d)) = Len(d) - 1 /\ Len(d) \in Nat \ {0}
<1>1. /\ d = Append(Front(d), Last(d))
      /\ IsSeq(Front(d)) /\ Len(Front(d)) = Len(d) - 1 /\ Len(d) \in Nat \ {0}
      /\ \A i \in 1..Len(d) - 1 : Front(d)[i] = d[i]
      /\ Last(d) = d[Len(d)]
  BY LastElement DEF IsDocument
<1>2. Len(d) \in 1..Len(d) /\ \A i \in 1..Len(d) - 1 : i \in 1..Len(d)
  BY <1>1
<1> QED
  BY <1>1, <1>2 DEF IsDocument

\* The cells of a document: what it shows and what it means, character by character.
IsCellsOf(d) ==
  /\ IsLine(CellsOfSpans(d))
  /\ Shown(CellsOfSpans(d)) = Display(d)
  /\ Meant(CellsOfSpans(d)) = Source(d)

LEMMA OneSpanMore ==
  ASSUME NEW d, IsDocument(d), NEW span, IsSpan(span), IsCellsOf(d)
  PROVE  IsCellsOf(Append(d, span))
<1>1. /\ Display(Append(d, span)) = Display(d) \o span.text
      /\ Source(Append(d, span)) = Source(d) \o SpanSource(span)
      /\ CellsOfSpans(Append(d, span)) = CellsOfSpans(d) \o CellsOfSpan(span)
  BY SpanAppended DEF IsDocument
<1>2. /\ IsLine(CellsOfSpan(span))
      /\ Shown(CellsOfSpan(span)) = span.text
      /\ Meant(CellsOfSpan(span)) = SpanSource(span)
  BY SpanFacts
<1>3. IsSeq(CellsOfSpans(d)) /\ IsSeq(CellsOfSpan(span))
  BY <1>2 DEF IsCellsOf, IsLine
<1>4. IsLine(CellsOfSpans(d) \o CellsOfSpan(span))
  BY <1>2, LinesConcat DEF IsCellsOf
<1>5. /\ Shown(CellsOfSpans(d) \o CellsOfSpan(span)) = Display(d) \o span.text
      /\ Meant(CellsOfSpans(d) \o CellsOfSpan(span)) = Source(d) \o SpanSource(span)
  <2>1. /\ Shown(CellsOfSpans(d) \o CellsOfSpan(span)) = Shown(CellsOfSpans(d)) \o Shown(CellsOfSpan(span))
        /\ Meant(CellsOfSpans(d) \o CellsOfSpan(span)) = Meant(CellsOfSpans(d)) \o Meant(CellsOfSpan(span))
    BY <1>3, ShownConcat
  <2> QED
    BY <1>2, <2>1 DEF IsCellsOf
<1> QED
  BY <1>1, <1>4, <1>5, Zenon DEF IsCellsOf

\* Every document stands for the cells it is shown as and means.
THEOREM DocumentIsItsCells ==
  ASSUME NEW d, IsDocument(d)
  PROVE  /\ IsLine(CellsOfSpans(d))
         /\ Shown(CellsOfSpans(d)) = Display(d)
         /\ Meant(CellsOfSpans(d)) = Source(d)
<1> DEFINE S == {n \in Nat : \A e : IsDocument(e) /\ Len(e) = n => IsCellsOf(e)}
<1>1. IsCellsOf(<<>>)
  <2>1. IsLine(<<>>)
    BY EmptyIsSeq DEF IsLine
  <2>2. DOMAIN Shown(<<>>) = {} /\ Shown(<<>>) = <<>> /\ Meant(<<>>) = <<>>
    BY EmptyIsSeq, ShownFacts, NoElements, SeqFacts
  <2> QED
    BY <2>1, <2>2, NothingShown DEF IsCellsOf
<1>2. 0 \in S
  <2>1. ASSUME NEW e, IsDocument(e), Len(e) = 0 PROVE IsCellsOf(e)
    BY <1>1, <2>1, NoElements DEF IsDocument
  <2> QED
    BY <2>1
<1>3. ASSUME NEW n \in S PROVE n + 1 \in S
  <2>1. ASSUME NEW e, IsDocument(e), Len(e) = n + 1 PROVE IsCellsOf(e)
    <3>1. e # <<>>
      BY <2>1, EmptyIsSeq
    <3>2. IsDocument(Front(e)) /\ IsSpan(Last(e)) /\ e = Append(Front(e), Last(e)) /\ Len(Front(e)) = Len(e) - 1
      BY <2>1, <3>1, LastSpan
    <3>3. Len(Front(e)) = n
      BY <2>1, <3>2
    <3>4. IsCellsOf(Front(e))
      BY <3>2, <3>3
    <3>5. IsCellsOf(Append(Front(e), Last(e)))
      BY <3>2, <3>4, OneSpanMore
    <3> QED
      BY <3>2, <3>5
  <2> QED
    BY <2>1
<1> HIDE DEF S
<1>4. S = Nat
  BY <1>2, <1>3, SetInduction DEF S
<1>5. Len(d) \in Nat
  BY SeqFacts DEF IsDocument
<1>6. IsCellsOf(d)
  BY <1>4, <1>5 DEF S
<1> QED
  BY <1>6 DEF IsCellsOf

\* The cells of two documents put together.
LEMMA CellsConcat ==
  ASSUME NEW a, NEW b, IsDocument(a), IsDocument(b)
  PROVE  CellsOfSpans(a \o b) = CellsOfSpans(a) \o CellsOfSpans(b)
<1> DEFINE S == {n \in Nat : \A e : IsDocument(e) /\ Len(e) = n
                               => CellsOfSpans(a \o e) = CellsOfSpans(a) \o CellsOfSpans(e)}
<1>1. IsSeq(a) /\ IsSeq(CellsOfSpans(a))
  BY DocumentIsItsCells DEF IsDocument, IsLine
<1>2. 0 \in S
  <2>1. ASSUME NEW e, IsDocument(e), Len(e) = 0
        PROVE  CellsOfSpans(a \o e) = CellsOfSpans(a) \o CellsOfSpans(e)
    <3>1. e = <<>>
      BY <2>1, NoElements DEF IsDocument
    <3> QED
      BY <1>1, <3>1, ConcatNothing, NothingShown
  <2> QED
    BY <2>1
<1>3. ASSUME NEW n \in S PROVE n + 1 \in S
  <2>1. ASSUME NEW e, IsDocument(e), Len(e) = n + 1
        PROVE  CellsOfSpans(a \o e) = CellsOfSpans(a) \o CellsOfSpans(e)
    <3> DEFINE f == Front(e)
               l == Last(e)
    <3>1. e # <<>>
      BY <2>1, EmptyIsSeq
    <3>2. IsDocument(f) /\ IsSpan(l) /\ e = Append(f, l) /\ Len(f) = Len(e) - 1
      BY <2>1, <3>1, LastSpan
    <3>3. Len(f) = n
      BY <2>1, <3>2
    <3> HIDE DEF f, l
    <3>4. CellsOfSpans(a \o f) = CellsOfSpans(a) \o CellsOfSpans(f)
      BY <3>2, <3>3
    <3>5. IsSeq(f) /\ IsSeq(CellsOfSpans(f)) /\ IsSeq(CellsOfSpan(l)) /\ IsSeq(<<l>>) /\ IsSeq(a \o f)
      BY <1>1, <3>2, DocumentIsItsCells, SpanFacts, SingleIsSeq, ConcatSeqs DEF IsDocument, IsLine
    <3>6. a \o e = Append(a \o f, l)
      <4>1. e = f \o <<l>> /\ Append(a \o f, l) = (a \o f) \o <<l>>
        BY <3>2, <3>5, AppendSeqs
      <4>2. (a \o f) \o <<l>> = a \o (f \o <<l>>)
        <5>1. IsSeq(a) /\ IsSeq(f) /\ IsSeq(<<l>>)
          BY <1>1, <3>5
        <5> QED
          BY <5>1, ConcatAssoc
      <4> QED
        BY <4>1, <4>2, Zenon
    <3>7. CellsOfSpans(a \o e) = (CellsOfSpans(a) \o CellsOfSpans(f)) \o CellsOfSpan(l)
      BY <3>4, <3>5, <3>6, SpanAppended
    <3>8. CellsOfSpans(e) = CellsOfSpans(f) \o CellsOfSpan(l)
      BY <3>2, <3>5, SpanAppended
    <3>9. (CellsOfSpans(a) \o CellsOfSpans(f)) \o CellsOfSpan(l)
            = CellsOfSpans(a) \o (CellsOfSpans(f) \o CellsOfSpan(l))
      <4>1. IsSeq(CellsOfSpans(a)) /\ IsSeq(CellsOfSpans(f)) /\ IsSeq(CellsOfSpan(l))
        BY <1>1, <3>5
      <4> QED
        BY <4>1, ConcatAssoc
    <3> QED
      BY <3>7, <3>8, <3>9, Zenon
  <2> QED
    BY <2>1
<1> HIDE DEF S
<1>4. S = Nat
  BY <1>2, <1>3, SetInduction DEF S
<1>5. Len(b) \in Nat
  BY SeqFacts DEF IsDocument
<1> QED
  BY <1>4, <1>5 DEF S

\* The cells of a single span.
LEMMA CellsOfSingle ==
  ASSUME NEW span, IsSpan(span)
  PROVE  CellsOfSpans(<<span>>) = CellsOfSpan(span)
<1>1. IsSeq(CellsOfSpan(span)) /\ <<span>> = <<>> \o <<span>> /\ <<>> \o <<span>> = Append(<<>>, span)
  BY SpanFacts, ConcatNothing, SingleIsSeq, EmptyIsSeq, AppendSeqs DEF IsLine
<1>2. CellsOfSpans(<<span>>) = CellsOfSpans(<<>>) \o CellsOfSpan(span)
  BY <1>1, EmptyIsSeq, SpanAppended
<1> QED
  BY <1>1, <1>2, NothingShown, ConcatNothing

-----------------------------------------------------------------------------
(***************************************************************************)
(* Joining neighbours, and cutting a document at a position.               *)
(***************************************************************************)

\* A sequence around one of its elements.
LEMMA Around ==
  ASSUME NEW s, IsSeq(s), NEW n \in Nat, n < Len(s)
  PROVE  /\ s = SubSeq(s, 1, n) \o <<s[n + 1]>> \o SubSeq(s, n + 2, Len(s))
         /\ IsSeq(SubSeq(s, 1, n)) /\ Len(SubSeq(s, 1, n)) = n
         /\ IsSeq(SubSeq(s, n + 2, Len(s)))
         /\ SubSeq(s, 1, n + 1) = Append(SubSeq(s, 1, n), s[n + 1])
         /\ RemoveAt(s, n + 1) = SubSeq(s, 1, n) \o SubSeq(s, n + 2, Len(s))
         /\ SubSeq(s, n + 1, Len(s)) # <<>>
         /\ SubSeq(s, n + 1, Len(s))[1] = s[n + 1]
<1> DEFINE a == SubSeq(s, 1, n)
           b == SubSeq(s, n + 1, n + 1)
           c == SubSeq(s, (n + 1) + 1, Len(s))
           ab == SubSeq(s, 1, n + 1)
           bc == SubSeq(s, n + 1, Len(s))
<1>1. /\ Len(s) \in Nat /\ n + 1 \in Nat /\ n + 1 <= Len(s) /\ n + 2 = (n + 1) + 1 /\ (n + 1) - 1 = n
      /\ n \in 0..Len(s) /\ n + 1 \in 0..Len(s) /\ n + 1 \in Nat \ {0} /\ n <= Len(s)
      /\ (n + 1) - (n + 1) + 1 = 1 /\ n + 1 + 1 - 1 = n + 1 /\ n + 1 <= n + 1
      /\ 1 \in 1..1 /\ 1..1 = 1..(n + 1) - (n + 1) + 1 /\ Len(s) - n > 0 /\ 1 \in 1..Len(s) - (n + 1) + 1
      /\ 1 \in 1..(n + 1) + 1 /\ n \in 1 - 1..n + 1 /\ n + 1 \in n..Len(s)
  BY SeqFacts
<1>2. IsSeq(a) /\ Len(a) = n
  BY <1>1, SplitSeq
<1>3. s = ab \o c /\ IsSeq(c) /\ IsSeq(ab)
  BY <1>1, SplitSeq
<1>4. b = <<s[n + 1]>>
  <2>1. IsSeq(b) /\ Len(b) = 1 /\ b[1] = s[n + 1 + 1 - 1]
    BY <1>1, PartIsSeq
  <2> HIDE DEF b
  <2>2. b = <<b[1]>>
    BY <2>1, SingleSeq
  <2> QED
    BY <1>1, <2>1, <2>2
<1>5. ab = a \o b
  <2>1. \A i, k, j \in Int : i \in 1..Len(s) + 1 /\ k \in i - 1..Len(s) /\ j \in k..Len(s)
          => SubSeq(s, i, k) \o SubSeq(s, k + 1, j) = SubSeq(s, i, j)
    BY ConcatAdjacentSubSeq DEF IsSeq
  <2>2. 1 \in 1..Len(s) + 1 /\ n \in 1 - 1..Len(s) /\ n + 1 \in n..Len(s) /\ n \in Int /\ n + 1 \in Int /\ 1 \in Int
    BY <1>1
  <2> QED
    BY <2>1, <2>2
<1>6. IsSeq(bc) /\ Len(bc) = Len(s) - n /\ bc[1] = s[n + 1]
  <2>1. IsSeq(bc) /\ Len(bc) = Len(s) - n
    BY <1>1, SplitSeq
  <2>2. bc[1] = s[n + 1 + 1 - 1]
    BY <1>1, PartIsSeq
  <2> QED
    BY <1>1, <2>1, <2>2
<1>7. RemoveAt(s, n + 1) = a \o c
  <2>1. RemoveAt(s, n + 1) = SubSeq(s, 1, (n + 1) - 1) \o c
    BY DEF RemoveAt
  <2> QED
    BY <1>1, <2>1
<1> DEFINE tail == SubSeq(s, n + 2, Len(s))
<1>8. tail = c
  BY <1>1
<1> HIDE DEF a, b, c, ab, bc, tail
<1>9. ab = Append(a, s[n + 1])
  BY <1>2, <1>4, <1>5, AppendSeqs
<1>10. s = a \o <<s[n + 1]>> \o c
  BY <1>3, <1>4, <1>5
<1>11. bc # <<>>
  BY <1>1, <1>6, EmptyIsSeq
<1> QED
  BY <1>2, <1>3, <1>6, <1>7, <1>8, <1>9, <1>10, <1>11 DEF a, ab, bc, tail

\* A span behind the others, joined with the last one or not.
LEMMA AttachedKeeps ==
  ASSUME NEW done, IsDocument(done), NEW span, IsSpan(span)
  PROVE  /\ IsDocument(Attached(done, span))
         /\ CellsOfSpans(Attached(done, span)) = CellsOfSpans(done) \o CellsOfSpan(span)
<1>1. ASSUME NEW d, IsDocument(d), NEW sp, IsSpan(sp)
      PROVE  /\ IsDocument(Append(d, sp))
             /\ CellsOfSpans(Append(d, sp)) = CellsOfSpans(d) \o CellsOfSpan(sp)
  <2>1. Append(d, sp) = d \o <<sp>>
    BY <1>1, AppendSeqs DEF IsDocument
  <2>2. IsDocument(Append(d, sp))
    BY <1>1, <2>1, SingleDocument, DocumentsConcat
  <2> QED
    BY <1>1, <2>2, SpanAppended DEF IsDocument
<1>2. CASE done # <<>> /\ ~Last(done).prefix /\ ~span.prefix
  <2> DEFINE f == Front(done)
             t == Last(done).text
             u == span.text
  <2>1. IsDocument(f) /\ IsSpan(Last(done)) /\ done = Append(f, Last(done))
    BY <1>2, LastSpan
  <2>2. IsSeq(t) /\ IsSeq(u) /\ Last(done) = TextSpan(t) /\ span = TextSpan(u)
    BY <1>2, <2>1, SpanFacts
  <2>3. Attached(done, span) = Append(f, TextSpan(t \o u))
    BY <1>2 DEF Attached
  <2> HIDE DEF f, t, u
  <2>4. IsSeq(t \o u) /\ IsSpan(TextSpan(t \o u))
    BY <2>2, ConcatSeqs, TextSpanFacts
  <2>5. /\ CellsOfSpan(TextSpan(t \o u)) = CellsOfText(t) \o CellsOfText(u)
        /\ CellsOfSpan(TextSpan(t)) = CellsOfText(t) /\ CellsOfSpan(TextSpan(u)) = CellsOfText(u)
    BY <2>2, <2>4, TextSpanFacts, CellsOfTextConcat
  <2>6. CellsOfSpans(done) = CellsOfSpans(f) \o CellsOfText(t)
    BY <1>1, <2>1, <2>2, <2>5
  <2>7. /\ IsDocument(Attached(done, span))
        /\ CellsOfSpans(Attached(done, span)) = CellsOfSpans(f) \o (CellsOfText(t) \o CellsOfText(u))
    BY <1>1, <2>1, <2>3, <2>4, <2>5
  <2>8. IsSeq(CellsOfSpans(f)) /\ IsSeq(CellsOfText(t)) /\ IsSeq(CellsOfText(u))
    BY <2>1, <2>2, DocumentIsItsCells, CellsOfTextFacts DEF IsLine
  <2>9. (CellsOfSpans(f) \o CellsOfText(t)) \o CellsOfText(u) = CellsOfSpans(f) \o (CellsOfText(t) \o CellsOfText(u))
    BY <2>8, ConcatAssoc
  <2>10. CellsOfSpan(span) = CellsOfText(u)
    BY <2>2, <2>5
  <2> QED
    BY <2>6, <2>7, <2>9, <2>10, Zenon
<1>3. CASE ~(done # <<>> /\ ~Last(done).prefix /\ ~span.prefix)
  BY <1>1, <1>3 DEF Attached
<1> QED
  BY <1>2, <1>3

\* _compact changes the spans of a document and neither what it shows nor what it means.
THEOREM CompactKeepsCells ==
  ASSUME NEW d, IsDocument(d)
  PROVE  IsDocument(Compact(d)) /\ CellsOfSpans(Compact(d)) = CellsOfSpans(d)
<1> DEFINE Kept(e) == IsDocument(Compact(e)) /\ CellsOfSpans(Compact(e)) = CellsOfSpans(e)
           S == {n \in Nat : \A e : IsDocument(e) /\ Len(e) = n => Kept(e)}
<1>1. 0 \in S
  <2>1. ASSUME NEW e, IsDocument(e), Len(e) = 0 PROVE Kept(e)
    <3>1. e = <<>>
      BY <2>1, NoElements DEF IsDocument
    <3> QED
      BY <3>1, CompactStepwise, NoSpansIsDocument
  <2> QED
    BY <2>1
<1>2. ASSUME NEW n \in S PROVE n + 1 \in S
  <2>1. ASSUME NEW e, IsDocument(e), Len(e) = n + 1 PROVE Kept(e)
    <3> DEFINE f == Front(e)
               l == Last(e)
    <3>1. e # <<>>
      BY <2>1, EmptyIsSeq
    <3>2. IsDocument(f) /\ IsSpan(l) /\ e = Append(f, l) /\ Len(f) = Len(e) - 1
      BY <2>1, <3>1, LastSpan
    <3>3. Len(f) = n
      BY <2>1, <3>2
    <3> HIDE DEF f, l
    <3>4. Kept(f)
      BY <3>2, <3>3
    <3>5. Compact(e) = Attached(Compact(f), l)
      BY <3>2, CompactStepwise DEF IsDocument
    <3>6. CellsOfSpans(e) = CellsOfSpans(f) \o CellsOfSpan(l)
      BY <3>2, SpanAppended DEF IsDocument
    <3> QED
      BY <3>2, <3>4, <3>5, <3>6, AttachedKeeps
  <2> QED
    BY <2>1
<1> HIDE DEF S
<1>3. S = Nat
  BY <1>1, <1>2, SetInduction DEF S
<1>4. Len(d) \in Nat
  BY SeqFacts DEF IsDocument
<1> QED
  BY <1>3, <1>4 DEF S

\* Display coordinates count cells.
LEMMA EndsCountCells ==
  ASSUME NEW d, IsDocument(d)
  PROVE  /\ Len(Display(d)) = Len(CellsOfSpans(d)) /\ Len(CellsOfSpans(d)) \in Nat
         /\ \A n \in 0..Len(d) : /\ IsDocument(SubSeq(d, 1, n)) /\ Len(SubSeq(d, 1, n)) = n
                                 /\ EndOf(d, n) = Len(CellsOfSpans(SubSeq(d, 1, n)))
                                 /\ EndOf(d, n) \in Nat
         /\ EndOf(d, 0) = 0
         /\ EndOf(d, Len(d)) = Len(Display(d))
         /\ \A n \in 0..Len(d) - 1 : EndOf(d, n + 1) = EndOf(d, n) + Len(d[n + 1].text)
<1>1. ASSUME NEW e, IsDocument(e)
      PROVE  Len(Display(e)) = Len(CellsOfSpans(e)) /\ Len(CellsOfSpans(e)) \in Nat
  <2>1. IsSeq(CellsOfSpans(e)) /\ Shown(CellsOfSpans(e)) = Display(e)
    BY <1>1, DocumentIsItsCells DEF IsLine
  <2> QED
    BY <2>1, ShownFacts, SeqFacts
<1>2. IsSeq(d) /\ Len(d) \in Nat
  BY SeqFacts DEF IsDocument
<1>3. ASSUME NEW n \in 0..Len(d)
      PROVE  /\ IsDocument(SubSeq(d, 1, n)) /\ Len(SubSeq(d, 1, n)) = n
             /\ EndOf(d, n) = Len(CellsOfSpans(SubSeq(d, 1, n)))
             /\ EndOf(d, n) \in Nat
  <2>1. n \in Nat /\ n <= Len(d) /\ 1 \in Nat \ {0}
    BY <1>2
  <2>2. IsDocument(SubSeq(d, 1, n)) /\ Len(SubSeq(d, 1, n)) = n
    BY <1>2, <2>1, DocumentPart, SplitSeq
  <2> QED
    BY <1>1, <2>2 DEF EndOf
<1>4. SubSeq(d, 1, Len(d)) = d
  BY SubSeqFull DEF IsDocument, IsSeq
<1>5. EndOf(d, 0) = 0
  <2>1. 0 \in 0..Len(d)
    BY <1>2
  <2>2. SubSeq(d, 1, 0) = <<>>
    BY <1>3, <2>1, NoElements DEF IsDocument
  <2> QED
    BY <2>2, NothingShown, EmptyIsSeq DEF EndOf
<1>6. ASSUME NEW n \in 0..Len(d) - 1 PROVE EndOf(d, n + 1) = EndOf(d, n) + Len(d[n + 1].text)
  <2>1. n \in Nat /\ n < Len(d) /\ n \in 0..Len(d) /\ n + 1 \in 1..Len(d)
    BY <1>2
  <2> DEFINE k == SubSeq(d, 1, n)
  <2>2. SubSeq(d, 1, n + 1) = Append(k, d[n + 1])
    BY <1>2, <2>1, Around
  <2>3. IsDocument(k) /\ EndOf(d, n) = Len(CellsOfSpans(k)) /\ EndOf(d, n) = Len(Display(k))
    BY <1>3, <2>1 DEF EndOf
  <2>4. IsSpan(d[n + 1])
    BY <2>1 DEF IsDocument
  <2> HIDE DEF k
  <2>5. Display(Append(k, d[n + 1])) = Display(k) \o d[n + 1].text
    BY <2>3, SpanAppended DEF IsDocument
  <2>6. IsSeq(Display(k)) /\ IsSeq(d[n + 1].text)
    BY <2>3, <2>4, SpanFacts, DocumentIsItsCells, ShownFacts DEF IsLine
  <2>7. Len(Display(k) \o d[n + 1].text) = Len(Display(k)) + Len(d[n + 1].text)
    BY <2>6, ConcatSeqs
  <2> QED
    BY <2>2, <2>3, <2>5, <2>7 DEF EndOf
<1> QED
  BY <1>1, <1>3, <1>4, <1>5, <1>6 DEF EndOf

\* There is a last span that ends at or before a position.
LEMMA SpansBeforeFacts ==
  ASSUME NEW d, IsDocument(d), NEW position \in Nat
  PROVE  /\ SpansBefore(d, position) \in 0..Len(d)
         /\ EndOf(d, SpansBefore(d, position)) <= position
         /\ \A m \in (SpansBefore(d, position) + 1)..Len(d) : EndOf(d, m) > position
<1> DEFINE Last_(n, k) == /\ n \in 0..k /\ EndOf(d, n) <= position
                          /\ \A m \in (n + 1)..k : EndOf(d, m) > position
           S == {k \in Nat : k <= Len(d) => \E n \in 0..k : Last_(n, k)}
<1>1. Len(d) \in Nat /\ EndOf(d, 0) = 0 /\ \A n \in 0..Len(d) : EndOf(d, n) \in Nat
  BY EndsCountCells, SeqFacts DEF IsDocument
<1>2. 0 \in S
  <2>1. Last_(0, 0)
    BY <1>1
  <2> QED
    BY <2>1
<1>3. ASSUME NEW k \in S PROVE k + 1 \in S
  <2>1. ASSUME k + 1 <= Len(d) PROVE \E n \in 0..k + 1 : Last_(n, k + 1)
    <3>1. PICK n \in 0..k : Last_(n, k)
      BY <1>1, <2>1
    <3>2. k \in Nat /\ k + 1 \in 0..Len(d)
      BY <1>1, <2>1
    <3>3. CASE EndOf(d, k + 1) <= position
      <4>1. Last_(k + 1, k + 1)
        BY <3>2, <3>3
      <4> QED
        BY <3>2, <4>1
    <3>4. CASE EndOf(d, k + 1) > position
      <4>1. \A m \in (n + 1)..k + 1 : m \in (n + 1)..k \/ m = k + 1
        BY <3>2
      <4>2. Last_(n, k + 1)
        BY <3>1, <3>2, <3>4, <4>1
      <4> QED
        BY <3>2, <4>2
    <3> QED
      BY <1>1, <3>2, <3>3, <3>4
  <2> QED
    BY <2>1
<1>4. S = Nat
  <2> HIDE DEF S
  <2> QED
    BY <1>2, <1>3, SetInduction DEF S
<1>5. \E n \in 0..Len(d) : Last_(n, Len(d))
  BY <1>1, <1>4
<1>6. \E n \in 0..Len(d) : EndOf(d, n) <= position /\ \A m \in (n + 1)..Len(d) : EndOf(d, m) > position
  BY <1>5
<1> QED
  BY <1>6 DEF SpansBefore

\* The span that a position is in, or in front of, and what is around it.
LEMMA SpanAt ==
  ASSUME NEW d, IsDocument(d), NEW position \in 0..Len(CellsOfSpans(d)) - 1
  PROVE  LET n == SpansBefore(d, position)
             kept == SubSeq(d, 1, n)
             tail == SubSeq(d, n + 2, Len(d))
         IN /\ n \in Nat /\ n < Len(d)
            /\ IsDocument(kept) /\ IsDocument(tail) /\ IsSpan(d[n + 1])
            /\ d = kept \o <<d[n + 1]>> \o tail
            /\ position - EndOf(d, n) \in 0..Len(d[n + 1].text) - 1
            /\ EndOf(d, n) = Len(CellsOfSpans(kept)) /\ EndOf(d, n) \in Nat
            /\ CellsOfSpans(d) = CellsOfSpans(kept) \o CellsOfSpan(d[n + 1]) \o CellsOfSpans(tail)
<1> DEFINE n == SpansBefore(d, position)
           kept == SubSeq(d, 1, n)
           tail == SubSeq(d, n + 2, Len(d))
<1>1. Len(CellsOfSpans(d)) \in Nat /\ position \in Nat /\ position < Len(CellsOfSpans(d)) /\ Len(d) \in Nat
  BY EndsCountCells, SeqFacts DEF IsDocument
<1>2. n \in 0..Len(d) /\ EndOf(d, n) <= position /\ \A m \in (n + 1)..Len(d) : EndOf(d, m) > position
  BY <1>1, SpansBeforeFacts
<1> HIDE DEF n
<1>3. n # Len(d)
  <2>1. EndOf(d, Len(d)) = Len(CellsOfSpans(d))
    BY EndsCountCells
  <2> QED
    BY <1>1, <1>2, <2>1
<1>4. n \in Nat /\ n < Len(d) /\ n \in 0..Len(d) - 1 /\ n + 1 \in (n + 1)..Len(d) /\ n + 1 \in 1..Len(d)
      /\ n + 2 \in Nat \ {0} /\ n \in 0..Len(d)
  BY <1>1, <1>2, <1>3
<1>5. IsDocument(kept) /\ EndOf(d, n) = Len(CellsOfSpans(kept)) /\ EndOf(d, n) \in Nat
  BY <1>4, EndsCountCells
<1>6. IsDocument(tail)
  <2>1. Len(d) <= Len(d)
    BY <1>1
  <2> QED
    BY <1>1, <1>4, <2>1, DocumentPart
<1>7. IsSpan(d[n + 1])
  BY <1>4 DEF IsDocument
<1>8. position - EndOf(d, n) \in 0..Len(d[n + 1].text) - 1
  <2>1. EndOf(d, n + 1) = EndOf(d, n) + Len(d[n + 1].text)
    BY <1>4, EndsCountCells
  <2>2. Len(d[n + 1].text) \in Nat
    BY <1>7, SpanFacts, SeqFacts
  <2>3. EndOf(d, n + 1) > position
    BY <1>2, <1>4
  <2>4. \A p, e, l \in Nat : e <= p /\ e + l > p => p - e \in 0..l - 1
    OBVIOUS
  <2> QED
    BY <1>1, <1>2, <1>5, <2>1, <2>2, <2>3, <2>4
<1>9. d = kept \o <<d[n + 1]>> \o tail
  BY <1>4, Around DEF IsDocument
<1> HIDE DEF kept, tail
<1>10. CellsOfSpans(kept \o <<d[n + 1]>> \o tail)
         = CellsOfSpans(kept) \o CellsOfSpan(d[n + 1]) \o CellsOfSpans(tail)
  <2>1. IsDocument(<<d[n + 1]>>) /\ CellsOfSpans(<<d[n + 1]>>) = CellsOfSpan(d[n + 1])
    BY <1>7, SingleDocument, CellsOfSingle
  <2>2. IsDocument(kept \o <<d[n + 1]>>)
    BY <1>5, <2>1, DocumentsConcat
  <2>3. CellsOfSpans(kept \o <<d[n + 1]>>) = CellsOfSpans(kept) \o CellsOfSpan(d[n + 1])
    BY <1>5, <2>1, CellsConcat
  <2> QED
    BY <1>6, <2>2, <2>3, CellsConcat
<1> QED
  BY <1>4, <1>5, <1>6, <1>7, <1>8, <1>9, <1>10 DEF n, kept, tail

\* _split_at cuts a document behind as many cells as the position says.
THEOREM SplitAtCutsCells ==
  ASSUME NEW d, IsDocument(d), NEW position \in 0..Len(CellsOfSpans(d))
  PROVE  LET halves == SplitAt(d, position)
         IN /\ IsDocument(halves.before) /\ IsDocument(halves.after)
            /\ Len(CellsOfSpans(halves.before)) = position
            /\ CellsOfSpans(d) = CellsOfSpans(halves.before) \o CellsOfSpans(halves.after)
<1> DEFINE n == SpansBefore(d, position)
           local == position - EndOf(d, n)
           kept == SubSeq(d, 1, n)
           rest == SubSeq(d, n + 1, Len(d))
           halves == SplitAt(d, position)
           Correct(h) == /\ IsDocument(h.before) /\ IsDocument(h.after)
                         /\ Len(CellsOfSpans(h.before)) = position
                         /\ CellsOfSpans(d) = CellsOfSpans(h.before) \o CellsOfSpans(h.after)
<1>1. /\ Len(CellsOfSpans(d)) \in Nat /\ position \in Nat /\ Len(d) \in Nat
      /\ EndOf(d, Len(d)) = Len(CellsOfSpans(d))
  BY EndsCountCells, SeqFacts DEF IsDocument
<1>2. n \in 0..Len(d) /\ EndOf(d, n) <= position
  BY <1>1, SpansBeforeFacts
<1>3. /\ IsDocument(kept) /\ EndOf(d, n) = Len(CellsOfSpans(kept)) /\ EndOf(d, n) \in Nat
  BY <1>2, EndsCountCells
<1>4. d = kept \o rest /\ Len(rest) = Len(d) - n /\ IsDocument(rest)
  <2>1. n + 1 \in Nat \ {0} /\ Len(d) <= Len(d)
    BY <1>1, <1>2
  <2> QED
    BY <1>1, <1>2, <2>1, SplitSeq, DocumentPart DEF IsDocument
<1>5. CellsOfSpans(d) = CellsOfSpans(kept) \o CellsOfSpans(rest)
  BY <1>3, <1>4, CellsConcat
<1>6. CASE rest = <<>> \/ local = 0 \/ rest[1].prefix
  <2>1. halves = [before |-> kept, after |-> rest]
    BY <1>6 DEF SplitAt
  <2>2. EndOf(d, n) = position
    <3>1. CASE local = 0
      <4>1. \A p, e \in Nat : p - e = 0 => e = p
        OBVIOUS
      <4> QED
        BY <1>1, <1>3, <3>1, <4>1
    <3>2. CASE rest = <<>>
      <4>1. n = Len(d)
        <5>1. Len(rest) = 0
          BY <3>2, EmptyIsSeq, Zenon
        <5>2. \A k, l \in Nat : l - k = 0 => k = l
          OBVIOUS
        <5>3. n \in Nat /\ Len(d) - n = 0
          BY <1>1, <1>2, <1>4, <5>1
        <5> QED
          BY <1>1, <5>2, <5>3
      <4> QED
        BY <1>1, <1>2, <4>1
    <3>3. CASE rest # <<>> /\ local # 0 /\ rest[1].prefix
      <4>1. position # Len(CellsOfSpans(d))
        <5> SUFFICES ASSUME position = Len(CellsOfSpans(d)) PROVE FALSE
          OBVIOUS
        <5>1. ~(EndOf(d, Len(d)) > position)
          BY <1>1
        <5>2. Len(d) \notin (n + 1)..Len(d)
          BY <1>1, <5>1, SpansBeforeFacts
        <5>3. n = Len(d)
          BY <1>1, <1>2, <5>2
        <5>4. Len(rest) = 0
          BY <1>1, <1>4, <5>3
        <5> QED
          BY <1>4, <3>3, <5>4, NoElements DEF IsDocument
      <4>2. position \in 0..Len(CellsOfSpans(d)) - 1
        BY <1>1, <4>1
      <4>3. n \in Nat /\ n < Len(d) /\ IsSpan(d[n + 1]) /\ local \in 0..Len(d[n + 1].text) - 1
        BY <4>2, SpanAt
      <4>4. rest[1] = d[n + 1]
        BY <4>3, Around DEF IsDocument
      <4>5. Len(d[n + 1].text) = 1
        <5>1. PICK symbol \in Symbols : d[n + 1] = PrefixSpan(symbol)
          BY <3>3, <4>3, <4>4, SpanFacts
        <5>2. d[n + 1].text = <<symbol>>
          BY <5>1, PrefixSpanFacts
        <5>3. Len(<<symbol>>) = 1
          BY SingleIsSeq
        <5> QED
          BY <5>2, <5>3, Zenon
      <4>6. local = 0
        <5> HIDE DEF local
        <5> QED
          BY <4>3, <4>5
      <4> QED
        BY <3>3, <4>6
    <3> QED
      BY <1>6, <3>1, <3>2, <3>3
  <2> HIDE DEF n, local, kept, rest
  <2>3. Correct([before |-> kept, after |-> rest])
    BY <1>3, <1>4, <1>5, <2>2
  <2> QED
    BY <2>1, <2>3
<1>7. CASE ~(rest = <<>> \/ local = 0 \/ rest[1].prefix)
  <2> DEFINE text == rest[1].text
             t == SubSeq(text, 1, local)
             u == SubSeq(text, local + 1, Len(text))
             before == Append(kept, TextSpan(t))
             after == <<TextSpan(u)>> \o Tail(rest)
  <2>1. halves = [before |-> before, after |-> after]
    BY <1>7 DEF SplitAt
  <2>2. n # Len(d)
    <3> SUFFICES ASSUME n = Len(d) PROVE FALSE
      OBVIOUS
    <3>1. Len(rest) = 0
      BY <1>1, <1>4
    <3> QED
      BY <1>4, <1>7, <3>1, NoElements DEF IsDocument
  <2>3. position \in 0..Len(CellsOfSpans(d)) - 1
    <3>1. Len(d) \in (n + 1)..Len(d)
      BY <1>1, <1>2, <2>2
    <3>2. EndOf(d, Len(d)) > position
      BY <1>1, <3>1, SpansBeforeFacts
    <3> QED
      BY <1>1, <3>2
  <2> DEFINE tail == SubSeq(d, n + 2, Len(d))
  <2>4. /\ n \in Nat /\ n < Len(d) /\ IsSpan(d[n + 1]) /\ local \in 0..Len(d[n + 1].text) - 1
        /\ IsDocument(tail)
        /\ CellsOfSpans(d) = CellsOfSpans(kept) \o CellsOfSpan(d[n + 1]) \o CellsOfSpans(tail)
    BY <2>3, SpanAt
  <2>5. rest[1] = d[n + 1]
    BY <2>4, Around DEF IsDocument
  <2>6. Tail(rest) = tail
    <3>1. n + 1 \in 1..Len(d) /\ Len(d) \in n + 1..Len(d) /\ (n + 1) + 1 = n + 2
      BY <1>1, <2>4
    <3>2. Tail(rest) = SubSeq(d, (n + 1) + 1, Len(d))
      BY <3>1, HeadTailOfSubSeq DEF IsDocument, IsSeq
    <3> QED
      BY <3>1, <3>2
  <2>7. IsSeq(text) /\ d[n + 1] = TextSpan(text)
    BY <1>7, <2>4, <2>5, SpanFacts
  <2>8. Len(text) \in Nat /\ local \in 0..Len(text) /\ position = EndOf(d, n) + local
    <3>1. Len(text) \in Nat /\ local \in 0..Len(text) - 1
      BY <2>4, <2>5, <2>7, SeqFacts
    <3>2. position = EndOf(d, n) + local
      BY <1>1, <1>3
    <3> HIDE DEF local, text
    <3> QED
      BY <3>1, <3>2
  <2> HIDE DEF n, local, kept, rest, tail, text
  <2>9. text = t \o u /\ IsSeq(t) /\ Len(t) = local /\ IsSeq(u)
    BY <2>7, <2>8, SplitSeq
  <2> HIDE DEF t, u
  <2>10. /\ IsSpan(TextSpan(t)) /\ CellsOfSpan(TextSpan(t)) = CellsOfText(t)
         /\ IsSpan(TextSpan(u)) /\ CellsOfSpan(TextSpan(u)) = CellsOfText(u)
         /\ CellsOfSpan(d[n + 1]) = CellsOfText(t) \o CellsOfText(u)
    BY <2>7, <2>9, TextSpanFacts, CellsOfTextConcat
  <2>11. /\ IsSeq(CellsOfText(t)) /\ Len(CellsOfText(t)) = local /\ IsSeq(CellsOfText(u))
         /\ IsSeq(CellsOfSpans(kept)) /\ IsSeq(CellsOfSpans(tail))
    BY <1>3, <2>4, <2>9, CellsOfTextFacts, DocumentIsItsCells DEF IsLine
  <2>12. IsDocument(before) /\ CellsOfSpans(before) = CellsOfSpans(kept) \o CellsOfText(t)
    <3>1. before = kept \o <<TextSpan(t)>>
      BY <1>3, AppendSeqs DEF IsDocument
    <3> QED
      BY <1>3, <2>10, <3>1, SingleDocument, DocumentsConcat, CellsConcat, CellsOfSingle
  <2>13. IsDocument(after) /\ CellsOfSpans(after) = CellsOfText(u) \o CellsOfSpans(tail)
    BY <2>4, <2>6, <2>10, SingleDocument, DocumentsConcat, CellsConcat, CellsOfSingle
  <2>14. Len(CellsOfSpans(before)) = position
    BY <1>3, <2>8, <2>11, <2>12, ConcatSeqs
  <2>15. CellsOfSpans(d) = CellsOfSpans(before) \o CellsOfSpans(after)
    <3> DEFINE k == CellsOfSpans(kept)
               a == CellsOfText(t)
               b == CellsOfText(u)
               z == CellsOfSpans(tail)
    <3>1. IsSeq(k) /\ IsSeq(a) /\ IsSeq(b) /\ IsSeq(z)
      BY <2>11
    <3>2. CellsOfSpans(d) = k \o (a \o b) \o z
      BY <2>4, <2>10
    <3> HIDE DEF k, a, b, z
    <3>3. k \o (a \o b) = (k \o a) \o b /\ IsSeq(k \o a)
      BY <3>1, ConcatAssoc, ConcatSeqs
    <3>4. ((k \o a) \o b) \o z = (k \o a) \o (b \o z)
      <4>1. IsSeq(k \o a) /\ IsSeq(b) /\ IsSeq(z)
        BY <3>1, <3>3
      <4> QED
        BY <4>1, ConcatAssoc
    <3> QED
      BY <2>12, <2>13, <3>2, <3>3, <3>4 DEF k, a, b, z
  <2> HIDE DEF before, after
  <2>16. Correct([before |-> before, after |-> after])
    BY <2>12, <2>13, <2>14, <2>15
  <2> QED
    BY <2>1, <2>16
<1> QED
  BY <1>6, <1>7

-----------------------------------------------------------------------------
(***************************************************************************)
(* What the operations on documents do to the cells.                       *)
(***************************************************************************)

\* s \o t, kept from the prover where only its associativity matters.
Cat(s, t) == s \o t

LEMMA CatFacts ==
  ASSUME NEW s, NEW t, IsSeq(s), IsSeq(t)
  PROVE  IsSeq(Cat(s, t)) /\ Len(Cat(s, t)) = Len(s) + Len(t)
BY ConcatSeqs DEF Cat

LEMMA CatAssoc ==
  ASSUME NEW s, NEW t, NEW u, IsSeq(s), IsSeq(t), IsSeq(u)
  PROVE  Cat(Cat(s, t), u) = Cat(s, Cat(t, u))
BY ConcatAssoc DEF Cat

\* Names for what several things are, so that a fact about all of them is found.
AllSeqs(k, a, b, z) == IsSeq(k) /\ IsSeq(a) /\ IsSeq(b) /\ IsSeq(z)
AllDocuments(a, b, c) == IsDocument(a) /\ IsDocument(b) /\ IsDocument(c)

\* Taking out an element of the middle one of three sequences.
LEMMA RemovedInside ==
  ASSUME NEW k, NEW a, NEW b, NEW z, NEW e, AllSeqs(k, a, b, z)
  PROVE  RemoveAt((k \o ((a \o <<e>>) \o b)) \o z, (Len(k) + Len(a)) + 1) = (k \o (a \o b)) \o z
<1> DEFINE c == <<e>>
<1>0. IsSeq(k) /\ IsSeq(a) /\ IsSeq(b) /\ IsSeq(z)
  BY DEF AllSeqs
<1>1. IsSeq(c)
  BY SingleIsSeq
<1> USE <1>0
<1> HIDE DEF c
<1>2. /\ IsSeq(Cat(k, a)) /\ Len(Cat(k, a)) = Len(k) + Len(a)
      /\ IsSeq(Cat(b, z)) /\ IsSeq(Cat(a, c)) /\ IsSeq(Cat(Cat(k, a), c))
  BY <1>1, CatFacts
<1>3. Cat(Cat(k, Cat(a, b)), z) = Cat(Cat(k, a), Cat(b, z))
  <2>1. Cat(k, Cat(a, b)) = Cat(Cat(k, a), b)
    BY CatAssoc
  <2>2. Cat(Cat(Cat(k, a), b), z) = Cat(Cat(k, a), Cat(b, z))
    BY <1>2, CatAssoc
  <2> QED
    BY <2>1, <2>2
<1>4. Cat(Cat(k, Cat(Cat(a, c), b)), z) = Cat(Cat(Cat(k, a), c), Cat(b, z))
  <2>1. Cat(k, Cat(Cat(a, c), b)) = Cat(Cat(k, Cat(a, c)), b)
    BY <1>2, CatAssoc
  <2>2. Cat(k, Cat(a, c)) = Cat(Cat(k, a), c)
    BY <1>1, CatAssoc
  <2>3. Cat(Cat(Cat(Cat(k, a), c), b), z) = Cat(Cat(Cat(k, a), c), Cat(b, z))
    BY <1>2, CatAssoc
  <2> QED
    BY <2>1, <2>2, <2>3
<1> DEFINE s == Cat(k, a)
           t == Cat(b, z)
<1> HIDE DEF s, t
<1>5. RemoveAt((s \o <<e>>) \o t, Len(s) + 1) = s \o t
  BY <1>2, RemovedBetween DEF s, t
<1>6. (k \o ((a \o c) \o b)) \o z = (s \o c) \o t
  BY <1>4, Zenon DEF Cat, s, t
<1>7. (k \o (a \o b)) \o z = s \o t
  BY <1>3, Zenon DEF Cat, s, t
<1>8. Len(s) = Len(k) + Len(a)
  BY <1>2 DEF s
<1> QED
  BY <1>5, <1>6, <1>7, <1>8, Zenon DEF c

LEMMA ThreeDocuments ==
  ASSUME NEW a, NEW b, NEW c, AllDocuments(a, b, c)
  PROVE  /\ IsDocument((a \o b) \o c)
         /\ CellsOfSpans((a \o b) \o c) = (CellsOfSpans(a) \o CellsOfSpans(b)) \o CellsOfSpans(c)
<1> DEFINE ab == a \o b
<1> USE DEF AllDocuments
<1>1. IsDocument(ab) /\ CellsOfSpans(ab) = CellsOfSpans(a) \o CellsOfSpans(b)
  BY DocumentsConcat, CellsConcat
<1> HIDE DEF ab
<1>2. IsDocument(ab \o c) /\ CellsOfSpans(ab \o c) = CellsOfSpans(ab) \o CellsOfSpans(c)
  BY <1>1, DocumentsConcat, CellsConcat
<1> QED
  BY <1>1, <1>2 DEF ab

\* A new document is its text.
LEMMA FromTextFacts ==
  ASSUME NEW text, IsSeq(text)
  PROVE  IsDocument(FromText(text)) /\ CellsOfSpans(FromText(text)) = CellsOfText(text)
<1>1. CASE text = <<>>
  <2>1. CellsOfText(text) = <<>>
    BY <1>1, CellsOfTextFacts, EmptyIsSeq, NoElements
  <2> QED
    BY <1>1, <2>1, NoSpansIsDocument, NothingShown DEF FromText, NoSpans
<1>2. CASE text # <<>>
  BY <1>2, TextSpanFacts, SingleDocument, CellsOfSingle DEF FromText
<1> QED
  BY <1>1, <1>2

\* A span of one cell put into a document is that cell put between the others.
LEMMA InsertSpanFacts ==
  ASSUME NEW d, IsDocument(d), NEW position \in 0..Len(CellsOfSpans(d)),
         NEW span, IsSpan(span), NEW cell, CellsOfSpan(span) = <<cell>>
  PROVE  /\ IsDocument(InsertSpan(d, position, span))
         /\ CellsOfSpans(InsertSpan(d, position, span)) = InsertAt(CellsOfSpans(d), position + 1, cell)
<1> DEFINE before == SplitAt(d, position).before
           after == SplitAt(d, position).after
           whole == before \o <<span>> \o after
<1>1. /\ IsDocument(before) /\ IsDocument(after)
      /\ Len(CellsOfSpans(before)) = position
      /\ CellsOfSpans(d) = CellsOfSpans(before) \o CellsOfSpans(after)
  BY SplitAtCutsCells
<1>2. InsertSpan(d, position, span) = Compact(whole)
  BY DEF InsertSpan
<1> HIDE DEF before, after
<1>3. IsDocument(<<span>>) /\ CellsOfSpans(<<span>>) = <<cell>>
  BY SingleDocument, CellsOfSingle
<1>4. /\ IsDocument(whole)
      /\ CellsOfSpans(whole) = CellsOfSpans(before) \o <<cell>> \o CellsOfSpans(after)
  <2> DEFINE single == <<span>>
  <2>1. IsDocument(single) /\ CellsOfSpans(single) = <<cell>> /\ whole = (before \o single) \o after
    BY <1>3
  <2> HIDE DEF single, whole
  <2>2. AllDocuments(before, single, after)
    BY <1>1, <2>1 DEF AllDocuments
  <2>3. /\ IsDocument(whole)
        /\ CellsOfSpans(whole) = (CellsOfSpans(before) \o CellsOfSpans(single)) \o CellsOfSpans(after)
    <3>1. whole = (before \o single) \o after
      BY <2>1
    <3>2. /\ IsDocument((before \o single) \o after)
          /\ CellsOfSpans((before \o single) \o after)
               = (CellsOfSpans(before) \o CellsOfSpans(single)) \o CellsOfSpans(after)
      BY <2>2, ThreeDocuments
    <3> QED
      BY <3>1, <3>2, Zenon
  <2> QED
    BY <2>1, <2>3
<1> HIDE DEF whole
<1>5. IsDocument(Compact(whole)) /\ CellsOfSpans(Compact(whole)) = CellsOfSpans(whole)
  BY <1>4, CompactKeepsCells
<1>6. IsSeq(CellsOfSpans(before)) /\ IsSeq(CellsOfSpans(after))
  BY <1>1, DocumentIsItsCells DEF IsLine
<1>7. InsertAt(CellsOfSpans(before) \o CellsOfSpans(after), Len(CellsOfSpans(before)) + 1, cell)
        = CellsOfSpans(before) \o <<cell>> \o CellsOfSpans(after)
  BY <1>6, InsertedBetween
<1> QED
  BY <1>1, <1>2, <1>4, <1>5, <1>7

\* insert_text and insert_engineering_prefix: one cell is inserted at the position.
THEOREM InsertionInsertsACell ==
  ASSUME NEW d, IsDocument(d), NEW position \in 0..Len(CellsOfSpans(d))
  PROVE  /\ \A token : LET e == InsertText(d, position, <<token>>)
                       IN /\ IsDocument(e)
                          /\ CellsOfSpans(e) = InsertAt(CellsOfSpans(d), position + 1, CharCell(token))
         /\ \A symbol \in Symbols :
              LET e == InsertEngineeringPrefix(d, position, symbol)
              IN /\ IsDocument(e)
                 /\ CellsOfSpans(e) = InsertAt(CellsOfSpans(d), position + 1, PrefixCell(symbol))
<1>1. ASSUME NEW token
      PROVE  LET e == InsertText(d, position, <<token>>)
             IN /\ IsDocument(e)
                /\ CellsOfSpans(e) = InsertAt(CellsOfSpans(d), position + 1, CharCell(token))
  <2>1. IsSeq(<<token>>) /\ Len(<<token>>) = 1 /\ <<token>>[1] = token /\ <<token>> # <<>>
    BY SingleIsSeq, EmptyIsSeq, NoElements
  <2>2. InsertText(d, position, <<token>>) = InsertSpan(d, position, TextSpan(<<token>>))
    BY <2>1 DEF InsertText
  <2>3. CellsOfText(<<token>>) = <<CharCell(token)>>
    <3> DEFINE text == <<token>>
    <3>1. IsSeq(text) /\ Len(text) = 1 /\ text[1] = token
      BY <2>1
    <3> HIDE DEF text
    <3>2. IsSeq(CellsOfText(text)) /\ Len(CellsOfText(text)) = 1 /\ CellsOfText(text)[1] = CharCell(token)
      BY <3>1, CellsOfTextFacts
    <3>3. CellsOfText(text) = <<CharCell(token)>>
      BY <3>2, SingleSeq
    <3> QED
      BY <3>3 DEF text
  <2>4. IsSpan(TextSpan(<<token>>)) /\ CellsOfSpan(TextSpan(<<token>>)) = <<CharCell(token)>>
    BY <2>1, <2>3, TextSpanFacts
  <2> QED
    BY <2>2, <2>4, InsertSpanFacts
<1>2. ASSUME NEW symbol \in Symbols
      PROVE  LET e == InsertEngineeringPrefix(d, position, symbol)
             IN /\ IsDocument(e)
                /\ CellsOfSpans(e) = InsertAt(CellsOfSpans(d), position + 1, PrefixCell(symbol))
  <2>1. IsSpan(PrefixSpan(symbol)) /\ CellsOfSpan(PrefixSpan(symbol)) = <<PrefixCell(symbol)>>
    BY PrefixSpanFacts
  <2> QED
    BY <2>1, InsertSpanFacts DEF InsertEngineeringPrefix
<1> QED
  BY <1>1, <1>2

\* _delete_at: one cell is taken out at the position, a character or a whole prefix.
THEOREM DeletionDeletesACell ==
  ASSUME NEW d, IsDocument(d), NEW position \in 0..Len(CellsOfSpans(d)) - 1
  PROVE  /\ IsDocument(DeleteAt(d, position))
         /\ CellsOfSpans(DeleteAt(d, position)) = RemoveAt(CellsOfSpans(d), position + 1)
<1> DEFINE n == SpansBefore(d, position)
           span == d[n + 1]
           text == span.text
           local == position - EndOf(d, n)
           left == RemoveAt(text, local + 1)
           kept == SubSeq(d, 1, n)
           tail == SubSeq(d, n + 2, Len(d))
           middle == IF span.prefix \/ left = <<>> THEN <<>> ELSE <<TextSpan(left)>>
           whole == kept \o middle \o tail
<1>1. /\ n \in Nat /\ IsDocument(kept) /\ IsDocument(tail) /\ IsSpan(span)
      /\ local \in 0..Len(text) - 1
      /\ EndOf(d, n) = Len(CellsOfSpans(kept)) /\ EndOf(d, n) \in Nat
      /\ CellsOfSpans(d) = CellsOfSpans(kept) \o CellsOfSpan(span) \o CellsOfSpans(tail)
  BY SpanAt
<1>2. DeleteAt(d, position) = Compact(whole)
  BY DEF DeleteAt
<1>3. position = Len(CellsOfSpans(kept)) + local /\ local \in Nat /\ local < Len(text) /\ IsSeq(text)
  <2>1. Len(CellsOfSpans(d)) \in Nat
    BY EndsCountCells
  <2>2. position \in Nat
    BY <2>1
  <2>3. \A p, e \in Nat : p = e + (p - e)
    OBVIOUS
  <2>4. IsSeq(text) /\ Len(text) \in Nat
    BY <1>1, SpanFacts, SeqFacts
  <2>5. position = Len(CellsOfSpans(kept)) + local
    BY <1>1, <2>2, <2>3
  <2> HIDE DEF local
  <2> QED
    BY <1>1, <2>4, <2>5
<1> HIDE DEF n, local, kept, tail, span
<1> DEFINE t == SubSeq(text, 1, local)
           u == SubSeq(text, local + 2, Len(text))
<1>4. /\ text = t \o <<text[local + 1]>> \o u /\ left = t \o u
      /\ IsSeq(t) /\ Len(t) = local /\ IsSeq(u)
  BY <1>3, Around
<1> HIDE DEF t, u
<1> DEFINE a == IF span.prefix THEN <<>> ELSE CellsOfText(t)
           b == IF span.prefix THEN <<>> ELSE CellsOfText(u)
           Parts(x, y, e) == /\ IsSeq(x) /\ IsSeq(y) /\ Len(x) = local
                             /\ CellsOfSpan(span) = x \o <<e>> \o y
                             /\ IsDocument(middle) /\ CellsOfSpans(middle) = x \o y
<1>5. PICK e : Parts(a, b, e)
  <2>1. CASE span.prefix
    <3>1. PICK symbol \in Symbols : span = PrefixSpan(symbol)
      BY <1>1, <2>1, SpanFacts
    <3>2. CellsOfSpan(span) = <<PrefixCell(symbol)>> /\ text = <<symbol>>
      BY <3>1, PrefixSpanFacts
    <3>3. Len(text) = 1
      BY <3>2, SingleIsSeq, Zenon
    <3>4. local = 0
      BY <1>3, <3>3
    <3>5. middle = <<>> /\ a = <<>> /\ b = <<>>
      BY <2>1
    <3>6. <<>> \o <<PrefixCell(symbol)>> \o <<>> = <<PrefixCell(symbol)>> /\ <<>> \o <<>> = <<>>
      BY SingleIsSeq, EmptyIsSeq, ConcatNothing
    <3> HIDE DEF middle, a, b
    <3>7. Parts(a, b, PrefixCell(symbol))
      BY <3>2, <3>4, <3>5, <3>6, EmptyIsSeq, NoSpansIsDocument, NothingShown
    <3> QED
      BY <3>7
  <2>2. CASE ~span.prefix
    <3>1. span = TextSpan(text)
      BY <1>1, <2>2, SpanFacts
    <3> HIDE DEF text
    <3> DEFINE e == text[local + 1]
    <3>2. IsSeq(<<e>>) /\ IsSeq(t \o <<e>>) /\ IsSeq(t \o u)
      BY <1>4, SingleIsSeq, ConcatSeqs
    <3>3. CellsOfText(<<e>>) = <<CharCell(e)>>
      <4>1. IsSeq(<<e>>) /\ Len(<<e>>) = 1 /\ <<e>>[1] = e
        BY SingleIsSeq
      <4> DEFINE single == <<e>>
      <4> HIDE DEF single
      <4>2. IsSeq(single) /\ Len(single) = 1 /\ single[1] = e
        BY <4>1 DEF single
      <4>3. IsSeq(CellsOfText(single)) /\ Len(CellsOfText(single)) = 1 /\ CellsOfText(single)[1] = CharCell(e)
        BY <4>2, CellsOfTextFacts
      <4>4. CellsOfText(single) = <<CharCell(e)>>
        BY <4>3, SingleSeq
      <4> QED
        BY <4>4 DEF single
    <3>4. CellsOfSpan(span) = CellsOfText(text)
      BY <1>3, <3>1, TextSpanFacts
    <3> HIDE DEF e
    <3>5. CellsOfText(t \o <<e>>) = CellsOfText(t) \o <<CharCell(e)>>
      BY <1>4, <3>2, <3>3, CellsOfTextConcat
    <3>6. CellsOfText((t \o <<e>>) \o u) = CellsOfText(t \o <<e>>) \o CellsOfText(u)
      BY <1>4, <3>2, CellsOfTextConcat
    <3>7. text = (t \o <<e>>) \o u
      BY <1>4 DEF e
    <3>8. CellsOfText(left) = CellsOfText(t) \o CellsOfText(u) /\ IsSeq(left)
      BY <1>4, <3>2, CellsOfTextConcat
    <3>9. IsSeq(CellsOfText(t)) /\ IsSeq(CellsOfText(u)) /\ Len(CellsOfText(t)) = local
      BY <1>4, CellsOfTextFacts
    <3> HIDE DEF left
    <3>10. middle = FromText(left)
      BY <2>2 DEF FromText, NoSpans
    <3>11. a = CellsOfText(t) /\ b = CellsOfText(u)
      BY <2>2
    <3> HIDE DEF middle, a, b
    <3>12. IsDocument(middle) /\ CellsOfSpans(middle) = CellsOfText(left)
      BY <3>8, <3>10, FromTextFacts
    <3>13. CellsOfSpan(span) = a \o <<CharCell(e)>> \o b
      BY <3>4, <3>5, <3>6, <3>7, <3>11
    <3>14. Parts(a, b, CharCell(e))
      BY <3>8, <3>9, <3>11, <3>12, <3>13
    <3> QED
      BY <3>14
  <2> QED
    BY <2>1, <2>2
<1> HIDE DEF a, b, middle
<1>6. /\ IsSeq(a) /\ IsSeq(b) /\ Len(a) = local
      /\ CellsOfSpan(span) = a \o <<e>> \o b
      /\ IsDocument(middle) /\ CellsOfSpans(middle) = a \o b
  BY <1>5
<1>7. /\ IsDocument(whole)
      /\ CellsOfSpans(whole) = CellsOfSpans(kept) \o (a \o b) \o CellsOfSpans(tail)
  <2>1. whole = (kept \o middle) \o tail
    OBVIOUS
  <2> HIDE DEF whole
  <2>2. AllDocuments(kept, middle, tail)
    BY <1>1, <1>6 DEF AllDocuments
  <2>3. /\ IsDocument(whole)
        /\ CellsOfSpans(whole) = (CellsOfSpans(kept) \o CellsOfSpans(middle)) \o CellsOfSpans(tail)
    <3>1. /\ IsDocument((kept \o middle) \o tail)
          /\ CellsOfSpans((kept \o middle) \o tail)
               = (CellsOfSpans(kept) \o CellsOfSpans(middle)) \o CellsOfSpans(tail)
      BY <2>2, ThreeDocuments
    <3> QED
      BY <2>1, <3>1, Zenon
  <2> QED
    BY <1>6, <2>3
<1>8. IsDocument(Compact(whole)) /\ CellsOfSpans(Compact(whole)) = CellsOfSpans(whole)
  BY <1>7, CompactKeepsCells
<1>9. IsSeq(CellsOfSpans(kept)) /\ IsSeq(CellsOfSpans(tail))
  BY <1>1, DocumentIsItsCells DEF IsLine
<1> HIDE DEF whole
<1>10. CellsOfSpans(d) = (CellsOfSpans(kept) \o CellsOfSpan(span)) \o CellsOfSpans(tail)
  BY <1>1
<1>11. CellsOfSpans(whole) = (CellsOfSpans(kept) \o CellsOfSpans(middle)) \o CellsOfSpans(tail)
  BY <1>6, <1>7
<1>12. RemoveAt(CellsOfSpans(d), position + 1) = CellsOfSpans(whole)
  <2> DEFINE k == CellsOfSpans(kept)
             z == CellsOfSpans(tail)
  <2>1. AllSeqs(k, a, b, z)
    BY <1>6, <1>9 DEF AllSeqs
  <2>2. CellsOfSpans(d) = (k \o ((a \o <<e>>) \o b)) \o z
    BY <1>6, <1>10
  <2>3. CellsOfSpans(whole) = (k \o (a \o b)) \o z
    BY <1>6, <1>11
  <2>4. position = Len(k) + Len(a)
    BY <1>3, <1>6
  <2> HIDE DEF k, z
  <2>5. RemoveAt((k \o ((a \o <<e>>) \o b)) \o z, (Len(k) + Len(a)) + 1) = (k \o (a \o b)) \o z
    BY <2>1, RemovedInside
  <2> QED
    BY <2>2, <2>3, <2>4, <2>5, Zenon
<1> QED
  BY <1>2, <1>8, <1>12

\* DEL behind a cell and overwriting in front of one.
LEMMA DeleteFacts ==
  ASSUME NEW d, IsDocument(d), NEW position \in 0..Len(CellsOfSpans(d))
  PROVE  /\ position # 0 =>
              /\ IsDocument(DeleteBackward(d, position))
              /\ CellsOfSpans(DeleteBackward(d, position)) = RemoveAt(CellsOfSpans(d), position)
         /\ IsDocument(DeleteForward(d, position))
         /\ CellsOfSpans(DeleteForward(d, position))
              = IF position < Len(CellsOfSpans(d)) THEN RemoveAt(CellsOfSpans(d), position + 1)
                ELSE CellsOfSpans(d)
<1>1. Len(Display(d)) = Len(CellsOfSpans(d)) /\ Len(CellsOfSpans(d)) \in Nat /\ position \in Nat
  BY EndsCountCells
<1>2. ASSUME position # 0
      PROVE  /\ IsDocument(DeleteBackward(d, position))
             /\ CellsOfSpans(DeleteBackward(d, position)) = RemoveAt(CellsOfSpans(d), position)
  <2>1. /\ position - 1 \in 0..Len(CellsOfSpans(d)) - 1 /\ (position - 1) + 1 = position
        /\ ~(position <= 0)
    BY <1>1, <1>2
  <2>2. DeleteBackward(d, position) = DeleteAt(d, position - 1)
    BY <2>1 DEF DeleteBackward
  <2>3. /\ IsDocument(DeleteAt(d, position - 1))
        /\ CellsOfSpans(DeleteAt(d, position - 1)) = RemoveAt(CellsOfSpans(d), (position - 1) + 1)
    BY <2>1, DeletionDeletesACell
  <2> QED
    BY <2>1, <2>2, <2>3
<1>3. CASE position < Len(CellsOfSpans(d))
  <2>1. position \in 0..Len(CellsOfSpans(d)) - 1 /\ ~(position >= Len(Display(d)))
    BY <1>1, <1>3
  <2>2. DeleteForward(d, position) = DeleteAt(d, position)
    BY <2>1 DEF DeleteForward
  <2> QED
    BY <1>2, <1>3, <2>1, <2>2, DeletionDeletesACell
<1>4. CASE ~(position < Len(CellsOfSpans(d)))
  BY <1>1, <1>2, <1>4 DEF DeleteForward
<1> QED
  BY <1>3, <1>4
=============================================================================
