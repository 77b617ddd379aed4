--------------------------- MODULE CalculusProofs ---------------------------
(***************************************************************************)
(* Proofs about Calculus for every number of interior points, every number    *)
(* of operations and every history limit: type correctness, that an integral   *)
(* is given a value only if it converges everywhere and called divergent only   *)
(* if it is not or a truncated part was reported infinite, and that Ans never   *)
(* changes without its record.                                             *)
(*                                                                         *)
(* The verdict on an integral is reached in many steps, so the invariant says   *)
(* for every stage what is known already: which ends are harmless, which         *)
(* components have been answered for, and which operation asks.                *)
(***************************************************************************)
EXTENDS Calculus, TLAPS

IntegralStages ==
  {"domain", "singularities", "interior", "proper", "direct", "truncated", "combine"}
StepwiseStages == {"at_point", "differences", "cas", "assign"}

\* Which operation is asking, and that its number was counted.
StageKnowsKind ==
  /\ stage \in IntegralStages => kind = "integral"
  /\ kind = "integral" => stage \in IntegralStages \cup {"idle", "record"}
  /\ stage \in StepwiseStages => kind \in Stepwise
  /\ stage # "idle" => asked > 0

\* Before the components are looked at, none has been found.
NothingFoundYet ==
  stage \in {"domain", "singularities", "interior", "proper"} =>
    /\ found = {} /\ ~second
    /\ stage \in {"domain", "singularities"} => point = 1

\* An interior point that is no problem has finite limits on both sides.
Harmless(j) == j \notin problems => f.right[j] = "finite" /\ f.left[j + 1] = "finite"

PointsAreSound ==
  /\ stage = "interior" => \A j \in 1..Interior : j < point => Harmless(j)
  /\ stage \in {"proper", "direct", "truncated", "combine"} =>
       /\ \A j \in 1..Interior : Harmless(j)
       /\ "lower" \notin ends => f.left[1] = "finite"
       /\ "upper" \notin ends => f.right[f.pieces] = "finite"
  /\ stage = "proper" => problems = {} /\ ends = {}

\* No end of the first n pieces makes the integral diverge.
ConvergesUpTo(n) == \A k \in 1..f.pieces : k <= n => "divergent" \notin {f.left[k], f.right[k]}

\* What the answers so far are worth.
AnswersAreSound ==
  /\ "exists" \in found => f.defined
  /\ "diverges" \in found =>
       misled \/ \E k \in 1..f.pieces : "divergent" \in {f.left[k], f.right[k]}
  /\ stage \in {"direct", "truncated"} /\ found \subseteq {"exists"} =>
       /\ ConvergesUpTo(point - 1)
       /\ second => f.left[point] # "divergent"
  /\ stage = "combine" =>
       /\ found # {}
       /\ found \subseteq {"exists"} => ConvergesUpTo(f.pieces)

\* The inductive invariant.
IInv ==
  /\ TypeOK
  /\ StageKnowsKind
  /\ NothingFoundYet
  /\ PointsAreSound
  /\ AnswersAreSound
  /\ ValueMeansConvergence
  /\ DivergesByTruncation

-----------------------------------------------------------------------------
(***************************************************************************)
(* What the ends of an operation keep.                                     *)
(***************************************************************************)

\* The parts of an integrand.
LEMMA IntegrandTypes ==
  ASSUME TypeOK
  PROVE  /\ f.pieces \in Nat /\ f.pieces >= 1
         /\ f.left \in [1..f.pieces -> Natures]
         /\ f.right \in [1..f.pieces -> Natures]
         /\ f.defined \in BOOLEAN
         /\ f.lowerInfinite => f.left[1] # "finite"
         /\ f.upperInfinite => f.right[f.pieces] # "finite"
  BY CalculusAssumption DEF TypeOK, Integrand

\* A record of the operation that was counted last goes to the end of the history.
LEMMA RecordedTypes ==
  ASSUME TypeOK, asked > 0
  PROVE  /\ Recorded(history) \in Seq(1..asked)
         /\ Len(Recorded(history)) <= HistoryLimit
         /\ Recorded(history) # <<>>
         /\ Recorded(history)[Len(Recorded(history))] = asked
<1>1. history \in Seq(1..asked) /\ Len(history) <= HistoryLimit /\ asked \in 1..asked
  BY CalculusAssumption DEF TypeOK
<1>2. HistoryLimit \in Nat /\ HistoryLimit > 0
  BY CalculusAssumption
<1>3. CASE Len(history) = HistoryLimit
  <2>1. history # <<>>
    BY <1>1, <1>2, <1>3
  <2>2. Tail(history) \in Seq(1..asked) /\ Len(Tail(history)) = Len(history) - 1
    BY <1>1, <2>1
  <2>3. Recorded(history) = Append(Tail(history), asked)
    BY <1>3 DEF Recorded
  <2> QED
    BY <1>1, <1>2, <1>3, <2>2, <2>3
<1>4. CASE Len(history) # HistoryLimit
  <2>1. Recorded(history) = Append(history, asked)
    BY <1>4 DEF Recorded
  <2> QED
    BY <1>1, <1>2, <1>4, <2>1
<1> QED
  BY <1>3, <1>4

\* The history of before is one of after: operations are only counted up.
LEMMA HistoryGrows ==
  ASSUME TypeOK, asked' = asked + 1
  PROVE  history \in Seq(1..asked')
<1>1. asked \in Nat /\ history \in Seq(1..asked)
  BY CalculusAssumption DEF TypeOK
<1>2. 1..asked \subseteq 1..asked'
  BY <1>1
<1> QED
  BY <1>1, <1>2

\* A step within an operation only has to keep the types of the work.
LEMMA WorkTypes ==
  ASSUME TypeOK, NEW s \in Stages, Go(s),
         listed' \in BOOLEAN, second' \in BOOLEAN, exact' \in BOOLEAN, misled' \in BOOLEAN,
         point' \in 1..f.pieces, problems' \subseteq 1..Interior,
         ends' \subseteq {"lower", "upper"},
         found' \subseteq {"exists", "diverges", "undetermined"}
  PROVE  TypeOK'
  BY DEF TypeOK, Go, Interior

\* An operation that is not an integral, or is not under way, may end or move on
\* as it likes: nothing is claimed about it but its types.
LEMMA OtherOperations ==
  ASSUME IInv, TypeOK', UNCHANGED <<kind, f, found, point, second, problems, ends, misled>>,
         kind # "integral", stage' \notin IntegralStages, asked' = asked,
         stage # "idle", stage' \in StepwiseStages => kind \in Stepwise
  PROVE  IInv'
  BY DEF IInv, TypeOK, StageKnowsKind, IntegralStages, NothingFoundYet, PointsAreSound, AnswersAreSound,
         ValueMeansConvergence, DivergesByTruncation

\* An integral that ends without a value and is not called divergent.
LEMMA IntegralGivesUp ==
  ASSUME IInv, stage # "idle", NEW s \in {"undetermined", "undefined", "error"}, Without(s)
  PROVE  IInv'
<1>1. TypeOK'
  BY DEF IInv, TypeOK, Without, work, Interior, Stages
<1> QED
  BY <1>1 DEF IInv, TypeOK, Without, work, StageKnowsKind, IntegralStages, StepwiseStages,
              NothingFoundYet, PointsAreSound, AnswersAreSound,
              ValueMeansConvergence, DivergesByTruncation

-----------------------------------------------------------------------------
\* At launch nothing has been asked.
LEMMA InitIInv == Init => IInv
<1> SUFFICES ASSUME Init PROVE IInv
  OBVIOUS
<1>1. PICK n \in 1..(MaxInterior + 1) : f \in Integrand(n)
  BY DEF Init, Integrands
<1>2. f.pieces = n
  BY <1>1 DEF Integrand
<1>3. n \in Nat /\ n >= 1
  BY CalculusAssumption
<1>4. TypeOK
  <2>1. f.pieces \in 1..(MaxInterior + 1) /\ f \in Integrand(f.pieces) /\ 1 \in 1..f.pieces
    BY <1>1, <1>2, <1>3
  <2>2. history \in Seq(1..asked) /\ Len(history) <= HistoryLimit
    BY CalculusAssumption DEF Init
  <2>3. asked \in 0..MaxRequests /\ ans \in 0..asked
    BY CalculusAssumption DEF Init
  <2> QED
    BY <2>1, <2>2, <2>3 DEF Init, TypeOK, Stages, Committed, Interior
<1> QED
  BY <1>4 DEF Init, IInv, StageKnowsKind, IntegralStages, StepwiseStages, Committed, NothingFoundYet,
              PointsAreSound, AnswersAreSound, ValueMeansConvergence, DivergesByTruncation

\* A new operation forgets what the one before found.
LEMMA AskIInv ==
  ASSUME IInv, NEW k \in Committed \cup Stepwise, Ask(k)
  PROVE  IInv'
<1>1. stage' \in Stages /\ stage' \notin {"idle", "record", "interior", "proper", "direct", "truncated", "combine"}
  BY DEF Ask, FirstQuestion, Stages, Committed, Stepwise
<1>2. TypeOK'
  <2>1. history' \in Seq(1..asked')
    BY HistoryGrows DEF IInv, Ask
  <2>2. asked' \in 0..MaxRequests /\ ans' \in 0..asked'
    BY CalculusAssumption DEF IInv, TypeOK, Ask
  <2>3. TypeOK
    BY DEF IInv
  <2>4. 1 \in 1..f.pieces
    BY <2>3, IntegrandTypes
  <2>5. f' = f /\ history' = history
    BY DEF Ask
  <2> QED
    BY <1>1, <2>1, <2>2, <2>3, <2>4, <2>5 DEF TypeOK, Ask, Interior
<1>3. /\ stage' \in IntegralStages <=> k = "integral"
      /\ stage' \in StepwiseStages => k \in Stepwise
  BY DEF Ask, FirstQuestion, IntegralStages, StepwiseStages, Committed, Stepwise
<1> QED
  BY <1>1, <1>2, <1>3 DEF IInv, TypeOK, Ask, StageKnowsKind, NothingFoundYet, PointsAreSound, AnswersAreSound,
              ValueMeansConvergence, DivergesByTruncation

\* Recording an integral needs to know that it converges, any other operation nothing.
LEMMA RecordIInv ==
  ASSUME IInv, NEW answer \in BOOLEAN, Record(answer), stage \notin {"idle"} \cup IntegralStages,
         kind = "integral" => stage = "record"
  PROVE  IInv'
<1>1. TypeOK'
  BY RecordedTypes DEF IInv, TypeOK, Record, work, Stages, Interior, StageKnowsKind
<1> QED
  BY <1>1 DEF IInv, TypeOK, Record, work, StageKnowsKind, IntegralStages, StepwiseStages, NothingFoundYet,
              PointsAreSound, AnswersAreSound, ValueMeansConvergence, DivergesByTruncation

-----------------------------------------------------------------------------
(***************************************************************************)
(* The steps of an integral.                                               *)
(***************************************************************************)

LEMMA AskDomainIInv ==
  ASSUME IInv, AskDomain
  PROVE  IInv'
<1>1. CASE Without("undetermined") \/ Without("undefined")
  BY <1>1, IntegralGivesUp DEF AskDomain
<1>2. CASE Go("singularities") /\ listed' \in BOOLEAN
           /\ UNCHANGED <<point, problems, ends, second, found, exact, misled>>
  <2>1. TypeOK'
    BY <1>2 DEF IInv, TypeOK, Go, Stages, Interior
  <2> QED
    BY <1>2, <2>1 DEF AskDomain, IInv, TypeOK, Go, StageKnowsKind, IntegralStages, StepwiseStages,
                      NothingFoundYet, PointsAreSound, AnswersAreSound,
                      ValueMeansConvergence, DivergesByTruncation
<1> QED
  BY <1>1, <1>2 DEF AskDomain

LEMMA AskSingularitiesIInv ==
  ASSUME IInv, AskSingularities
  PROVE  IInv'
<1>1. CASE Without("undetermined")
  BY <1>1, IntegralGivesUp DEF AskSingularities
<1>2. CASE Go("interior") /\ UNCHANGED work
  <2>1. TypeOK'
    BY <1>2 DEF IInv, TypeOK, Go, work, Stages, Interior
  <2>2. \A j \in 1..Interior : ~(j < point)
    BY IntegrandTypes DEF AskSingularities, IInv, NothingFoundYet, Interior
  <2> QED
    BY <1>2, <2>1, <2>2 DEF AskSingularities, IInv, TypeOK, Go, work, StageKnowsKind, IntegralStages,
                            StepwiseStages, NothingFoundYet, PointsAreSound, Interior, AnswersAreSound,
                            ValueMeansConvergence, DivergesByTruncation
<1> QED
  BY <1>1, <1>2 DEF AskSingularities

\* A point that is passed over has finite limits on both sides.
LEMMA ClassifyPointIInv ==
  ASSUME IInv, ClassifyPoint
  PROVE  IInv'
<1>1. PICK before \in Looks(f.right[point]), after \in Looks(f.left[point + 1]) :
        IF "unknown" \in {before, after} THEN Without("undetermined")
        ELSE /\ problems' = IF "problem" \in {before, after} THEN problems \cup {point} ELSE problems
             /\ point' = point + 1
             /\ Go("interior")
             /\ UNCHANGED <<listed, ends, second, found, exact, misled>>
  BY DEF ClassifyPoint
<1>2. CASE "unknown" \in {before, after}
  BY <1>1, <1>2, IntegralGivesUp DEF ClassifyPoint
<1>3. CASE "unknown" \notin {before, after}
  <2>1. f.pieces \in Nat /\ point \in 1..f.pieces /\ point <= f.pieces - 1
    BY IntegrandTypes DEF ClassifyPoint, IInv, TypeOK, Interior
  <2>2. TypeOK'
    <3>1. point' \in 1..f.pieces
      BY <1>1, <1>3, <2>1
    <3>2. problems' \subseteq 1..Interior
      <4>1. point \in 1..Interior
        BY <2>1 DEF Interior
      <4>2. problems' \subseteq problems \cup {point}
        BY <1>1, <1>3
      <4> QED
        BY <4>1, <4>2 DEF IInv, TypeOK
    <3>3. Go("interior") /\ "interior" \in Stages
      BY <1>1, <1>3 DEF Stages
    <3>4. UNCHANGED <<listed, second, exact, ends, found, misled>>
      BY <1>1, <1>3 DEF Go
    <3> QED
      BY <3>1, <3>2, <3>3, <3>4, WorkTypes DEF IInv, TypeOK
  <2>3. "problem" \notin {before, after} => f.right[point] = "finite" /\ f.left[point + 1] = "finite"
    BY <1>1, <1>3 DEF Looks
  <2>4. \A j \in 1..Interior : j < point' => Harmless(j)'
    <3> TAKE j \in 1..Interior
    <3> HAVE j < point'
    <3>1. CASE j = point
      BY <1>1, <1>3, <2>1, <2>3, <3>1 DEF Harmless, Go
    <3>2. CASE j # point
      BY <1>1, <1>3, <2>1, <3>2 DEF ClassifyPoint, Harmless, Go, IInv, PointsAreSound, Interior
    <3> QED
      BY <3>1, <3>2
  <2> QED
    BY <1>1, <1>3, <2>2, <2>4 DEF ClassifyPoint, IInv, TypeOK, Go, StageKnowsKind, IntegralStages,
         StepwiseStages, NothingFoundYet, PointsAreSound, Interior, AnswersAreSound,
         ValueMeansConvergence, DivergesByTruncation
<1> QED
  BY <1>2, <1>3

\* With the endpoints classified too, every end that is not in problems or ends is finite.
LEMMA ClassifyEndsIInv ==
  ASSUME IInv, ClassifyEnds
  PROVE  IInv'
<1>1. PICK lower \in IF f.lowerInfinite THEN {"problem"} ELSE Looks(f.left[1]),
           upper \in IF f.upperInfinite THEN {"problem"} ELSE Looks(f.right[f.pieces]) :
        IF "unknown" \in {lower, upper} THEN Without("undetermined")
        ELSE /\ ends' = {e \in {"lower", "upper"} : (IF e = "lower" THEN lower ELSE upper) = "problem"}
             /\ point' = 1
             /\ Go(IF problems = {} /\ ends' = {} THEN "proper" ELSE "direct")
             /\ UNCHANGED <<listed, problems, second, found, exact, misled>>
  BY DEF ClassifyEnds
<1>2. CASE "unknown" \in {lower, upper}
  BY <1>1, <1>2, IntegralGivesUp DEF ClassifyEnds
<1>3. CASE "unknown" \notin {lower, upper}
  <2>1. f.pieces \in Nat /\ f.pieces >= 1 /\ point > f.pieces - 1
    BY IntegrandTypes DEF ClassifyEnds, IInv, Interior
  <2>2. stage' \in {"proper", "direct"} /\ (stage' = "proper" => problems' = {} /\ ends' = {})
    BY <1>1, <1>3 DEF Go
  <2>3. TypeOK'
    <3>1. point' \in 1..f.pieces /\ ends' \subseteq {"lower", "upper"}
      BY <1>1, <1>3, <2>1
    <3>2. \E s \in Stages : Go(s)
      BY <1>1, <1>3, <2>2 DEF Stages, Go
    <3> QED
      BY <1>1, <1>3, <3>1, <3>2, WorkTypes DEF IInv, TypeOK
  <2>4. /\ "lower" \notin ends' => f.left[1] = "finite"
        /\ "upper" \notin ends' => f.right[f.pieces] = "finite"
    BY <1>1, <1>3 DEF Looks
  <2>5. \A j \in 1..Interior : Harmless(j)'
    BY <1>1, <1>3, <2>1 DEF ClassifyEnds, IInv, TypeOK, PointsAreSound, Harmless, Go, Interior
  <2>6. found' = {} /\ ~second' /\ f' = f /\ kind' = kind /\ asked' = asked
    BY <1>1, <1>3 DEF ClassifyEnds, IInv, NothingFoundYet, Go
  <2>7. AnswersAreSound'
    BY <1>1, <1>3, <2>1, <2>2, <2>6 DEF AnswersAreSound, ConvergesUpTo
  <2> QED
    BY <1>1, <1>3, <2>2, <2>3, <2>4, <2>5, <2>6, <2>7 DEF ClassifyEnds, IInv, TypeOK, StageKnowsKind,
         IntegralStages, StepwiseStages, NothingFoundYet, PointsAreSound, Interior,
         ValueMeansConvergence, DivergesByTruncation
<1> QED
  BY <1>2, <1>3

\* Every end is finite: a proper integral has a value wherever it is defined.
LEMMA EvaluateProperIInv ==
  ASSUME IInv, EvaluateProper
  PROVE  IInv'
<1>1. CASE Without("undetermined")
  BY <1>1, IntegralGivesUp DEF EvaluateProper
<1>2. CASE f.defined /\ Go("record") /\ UNCHANGED work
  <2>1. TypeOK'
    BY <1>2 DEF IInv, TypeOK, Go, work, Stages, Interior
  <2>2. f.pieces \in Nat
    BY IntegrandTypes DEF IInv
  <2>3. ASSUME NEW k \in 1..f.pieces PROVE f.left[k] = "finite" /\ f.right[k] = "finite"
    <3>1. f.left[k] = "finite"
      <4>1. CASE k = 1
        BY <4>1 DEF EvaluateProper, IInv, PointsAreSound
      <4>2. CASE k # 1
        <5>1. k - 1 \in 1..Interior /\ (k - 1) + 1 = k
          BY <2>2, <4>2 DEF Interior
        <5> QED
          BY <5>1 DEF EvaluateProper, IInv, PointsAreSound, Harmless
      <4> QED
        BY <4>1, <4>2
    <3>2. f.right[k] = "finite"
      <4>1. CASE k = f.pieces
        BY <4>1 DEF EvaluateProper, IInv, PointsAreSound
      <4>2. CASE k # f.pieces
        <5>1. k \in 1..Interior
          BY <2>2, <4>2 DEF Interior
        <5> QED
          BY <5>1 DEF EvaluateProper, IInv, PointsAreSound, Harmless
      <4> QED
        BY <4>1, <4>2
    <3> QED
      BY <3>1, <3>2
  <2> QED
    BY <1>2, <2>1, <2>3 DEF EvaluateProper, IInv, TypeOK, Go, work, StageKnowsKind, IntegralStages,
         StepwiseStages, NothingFoundYet, PointsAreSound, AnswersAreSound,
         ValueMeansConvergence, DivergesByTruncation
<1> QED
  BY <1>1, <1>2 DEF EvaluateProper, Converges

-----------------------------------------------------------------------------
(***************************************************************************)
(* The components. A component that is answered for makes sound what is     *)
(* known of the pieces up to its end.                                       *)
(***************************************************************************)

\* Between two problems the function has finite limits.
LEMMA InsideComponent ==
  ASSUME IInv, stage \in {"direct", "truncated"}, NEW last, Component(last)
  PROVE  /\ last \in 1..f.pieces /\ point <= last
         /\ \A k \in 1..f.pieces : point <= k /\ k < last => f.right[k] = "finite"
         /\ \A k \in 1..f.pieces : point < k /\ k <= last => f.left[k] = "finite"
<1>1. f.pieces \in Nat /\ point \in 1..f.pieces /\ last \in point..f.pieces
  BY IntegrandTypes DEF IInv, TypeOK, Component
<1>2. ASSUME NEW j \in 1..f.pieces, point <= j, j < last
      PROVE  f.right[j] = "finite" /\ f.left[j + 1] = "finite"
  <2>1. j \in point..(last - 1) /\ j \in 1..Interior
    BY <1>1, <1>2 DEF Interior
  <2> QED
    BY <2>1 DEF Component, IInv, PointsAreSound, Harmless
<1>3. ASSUME NEW k \in 1..f.pieces, point < k, k <= last
      PROVE  f.left[k] = "finite"
  <2>1. k - 1 \in 1..f.pieces /\ point <= k - 1 /\ k - 1 < last /\ (k - 1) + 1 = k
    BY <1>1, <1>3
  <2> QED
    BY <1>2, <2>1
<1> QED
  BY <1>1, <1>2, <1>3

\* One half after the other, or both ends at once: no end of the component diverges.
LEMMA ComponentConverges ==
  ASSUME IInv, stage \in {"direct", "truncated"}, NEW last, Component(last),
         found \subseteq {"exists"}, Converges(Sides(last)), ~(Halved(last) /\ ~second)
  PROVE  ConvergesUpTo(last)
<1>1. f.pieces \in Nat /\ point \in 1..f.pieces /\ last \in 1..f.pieces /\ point <= last
  BY IntegrandTypes, InsideComponent DEF IInv, TypeOK
<1>2. f.left[point] # "divergent" /\ f.right[last] # "divergent"
  <2>1. CASE Halved(last)
    BY <2>1 DEF Sides, Converges, IInv, AnswersAreSound
  <2>2. CASE ~Halved(last)
    BY <2>2 DEF Sides, Converges
  <2> QED
    BY <2>1, <2>2
<1>3. ConvergesUpTo(point - 1)
  BY DEF IInv, AnswersAreSound
<1> SUFFICES ASSUME NEW k \in 1..f.pieces, k <= last
             PROVE  f.left[k] # "divergent" /\ f.right[k] # "divergent"
  BY DEF ConvergesUpTo
<1>4. CASE k < point
  BY <1>1, <1>3, <1>4 DEF ConvergesUpTo
<1>5. CASE point <= k
  <2>1. f.left[k] # "divergent"
    BY <1>1, <1>2, <1>5, InsideComponent
  <2>2. f.right[k] # "divergent"
    BY <1>1, <1>2, <1>5, InsideComponent
  <2> QED
    BY <2>1, <2>2
<1> QED
  BY <1>1, <1>4, <1>5

\* A part that diverges has an end that does.
LEMMA PartDiverges ==
  ASSUME IInv, stage \in {"direct", "truncated"}, NEW last, Component(last),
         f.defined, ~Converges(Sides(last))
  PROVE  \E k \in 1..f.pieces : "divergent" \in {f.left[k], f.right[k]}
<1>1. point \in 1..f.pieces /\ last \in 1..f.pieces
  BY InsideComponent DEF IInv, TypeOK
<1>2. "divergent" \in Sides(last)
  BY DEF Converges
<1>3. Sides(last) \subseteq {f.left[point], f.right[last]}
  BY DEF Sides
<1> QED
  BY <1>1, <1>2, <1>3

\* An honest answer for a part keeps the invariant.
LEMMA FoundIInv ==
  ASSUME IInv, stage \in {"direct", "truncated"}, NEW last, Component(last),
         NEW s \in {"exists", "diverges", "undetermined"}, Found(s, last),
         s = "exists" => Converges(Sides(last)),
         misled' \in BOOLEAN, misled => misled',
         s = "diverges" => misled' \/ (f.defined /\ ~Converges(Sides(last)))
  PROVE  IInv'
<1>1. f.pieces \in Nat /\ point \in 1..f.pieces /\ last \in 1..f.pieces /\ point <= last
  BY IntegrandTypes, InsideComponent DEF IInv, TypeOK
<1>2. found' = found \cup {s} /\ UNCHANGED <<kind, f, asked, problems, ends, status, listed, exact>>
  BY DEF Found, Go
<1>3. /\ stage' \in {"direct", "combine"}
      /\ stage' = "direct" =>
           \/ Halved(last) /\ ~second /\ second' /\ point' = point
           \/ ~(Halved(last) /\ ~second) /\ ~second' /\ last < f.pieces /\ point' = last + 1
      /\ stage' = "combine" => ~(Halved(last) /\ ~second) /\ last = f.pieces /\ ~second' /\ point' = point
      /\ second' \in BOOLEAN
  <2>1. CASE Halved(last) /\ ~second
    BY <2>1 DEF Found, Go
  <2>2. CASE ~(Halved(last) /\ ~second) /\ last < f.pieces
    BY <2>2 DEF Found, Go
  <2>3. CASE ~(Halved(last) /\ ~second) /\ last = f.pieces
    BY <1>1, <2>3 DEF Found, Go
  <2> QED
    BY <1>1, <2>1, <2>2, <2>3
<1>4. point' \in 1..f.pieces
  BY <1>1, <1>3
<1>5. TypeOK'
  <2>1. Go(stage') /\ stage' \in Stages
    BY <1>3 DEF Found, Go, Stages
  <2>2. found' \subseteq {"exists", "diverges", "undetermined"}
    BY <1>2 DEF IInv, TypeOK
  <2>3. TypeOK
    BY DEF IInv
  <2>4. /\ listed' \in BOOLEAN /\ exact' \in BOOLEAN /\ problems' \subseteq 1..Interior
        /\ ends' \subseteq {"lower", "upper"}
    BY <1>2, <2>3 DEF TypeOK
  <2>5. stage' \in Stages /\ kind' = kind /\ f' = f /\ status' = status /\ UNCHANGED <<asked, ans, history>>
    BY <2>1 DEF Go
  <2> QED
    BY <1>3, <1>4, <2>2, <2>3, <2>4, <2>5 DEF TypeOK, Interior
<1>6. "exists" \in found' => f'.defined
  BY <1>2 DEF IInv, AnswersAreSound, Converges
<1>7. "diverges" \in found' =>
        misled' \/ \E k \in 1..f'.pieces : "divergent" \in {f'.left[k], f'.right[k]}
  BY <1>2, PartDiverges DEF IInv, AnswersAreSound
<1>8. stage' = "direct" /\ found' \subseteq {"exists"} =>
        ConvergesUpTo(point - 1)' /\ (second' => f'.left[point'] # "divergent")
  <2> SUFFICES ASSUME stage' = "direct", found' \subseteq {"exists"}
               PROVE  ConvergesUpTo(point - 1)' /\ (second' => f'.left[point'] # "divergent")
    OBVIOUS
  <2>1. found \subseteq {"exists"} /\ Converges(Sides(last))
    BY <1>2
  <2>2. CASE Halved(last) /\ ~second /\ second' /\ point' = point
    BY <1>2, <2>1, <2>2 DEF IInv, AnswersAreSound, ConvergesUpTo, Sides, Converges
  <2>3. CASE ~(Halved(last) /\ ~second) /\ ~second' /\ point' = last + 1
    <3>1. point' - 1 = last
      BY <1>1, <2>3
    <3> QED
      BY <1>2, <2>1, <2>3, <3>1, ComponentConverges DEF ConvergesUpTo
  <2> QED
    BY <1>3, <2>2, <2>3
<1>9. stage' = "combine" /\ found' \subseteq {"exists"} => ConvergesUpTo(f.pieces)'
  <2> SUFFICES ASSUME stage' = "combine", found' \subseteq {"exists"}
               PROVE  ConvergesUpTo(f.pieces)'
    OBVIOUS
  <2>1. found \subseteq {"exists"} /\ Converges(Sides(last))
    BY <1>2
  <2> QED
    BY <1>2, <1>3, <2>1, ComponentConverges DEF ConvergesUpTo
<1>10. AnswersAreSound'
  BY <1>2, <1>3, <1>6, <1>7, <1>8, <1>9 DEF AnswersAreSound
<1>11. PointsAreSound' /\ NothingFoundYet' /\ StageKnowsKind'
  BY <1>2, <1>3 DEF IInv, PointsAreSound, Harmless, Interior, NothingFoundYet, StageKnowsKind,
                    IntegralStages, StepwiseStages
<1> QED
  BY <1>3, <1>5, <1>10, <1>11 DEF IInv, ValueMeansConvergence, DivergesByTruncation

LEMMA AskDirectlyIInv ==
  ASSUME IInv, NEW last, AskDirectly(last)
  PROVE  IInv'
<1>0. misled \in BOOLEAN
  BY DEF IInv, TypeOK
<1>1. CASE Converges(Sides(last)) /\ Found("exists", last) /\ UNCHANGED misled
  BY <1>0, <1>1, FoundIInv DEF AskDirectly
<1>2. CASE Go("truncated") /\ UNCHANGED work
  <2>1. TypeOK'
    BY <1>2, WorkTypes DEF IInv, TypeOK, work, Stages
  <2> QED
    BY <1>2, <2>1 DEF AskDirectly, IInv, Go, work, StageKnowsKind, IntegralStages, StepwiseStages,
         NothingFoundYet, PointsAreSound, Harmless, Interior, AnswersAreSound, ConvergesUpTo,
         ValueMeansConvergence, DivergesByTruncation
<1> QED
  BY <1>1, <1>2 DEF AskDirectly

LEMMA AskTruncatedIInv ==
  ASSUME IInv, NEW last, AskTruncated(last)
  PROVE  IInv'
<1>1. stage = "truncated" /\ Component(last) /\ misled \in BOOLEAN
  BY DEF AskTruncated, IInv, TypeOK
<1>2. CASE UNCHANGED misled /\ Converges(Sides(last)) /\ Found("exists", last)
  BY <1>1, <1>2, FoundIInv
<1>3. CASE UNCHANGED misled /\ f.defined /\ ~Converges(Sides(last)) /\ Found("diverges", last)
  BY <1>1, <1>3, FoundIInv
<1>4. CASE UNCHANGED misled /\ Found("undetermined", last)
  BY <1>1, <1>4, FoundIInv
<1>5. CASE misled' = TRUE /\ Found("diverges", last)
  BY <1>1, <1>5, FoundIInv
<1> QED
  BY <1>2, <1>3, <1>4, <1>5 DEF AskTruncated

\* The verdict is what the components were found to be.
LEMMA CombineIInv ==
  ASSUME IInv, Combine
  PROVE  IInv'
<1>1. CASE Verdict(found) = "exists"
  <2>1. Go("record") /\ UNCHANGED work
    BY <1>1 DEF Combine
  <2>2. found \subseteq {"exists"} /\ found # {}
    BY <1>1 DEF Combine, Verdict, IInv, TypeOK, AnswersAreSound
  <2>3. f.defined /\ \A k \in 1..f.pieces : "divergent" \notin {f.left[k], f.right[k]}
    <3>1. f.pieces \in Nat /\ "exists" \in found /\ ConvergesUpTo(f.pieces)
      BY <2>2, IntegrandTypes DEF Combine, IInv, AnswersAreSound
    <3> QED
      BY <3>1 DEF IInv, AnswersAreSound, ConvergesUpTo
  <2>4. TypeOK'
    BY <2>1, WorkTypes DEF IInv, TypeOK, work, Stages
  <2> QED
    BY <2>1, <2>3, <2>4 DEF Combine, IInv, Go, work, StageKnowsKind, IntegralStages, StepwiseStages,
         NothingFoundYet, PointsAreSound, AnswersAreSound,
         ValueMeansConvergence, DivergesByTruncation
<1>2. CASE Verdict(found) = "undetermined"
  BY <1>2, IntegralGivesUp DEF Combine
<1>3. CASE Verdict(found) = "diverges"
  <2>1. Without("diverges") /\ "diverges" \in found
    BY <1>3 DEF Combine, Verdict
  <2>2. misled \/ \E k \in 1..f.pieces : "divergent" \in {f.left[k], f.right[k]}
    BY <2>1 DEF IInv, AnswersAreSound
  <2>3. TypeOK'
    BY <2>1 DEF IInv, TypeOK, Without, work, Interior, Stages
  <2> QED
    BY <2>1, <2>2, <2>3 DEF IInv, Without, work, StageKnowsKind, IntegralStages, StepwiseStages,
         NothingFoundYet, PointsAreSound, AnswersAreSound,
         ValueMeansConvergence, DivergesByTruncation
<1> QED
  BY <1>1, <1>2, <1>3 DEF Verdict

-----------------------------------------------------------------------------
(***************************************************************************)
(* The other operations.                                                   *)
(***************************************************************************)

OtherStages == Stages \ (IntegralStages \cup {"idle", "record"})

\* The next question of another operation, or its result.
LEMMA OtherMovesOn ==
  ASSUME IInv, stage \in OtherStages, NEW s \in OtherStages \cup {"record"}, Go(s),
         exact' \in BOOLEAN, UNCHANGED <<listed, point, problems, ends, second, found, misled>>,
         s \in StepwiseStages => stage \in StepwiseStages
  PROVE  IInv'
<1>1. kind # "integral" /\ (stage \in StepwiseStages => kind \in Stepwise)
  BY DEF IInv, StageKnowsKind, OtherStages
<1>2. TypeOK'
  <2>1. TypeOK /\ s \in Stages
    BY DEF IInv, OtherStages, Stages
  <2> QED
    BY <2>1, WorkTypes DEF TypeOK
<1> QED
  BY <1>1, <1>2, OtherOperations DEF Go, OtherStages, IntegralStages, StepwiseStages

LEMMA OtherEnds ==
  ASSUME IInv, stage \in OtherStages,
         NEW s \in {"exists", "none", "undetermined", "error"}, Without(s)
  PROVE  IInv'
<1>1. kind # "integral"
  BY DEF IInv, StageKnowsKind, OtherStages
<1>2. TypeOK'
  BY DEF IInv, TypeOK, Without, work, Interior, Stages
<1> QED
  BY <1>1, <1>2, OtherOperations DEF Without, work, OtherStages, IntegralStages, StepwiseStages

\* Ans and then the history, of an operation that is not an integral.
LEMMA AssignIInv ==
  ASSUME IInv, Assign
  PROVE  IInv'
<1>1. kind # "integral" /\ asked > 0
  BY DEF Assign, IInv, StageKnowsKind, IntegralStages
<1>2. TypeOK'
  <2>1. TypeOK
    BY DEF IInv
  <2>2. asked \in 0..asked
    BY <1>1 DEF IInv, TypeOK
  <2>3. history' \in Seq(1..asked) /\ Len(history') <= HistoryLimit
    BY <1>1, <2>1, RecordedTypes DEF Assign, TypeOK
  <2>4. status' \in {"error", "exists"} /\ stage' = "idle" /\ ans' = asked
        /\ UNCHANGED <<kind, f, listed, point, problems, ends, second, found, exact, misled, asked>>
    BY DEF Assign, work
  <2> QED
    BY <2>1, <2>2, <2>3, <2>4 DEF TypeOK, Stages, Interior
<1> QED
  BY <1>1, <1>2, OtherOperations DEF Assign, work, IntegralStages, StepwiseStages

\* An integral that reaches its record converges, and any other may.
LEMMA CommitIInv ==
  ASSUME IInv, Commit
  PROVE  IInv'
  BY RecordIInv DEF Commit, IntegralStages

LEMMA OtherActionsIInv ==
  ASSUME IInv,
         \/ AskNested \/ AskSegments \/ AskComplexNested \/ Quadrature \/ CauchyRiemann \/ SamplePaths
         \/ SolveOde \/ Sum \/ FindRoot \/ VerifyRoot \/ DifferentiateAtPoint \/ AskSymbolic
  PROVE  IInv'
<1> USE DEF OtherStages, Stages, IntegralStages, StepwiseStages
<1>0. exact \in BOOLEAN
  BY DEF IInv, TypeOK
<1>1. CASE AskNested
  BY <1>0, <1>1, OtherMovesOn DEF AskNested, work
<1>2. CASE AskSegments
  BY <1>2, OtherMovesOn, OtherEnds DEF AskSegments
<1>3. CASE AskComplexNested
  BY <1>3, OtherMovesOn DEF AskComplexNested
<1>4. CASE Quadrature
  BY <1>0, <1>4, OtherMovesOn, OtherEnds DEF Quadrature, work
<1>5. CASE CauchyRiemann
  <2>1. kind # "integral" /\ stage \notin {"idle"} \cup IntegralStages /\ stage \in OtherStages
    BY <1>5 DEF CauchyRiemann, IInv, StageKnowsKind
  <2> QED
    BY <1>5, <2>1, RecordIInv, OtherEnds DEF CauchyRiemann
<1>6. CASE SamplePaths
  BY <1>6, OtherEnds DEF SamplePaths
<1>7. CASE SolveOde
  BY <1>0, <1>7, OtherMovesOn, OtherEnds DEF SolveOde, work
<1>8. CASE Sum
  BY <1>0, <1>8, OtherMovesOn, OtherEnds DEF Sum, work
<1>9. CASE FindRoot
  BY <1>0, <1>9, OtherMovesOn, OtherEnds DEF FindRoot, work
<1>10. CASE VerifyRoot
  BY <1>0, <1>10, OtherMovesOn, OtherEnds DEF VerifyRoot, work
<1>11. CASE DifferentiateAtPoint
  BY <1>0, <1>11, OtherMovesOn, OtherEnds DEF DifferentiateAtPoint, work
<1>12. CASE AskSymbolic
  BY <1>0, <1>12, OtherMovesOn, OtherEnds DEF AskSymbolic, work
<1> QED
  BY <1>1, <1>2, <1>3, <1>4, <1>5, <1>6, <1>7, <1>8, <1>9, <1>10, <1>11, <1>12

\* Every step of the engine keeps the invariant.
LEMMA NextIInv == IInv /\ [Next]_vars => IInv'
<1> SUFFICES ASSUME IInv, [Next]_vars PROVE IInv'
  OBVIOUS
<1>1. CASE \E k \in Committed \cup Stepwise : Ask(k)
  BY <1>1, AskIInv
<1>2. CASE AskDomain
  BY <1>2, AskDomainIInv
<1>3. CASE AskSingularities
  BY <1>3, AskSingularitiesIInv
<1>4. CASE ClassifyPoint
  BY <1>4, ClassifyPointIInv
<1>5. CASE ClassifyEnds
  BY <1>5, ClassifyEndsIInv
<1>6. CASE EvaluateProper
  BY <1>6, EvaluateProperIInv
<1>7. CASE \E last \in 1..f.pieces : AskDirectly(last)
  BY <1>7, AskDirectlyIInv
<1>8. CASE \E last \in 1..f.pieces : AskTruncated(last)
  BY <1>8, AskTruncatedIInv
<1>9. CASE Combine
  BY <1>9, CombineIInv
<1>10. CASE \/ AskNested \/ AskSegments \/ AskComplexNested \/ Quadrature \/ CauchyRiemann \/ SamplePaths
            \/ SolveOde \/ Sum \/ FindRoot \/ VerifyRoot \/ DifferentiateAtPoint \/ AskSymbolic
  BY <1>10, OtherActionsIInv
<1>11. CASE Assign
  BY <1>11, AssignIInv
<1>12. CASE Commit
  BY <1>12, CommitIInv
<1>13. CASE UNCHANGED vars
  BY <1>13 DEF vars, work, IInv, TypeOK, StageKnowsKind, NothingFoundYet, PointsAreSound, Harmless,
               Interior, AnswersAreSound, ConvergesUpTo, ValueMeansConvergence, DivergesByTruncation
<1> QED
  BY <1>1, <1>2, <1>3, <1>4, <1>5, <1>6, <1>7, <1>8, <1>9, <1>10, <1>11, <1>12, <1>13 DEF Next

LEMMA InvariantHolds == Spec => []IInv
  BY InitIInv, NextIInv, PTL DEF Spec

-----------------------------------------------------------------------------
(***************************************************************************)
(* The theorems.                                                           *)
(***************************************************************************)

\* Pieces, components and the history keep inside their bounds in every operation
\* (calculus.py, and _commit_outcome of calculator_engine.py).
THEOREM TypeCorrect == Spec => []TypeOK
<1>1. IInv => TypeOK
  BY DEF IInv
<1> QED
  BY <1>1, InvariantHolds, PTL

\* definite_integral_result gives no integral a value that diverges at the end of
\* some piece, whichever questions SymPy leaves open and whatever quadrature says.
THEOREM ValuesConverge == Spec => []ValueMeansConvergence
<1>1. IInv => ValueMeansConvergence
  BY DEF IInv
<1> QED
  BY <1>1, InvariantHolds, PTL

\* definite_integral_result calls no integral divergent on the ground of an infinite
\* answer about a whole part, of a failed quadrature or of an open question: one of
\* its ends makes it so, or SymPy called a truncated part infinite.
THEOREM DivergenceRestsOnTruncation == Spec => []DivergesByTruncation
<1>1. IInv => DivergesByTruncation
  BY DEF IInv
<1> QED
  BY <1>1, InvariantHolds, PTL

\* An operation that commits an outcome changes Ans only with its record.
THEOREM AnsFollowsItsRecord == Spec => AnsHasItsRecord
<1>1. IInv /\ [Next]_vars =>
        [ans' # ans /\ kind \in Committed => history' # <<>> /\ history'[Len(history')] = ans']_vars
  <2> SUFFICES ASSUME IInv, Next, ans' # ans, kind \in Committed
               PROVE  history' # <<>> /\ history'[Len(history')] = ans'
    BY DEF vars
  <2>1. ASSUME NEW answer \in BOOLEAN, Record(answer), stage # "idle"
        PROVE  history' # <<>> /\ history'[Len(history')] = ans'
    <3>1. TypeOK /\ asked > 0
      BY <2>1 DEF IInv, StageKnowsKind
    <3>2. history' = Recorded(history) /\ ans' = asked
      BY <2>1 DEF Record
    <3> QED
      BY <3>1, <3>2, RecordedTypes
  <2>2. CASE Commit
    BY <2>1, <2>2 DEF Commit
  <2>3. CASE CauchyRiemann
    BY <2>1, <2>3 DEF CauchyRiemann, Without
  <2>4. CASE Assign
    BY <2>4 DEF Assign, IInv, StageKnowsKind, StepwiseStages, Committed, Stepwise
  <2>5. CASE AskDomain \/ AskSingularities \/ ClassifyPoint \/ ClassifyEnds \/ EvaluateProper \/ Combine
    BY <2>5 DEF AskDomain, AskSingularities, ClassifyPoint, ClassifyEnds, EvaluateProper, Combine, Without, Go
  <2>6. CASE \E last \in 1..f.pieces : AskDirectly(last) \/ AskTruncated(last)
    BY <2>6 DEF AskDirectly, AskTruncated, Found, Go
  <2>7. CASE \E k \in Committed \cup Stepwise : Ask(k)
    BY <2>7 DEF Ask
  <2>8. CASE \/ AskNested \/ AskSegments \/ AskComplexNested \/ Quadrature \/ SamplePaths
             \/ SolveOde \/ Sum \/ FindRoot \/ VerifyRoot \/ DifferentiateAtPoint \/ AskSymbolic
    BY <2>8 DEF AskNested, AskSegments, AskComplexNested, Quadrature, SamplePaths, SolveOde, Sum,
                FindRoot, VerifyRoot, DifferentiateAtPoint, AskSymbolic, Without, Go
  <2> QED
    BY <2>2, <2>3, <2>4, <2>5, <2>6, <2>7, <2>8 DEF Next
<1> QED
  BY <1>1, InvariantHolds, PTL DEF Spec, AnsHasItsRecord

=============================================================================
