------------------------------ MODULE Calculus ------------------------------
(***************************************************************************)
(* The calculus operations of the engine (calculus.py and the root finder,    *)
(* sums and derivatives of calculator_engine.py): how an answer is put         *)
(* together from questions to a computer algebra system that may fail, leave   *)
(* a question open or answer it misleadingly, and when Ans and the history     *)
(* are written.                                                            *)
(*                                                                         *)
(* Of a function only what the decisions ask about is kept. The interior        *)
(* points that its domain leaves out cut the interval into pieces, and each     *)
(* end of a piece has a nature: the function has a finite one-sided limit       *)
(* there, or an integrable singularity, or one that makes the integral          *)
(* diverge. Assumed of SymPy (CAS): a limit, a finite integral, and the set of  *)
(* singularities are right when they are given at all. Not assumed: that an     *)
(* integral reported as infinite is, of a whole part or of a truncated one,     *)
(* that quadrature notices a pole, or that any question is answered.           *)
(***************************************************************************)
EXTENDS Integers, Sequences

CONSTANTS
  MaxInterior,   \* bound on the interior points a function's domain leaves out
  MaxRequests,   \* bound on the operations asked for
  HistoryLimit   \* 10

ASSUME CalculusAssumption ==
  /\ MaxInterior \in Nat
  /\ MaxRequests \in Nat
  /\ HistoryLimit \in Nat \ {0}

Natures == {"finite", "convergent", "divergent"}

\* Integrands with their bounds, lower below upper.
Integrand(n) ==
  {f \in [pieces : {n}, defined : BOOLEAN, left : [1..n -> Natures], right : [1..n -> Natures],
          lowerInfinite : BOOLEAN, upperInfinite : BOOLEAN] :
     /\ f.lowerInfinite => f.left[1] # "finite"
     /\ f.upperInfinite => f.right[n] # "finite"}
Integrands == UNION {Integrand(n) : n \in 1..(MaxInterior + 1)}

\* The operations that describe their effect and hand it to _commit_outcome, and
\* those that write Ans, format the result, and then write the history.
Committed == {"integral", "nested", "complex_integral", "complex_double", "complex_derivative",
              "complex_limit", "ode", "solve", "sum"}
Stepwise == {"derivative", "symbolic"}

Stages ==
  {"idle", "domain", "singularities", "interior", "proper", "direct", "truncated", "combine",
   "record", "nested", "segments", "complex_nested", "quadrature", "cauchy_riemann", "paths",
   "dsolve", "summation", "nsolve", "solve", "verify", "at_point", "differences", "cas", "assign"}

VARIABLES
  kind,      \* the operation asked for
  f,         \* the integrand that integrals are asked for
  stage,     \* the next question, "idle" between two operations
  listed,    \* continuous_domain named the interior points it leaves out
  point,     \* the interior point, then the first piece of the component, in work
  problems,  \* interior points that must split the integral
  ends,      \* which endpoints are problematic: a subset of {"lower", "upper"}
  second,    \* the component is split at a point in its middle: its second half
  found,     \* the statuses of the components so far
  exact,     \* a closed form is at hand
  misled,    \* auxiliary: a truncated part was reported infinite
  status,    \* how the last operation ended
  asked,     \* operations so far
  ans,       \* the operation that Ans comes from
  history    \* the operations that were recorded

work == <<listed, point, problems, ends, second, found, exact, misled>>
vars == <<kind, f, stage, work, status, asked, ans, history>>

Converges(sides) == f.defined /\ "divergent" \notin sides

-----------------------------------------------------------------------------
(***************************************************************************)
(* The end of an operation.                                                *)
(***************************************************************************)

\* An error, or a status without a value: nothing is written.
Without(s) ==
  /\ stage' = "idle"
  /\ status' = s
  /\ UNCHANGED <<kind, f, work, asked, ans, history>>

\* Mutant of Recorded: the oldest entry is never dropped.
RecordedWithoutLimit(h) == Append(h, asked)

Recorded(h) == IF Len(h) = HistoryLimit THEN Append(Tail(h), asked) ELSE Append(h, asked)

\* Mutant of Record: Ans is written before the result is formatted.
RecordStepwise(answer) ==
  /\ stage' = "idle"
  /\ UNCHANGED <<kind, f, work, asked>>
  /\ ans' = IF answer THEN asked ELSE ans
  /\ \/ status' = "error" /\ history' = history
     \/ status' = "exists" /\ history' = Recorded(history)

\* format_result and _commit_outcome: the result may exceed what can be displayed.
Record(answer) ==
  /\ stage' = "idle"
  /\ UNCHANGED <<kind, f, work, asked>>
  /\ \/ status' = "error" /\ UNCHANGED <<ans, history>>
     \/ /\ status' = IF answer THEN "exists" ELSE "none"
        /\ history' = Recorded(history)
        /\ ans' = IF answer THEN asked ELSE ans

Go(s) == stage' = s /\ UNCHANGED <<kind, f, status, asked, ans, history>>

-----------------------------------------------------------------------------
(***************************************************************************)
(* A real integral (definite_integral_result): first what the domain is.      *)
(***************************************************************************)

Interior == f.pieces - 1

\* _boundary_is_problematic, for a finite endpoint or one side of a point.
Looks(nature) == {"unknown", IF nature = "finite" THEN "fine" ELSE "problem"}

AskDomain ==
  /\ stage = "domain"
  /\ \/ Without("undetermined")
     \/ ~f.defined /\ Without("undefined")
     \/ /\ listed' \in IF f.defined THEN BOOLEAN ELSE {FALSE}
        /\ Go("singularities")
        /\ UNCHANGED <<point, problems, ends, second, found, exact, misled>>

\* Mutant of AskSingularities: a question that fails counts as an empty answer.
AskSingularitiesOrNone ==
  /\ stage = "singularities"
  /\ \/ Go("proper") /\ UNCHANGED work
     \/ Go("interior") /\ UNCHANGED work

\* Without a list of points from the domain, a failure leaves nothing to go on.
AskSingularities ==
  /\ stage = "singularities"
  /\ \/ Without("undetermined")
     \/ listed /\ Interior > 0 /\ Go("interior") /\ UNCHANGED work
     \/ Go("interior") /\ UNCHANGED work

\* The left and the right of one interior point.
ClassifyPoint ==
  /\ stage = "interior"
  /\ point <= Interior
  /\ \E before \in Looks(f.right[point]), after \in Looks(f.left[point + 1]) :
       IF "unknown" \in {before, after} THEN Without("undetermined")
       ELSE /\ problems' = IF "problem" \in {before, after} THEN problems \cup {point} ELSE problems
            /\ point' = point + 1
            /\ Go("interior")
            /\ UNCHANGED <<listed, ends, second, found, exact, misled>>

\* The endpoints, and with them whether the integral is proper.
ClassifyEnds ==
  /\ stage = "interior"
  /\ point > Interior
  /\ \E lower \in IF f.lowerInfinite THEN {"problem"} ELSE Looks(f.left[1]),
        upper \in IF f.upperInfinite THEN {"problem"} ELSE Looks(f.right[f.pieces]) :
       IF "unknown" \in {lower, upper} THEN Without("undetermined")
       ELSE /\ ends' = {e \in {"lower", "upper"} : (IF e = "lower" THEN lower ELSE upper) = "problem"}
            /\ point' = 1
            /\ Go(IF problems = {} /\ ends' = {} THEN "proper" ELSE "direct")
            /\ UNCHANGED <<listed, problems, second, found, exact, misled>>

\* _evaluate_proper_integral: a closed form, else quadrature.
EvaluateProper ==
  /\ stage = "proper"
  /\ \/ Converges({f.left[k] : k \in 1..f.pieces} \cup {f.right[k] : k \in 1..f.pieces})
        /\ Go("record") /\ UNCHANGED work
     \/ f.defined /\ Go("record") /\ UNCHANGED work
     \/ Without("undetermined")

-----------------------------------------------------------------------------
(***************************************************************************)
(* Then the components between two problematic points, each by itself.        *)
(***************************************************************************)

\* The component that starts with piece point reaches to the next problem.
Component(last) ==
  /\ last \in point..f.pieces
  /\ last \in problems \cup {f.pieces}
  /\ \A j \in point..(last - 1) : j \notin problems

LowerProblem == point > 1 \/ "lower" \in ends
UpperProblem(last) == last < f.pieces \/ "upper" \in ends
Halved(last) == LowerProblem /\ UpperProblem(last)

\* The ends that the part in work runs between; the middle is an ordinary point.
Sides(last) ==
  IF Halved(last) THEN {IF second THEN f.right[last] ELSE f.left[point]}
  ELSE {f.left[point], f.right[last]}

\* _certified_improper_numeric_fallback: only an infinite end is a problem.
OnlyTail(last) ==
  \/ f.upperInfinite /\ last = f.pieces /\ (~LowerProblem \/ (Halved(last) /\ second))
  \/ f.lowerInfinite /\ point = 1 /\ (~UpperProblem(last) \/ (Halved(last) /\ ~second))

Verdict(statuses) ==
  IF "diverges" \in statuses THEN "diverges"
  ELSE IF "undetermined" \in statuses THEN "undetermined" ELSE "exists"

\* The next half, the next component, or the verdict.
Found(s, last) ==
  /\ found' = found \cup {s}
  /\ IF Halved(last) /\ ~second
     THEN second' = TRUE /\ point' = point /\ Go("direct")
     ELSE /\ second' = FALSE
          /\ IF last < f.pieces THEN point' = last + 1 /\ Go("direct")
             ELSE point' = point /\ Go("combine")
  /\ UNCHANGED <<listed, problems, ends, exact>>

\* Mutant of AskDirectly: an integral reported as infinite diverges.
BelieveInfinite(last) ==
  /\ stage = "direct"
  /\ Component(last)
  /\ \/ Converges(Sides(last)) /\ Found("exists", last) /\ UNCHANGED misled
     \/ Found("diverges", last) /\ UNCHANGED misled
     \/ Go("truncated") /\ UNCHANGED work

\* The definite integral of a part: only a finite one is believed. Failing that, a
\* tail that is proved to converge is integrated numerically.
AskDirectly(last) ==
  /\ stage = "direct"
  /\ Component(last)
  /\ \/ Converges(Sides(last)) /\ Found("exists", last) /\ UNCHANGED misled
     \/ OnlyTail(last) /\ Converges(Sides(last)) /\ Found("exists", last) /\ UNCHANGED misled
     \/ Go("truncated") /\ UNCHANGED work

\* The integral up to a moving end, and its limit as that end approaches the problem.
\* A finite truncated integral has the right limit, if it has one. The same SymPy
\* answers for the truncated integral as for the whole part, and only an unresolved
\* answer is refused here: an infinite one has an infinite limit, whatever the part.
AskTruncated(last) ==
  /\ stage = "truncated"
  /\ Component(last)
  /\ \/ /\ UNCHANGED misled
        /\ \/ Converges(Sides(last)) /\ Found("exists", last)
           \/ f.defined /\ ~Converges(Sides(last)) /\ Found("diverges", last)
           \/ Found("undetermined", last)
     \/ misled' = TRUE /\ Found("diverges", last)

Combine ==
  /\ stage = "combine"
  /\ IF Verdict(found) = "exists" THEN Go("record") /\ UNCHANGED work
     ELSE Without(Verdict(found))

-----------------------------------------------------------------------------
(***************************************************************************)
(* The other operations.                                                   *)
(***************************************************************************)

FirstQuestion ==
  [integral |-> "domain", nested |-> "nested", complex_integral |-> "segments",
   complex_double |-> "complex_nested", complex_derivative |-> "cauchy_riemann",
   complex_limit |-> "paths", ode |-> "dsolve", solve |-> "nsolve", sum |-> "summation",
   derivative |-> "at_point", symbolic |-> "cas"]

\* An operation whose input was parsed; what it refuses writes nothing either.
Ask(k) ==
  /\ stage = "idle"
  /\ asked < MaxRequests
  /\ asked' = asked + 1
  /\ kind' = k
  /\ stage' = FirstQuestion[k]
  /\ listed' = FALSE /\ point' = 1 /\ problems' = {} /\ ends' = {} /\ second' = FALSE
  /\ found' = {} /\ exact' = FALSE /\ misled' = FALSE
  /\ status' = "none"
  /\ UNCHANGED <<f, ans, history>>

\* double_integral, triple_integral: one integral inside the other, exactly if every
\* one of them has a closed form, else all of them by quadrature.
AskNested ==
  /\ stage = "nested"
  /\ \/ Go("record") /\ UNCHANGED work
     \/ Go("quadrature") /\ UNCHANGED work

\* complex_definite_integral, segment by segment: a segment that is no number ends
\* it, one without a closed form leaves all to quadrature.
AskSegments ==
  /\ stage = "segments"
  /\ \/ Without("error")
     \/ /\ exact' \in BOOLEAN
        /\ Go("quadrature")
        /\ UNCHANGED <<listed, point, problems, ends, second, found, misled>>

\* complex_double_integral: a closed form or none, and quadrature in any case.
AskComplexNested ==
  /\ stage = "complex_nested"
  /\ exact' \in BOOLEAN
  /\ Go("quadrature")
  /\ UNCHANGED <<listed, point, problems, ends, second, found, misled>>

\* Both forms of a complex integral are compared; without quadrature the closed
\* form stands, unless there are interior singularities.
Quadrature ==
  /\ stage = "quadrature"
  /\ \/ Go("record") /\ UNCHANGED work
     \/ Without("error")
     \/ exact /\ Go("record") /\ UNCHANGED work

\* complex_derivative_result records what is not differentiable as well.
CauchyRiemann ==
  /\ stage = "cauchy_riemann"
  /\ \/ Record(TRUE) \/ Record(FALSE) \/ Without("error")

\* complex_limit_result samples three paths, and records nothing whatever it finds.
SamplePaths ==
  /\ stage = "paths"
  /\ \E s \in {"exists", "none", "undetermined", "error"} : Without(s)

\* solve_ode: one solution without an integral in it.
SolveOde ==
  /\ stage = "dsolve"
  /\ \/ Go("record") /\ UNCHANGED work
     \/ Without("error")

\* summation
Sum ==
  /\ stage = "summation"
  /\ \/ Go("record") /\ UNCHANGED work
     \/ Without("error")

\* solve: a numeric root, else the nearest algebraic one, and either is verified.
FindRoot ==
  /\ stage \in {"nsolve", "solve"}
  /\ \/ Go("verify") /\ UNCHANGED work
     \/ stage = "nsolve" /\ Go("solve") /\ UNCHANGED work
     \/ Without("error")

VerifyRoot ==
  /\ stage = "verify"
  /\ \/ Go("record") /\ UNCHANGED work
     \/ Without("error")

\* derivative: exactly, else by one-sided differences that must agree.
DifferentiateAtPoint ==
  /\ stage \in {"at_point", "differences"}
  /\ \/ Go("assign") /\ UNCHANGED work
     \/ stage = "at_point" /\ Go("differences") /\ UNCHANGED work
     \/ Without("error")

\* symbolic_integral, symbolic_derivative, complex_eval
AskSymbolic ==
  /\ stage = "cas"
  /\ \/ Go("assign") /\ UNCHANGED work
     \/ Without("error")

\* Ans first: when the result cannot be formatted, the history does not follow.
Assign ==
  /\ stage = "assign"
  /\ stage' = "idle"
  /\ ans' = asked
  /\ \/ status' = "error" /\ history' = history
     \/ status' = "exists" /\ history' = Recorded(history)
  /\ UNCHANGED <<kind, f, work, asked>>

Commit ==
  /\ stage = "record"
  /\ Record(TRUE)

Init ==
  /\ kind = "sum" /\ f \in Integrands /\ stage = "idle"
  /\ listed = FALSE /\ point = 1 /\ problems = {} /\ ends = {} /\ second = FALSE
  /\ found = {} /\ exact = FALSE /\ misled = FALSE
  /\ status = "none" /\ asked = 0 /\ ans = 0 /\ history = <<>>

Next ==
  \/ \E k \in Committed \cup Stepwise : Ask(k)
  \/ AskDomain \/ AskSingularities \/ ClassifyPoint \/ ClassifyEnds \/ EvaluateProper
  \/ \E last \in 1..f.pieces : AskDirectly(last)
  \/ \E last \in 1..f.pieces : AskTruncated(last)
  \/ Combine
  \/ AskNested \/ AskSegments \/ AskComplexNested \/ Quadrature \/ CauchyRiemann \/ SamplePaths
  \/ SolveOde \/ Sum \/ FindRoot \/ VerifyRoot
  \/ DifferentiateAtPoint \/ AskSymbolic \/ Assign \/ Commit

Spec == Init /\ [][Next]_vars

-----------------------------------------------------------------------------
(***************************************************************************)
(* Properties.                                                             *)
(***************************************************************************)

\* Types, and the bounds they carry: the point in work is one of the pieces, and the
\* history holds no more than its limit, in every operation that writes it.
TypeOK ==
  /\ kind \in Committed \cup Stepwise
  /\ f.pieces \in 1..(MaxInterior + 1) /\ f \in Integrand(f.pieces)
  /\ stage \in Stages
  /\ listed \in BOOLEAN /\ second \in BOOLEAN /\ exact \in BOOLEAN /\ misled \in BOOLEAN
  /\ point \in 1..f.pieces
  /\ problems \subseteq 1..Interior
  /\ ends \subseteq {"lower", "upper"}
  /\ found \subseteq {"exists", "diverges", "undetermined"}
  /\ status \in {"none", "exists", "diverges", "undetermined", "undefined", "error"}
  /\ asked \in 0..MaxRequests /\ ans \in 0..asked
  /\ history \in Seq(1..asked) /\ Len(history) <= HistoryLimit

\* An integral that is given a value converges at every end of every piece: no
\* principal value across a pole, no quadrature over a point that a failed question
\* did not report, no divergence that cancels another.
ValueMeansConvergence ==
  (kind = "integral" /\ (stage = "record" \/ (stage = "idle" /\ status = "exists"))) =>
    /\ f.defined
    /\ \A k \in 1..f.pieces : "divergent" \notin {f.left[k], f.right[k]}

\* "Only the one-sided truncated-limit calculation below is accepted as a divergence
\* proof" (_evaluate_improper_component): an integral is called divergent because one
\* of its ends makes it so, or because a truncated part was reported infinite. An
\* infinite answer about a whole part, a failed certificate, a failed quadrature or
\* an open question never does it, in whichever part and after whatever else.
DivergesByTruncation ==
  (kind = "integral" /\ stage = "idle" /\ status = "diverges") =>
    misled \/ \E k \in 1..f.pieces : "divergent" \in {f.left[k], f.right[k]}

\* "Keeping history and Ans together prevents a partial calculus operation from
\* leaking state" (_calculus_history_outcome): no operation that commits an outcome
\* changes Ans without the record it comes from.
AnsHasItsRecord ==
  [][ans' # ans /\ kind \in Committed => history' # <<>> /\ history'[Len(history')] = ans']_vars
=============================================================================
