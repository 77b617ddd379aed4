--------------------------- MODULE MathTemplates ---------------------------
(***************************************************************************)
(* The structured templates of app.py with template_session.py: integrals,    *)
(* derivatives, differential equations, polynomials and linear systems.      *)
(*                                                                         *)
(* The slots of a template are numbered in template_order. Of a slot's text   *)
(* only whether there is one is kept: what it parses to is the engine's       *)
(* matter, and an error leaves the template as it is.                        *)
(***************************************************************************)
EXTENDS Integers, FiniteSets

NoTemplate == [kind |-> "none"]

Kinds == {"integral", "complex_integral", "multiple_integral", "derivative", "ode",
          "ode_details", "polynomial", "simultaneous"}

Body == 1

\* The length of template_order; size is the number of layers, the degree or
\* the number of unknowns.
SlotCount(kind, size) ==
  CASE kind \in {"complex_integral", "derivative"} -> 3
    [] kind \in {"integral", "ode", "ode_details"} -> 4
    [] kind = "multiple_integral" -> 3 * size + 1
    [] kind = "polynomial" -> size + 1
    [] kind = "simultaneous" -> size * (size + 1)

\* The slots of differential variables, "var" or "..._var": they take one letter.
VariableSlots(kind, size) ==
  CASE kind = "integral" -> {4}
    [] kind = "multiple_integral" -> {3 * layer + 1 : layer \in 1..size}
    [] kind = "derivative" -> {2}
    [] OTHER -> {}

\* start_*_template and _set_template_session: an open template on its first slot.
Open(kind, size, filled) ==
  [kind |-> kind, size |-> size, count |-> SlotCount(kind, size), filled |-> filled,
   index |-> 1, completed |-> 0]

\* template_move: from the last slot to the first, and back.
MoveSlot(t, d) == [t EXCEPT !.index = ((@ - 1 + d) % t.count) + 1]

\* template_insert
FillSlot(t, letter) ==
  IF t.index \in VariableSlots(t.kind, t.size) /\ ~letter THEN t
  ELSE [t EXCEPT !.filled = @ \cup {t.index}]

\* template_backspace: a variable goes at once, a text when its last character does.
EraseSlot(t) == [t EXCEPT !.filled = @ \ {t.index}]

\* evaluate_template: these go to the worker, the others are solved at once.
InBackground(kind) == kind \notin {"polynomial", "simultaneous"}

\* The input that evaluate_template insists on before it starts a calculation.
Ready(t) ==
  CASE t.kind = "integral" -> {Body, 4} \subseteq t.filled /\ (2 \in t.filled <=> 3 \in t.filled)
    [] t.kind = "complex_integral" -> Body \in t.filled /\ (2 \in t.filled <=> 3 \in t.filled)
    [] t.kind = "derivative" -> Body \in t.filled
    [] t.kind = "ode_details" -> {1, 2, 3} \subseteq t.filled
    [] OTHER -> t.filled = 1..t.count

\* The equation that = looks at, and its slots.
CurrentRow(t) == IF t.completed < t.size THEN t.completed ELSE t.size - 1
RowSlots(t, row) == (row * (t.size + 1) + 1)..((row + 1) * (t.size + 1))

RowComplete(t) == RowSlots(t, CurrentRow(t)) \subseteq t.filled
LastRowReached(t) == CurrentRow(t) = t.size - 1

\* = on a complete equation that is not the last one.
AcceptRow(t) ==
  [t EXCEPT !.completed = CurrentRow(t) + 1,
            !.index = (CurrentRow(t) + 1) * (t.size + 1) + 1]

\* Mutant of Solvable: only the equation in work is looked at.
SolvableRow(t) == RowComplete(t)

\* The system can be solved: every coefficient has a text.
Solvable(t) == RowComplete(t) /\ t.filled = 1..t.count

=============================================================================
