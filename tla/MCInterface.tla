---------------------------- MODULE MCInterface ----------------------------
(***************************************************************************)
(* Instances of Interface for TLC.                                         *)
(***************************************************************************)
EXTENDS Interface

\* What an earlier session may have left: nothing, a differential equation and an
\* integral without bounds.
MCHistories ==
  {<<Entry("ode", 0, Blank, 1..4), Entry("integral", 0, Blank, {1, 4})>>}

\* An integral between bounds, made in Complex or not.
MCIntegrals ==
  {<<Entry("integral", 0, Blank, 1..4)>>, <<Entry("complex_integral", 0, Blank, 1..3)>>}

\* A first launch.
MCNoHistory == {<<>>}
=============================================================================
