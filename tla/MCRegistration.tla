--------------------------- MODULE MCRegistration ---------------------------
(* The instances of Registration that TLC checks.                          *)
EXTENDS Registration, TLC

\* At most two of a fault, a stop and a write of another process.
FewDisturbances == faults + crashes + foreign <= 2

StartSymmetry == Permutations(Starts)

Application(kinds, requests) == [kinds |-> kinds, requests |-> requests]

\* One application that is started again and again, applications whose starts
\* disagree on the request, and one that asks for a new Agent.
Applications ==
  {Application({"reuse", "rotate", "validate"}, {"r1"}),
   Application({"reuse", "supplied"}, {"r1", "r2"}),
   Application({"save", "forceNew"}, {"r1"})}
=============================================================================
