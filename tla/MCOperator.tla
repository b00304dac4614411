----------------------------- MODULE MCOperator -----------------------------
(* Small instances of Operator for TLC. *)
EXTENDS Operator

CONSTANTS p1, p2

TwoPasses == {p1, p2}
AllButSpec == {"remove", "delete", "write", "unstamp"}

\* Two leaders and one resource, beside users who do all but edit specs: without a
\* fault, with one, and one leader alone with both.
Shared == [passes |-> TwoPasses, names |-> {"a"}, envs |-> {"e"}, users |-> AllButSpec, edits |-> 2, faults |-> 0]
Faulty == [Shared EXCEPT !.users = {"delete", "write"}, !.edits = 1, !.faults = 1]
Repeated == [Shared EXCEPT !.passes = {p1}, !.faults = 1]

\* Two leaders that work for different resources of one target.
Contended == [Shared EXCEPT !.names = {"a", "b"}, !.edits = 0]

\* One leader and resources whose specs change.
Edited == [passes |-> {p1}, names |-> {"a"}, envs |-> {"e", "f"}, users |-> Users, edits |-> 2, faults |-> 0]
EditedTwo == [Edited EXCEPT !.names = {"a", "b"}, !.users = {"spec", "delete"}, !.edits = 1]

AllMixes == {Shared, Faulty, Repeated, Contended, Edited, EditedTwo}

\* A spec edit and a failed pass.
FailedMix == {[Edited EXCEPT !.users = {"spec"}, !.edits = 1, !.faults = 1]}

\* An edit of the target by hand.
HandMix == {[Repeated EXCEPT !.users = {"write"}, !.edits = 1, !.faults = 0]}
=============================================================================
