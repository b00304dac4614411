------------------------------ MODULE MCConsole -----------------------------
(***************************************************************************)
(* Instances of Console for TLC: two environments and one to be made, two  *)
(* keys, of which each environment holds one or both.                      *)
(***************************************************************************)
EXTENDS ConsoleInvariant, TLC

CONSTANTS e1, e2, e3

ThreeEnvs == {e1, e2, e3}
TwoKeys == {1, 2}

AtFirst ==
  [vault |-> [s \in ThreeEnvs \X TwoKeys |->
                CASE s = <<e1, 1>> -> <<"first", "other">> [] s = <<e2, 1>> -> <<"first">> [] OTHER -> <<>>],
   deleted |-> {},
   order |-> <<e1, e2>>]

TwoTexts == {[name |-> "one", keys |-> {1}], [name |-> "two", keys |-> {1, 2}]}

Doing(n, does) == [does |-> does, clicks |-> n]

Users ==
  { Doing(3, {"edit", "others"}),
    Doing(2, {"edit", "loss"}),
    Doing(3, {"edit", "reveal"}),
    Doing(3, {"history", "reveal", "loss"}),
    Doing(2, {"edit", "history", "others"}),
    Doing(2, {"add", "tabs", "others"}),
    Doing(2, {"add", "import"}),
    Doing(2, {"fix", "loss"}),
    Doing(2, {"edit", "promote"}),
    Doing(2, {"import", "others"}),
    Doing(2, {"manage", "tabs", "loss"}),
    Doing(2, {"manage", "add"}) }

ImportUsers == {Doing(2, {"import"})}

=============================================================================
