----------------------------- MODULE MCProfiles -----------------------------
(***************************************************************************)
(* TLC instance of Profiles: stacks that share a function and a file; two  *)
(* of them have names that are not UTF-8 and read the same.                *)
(***************************************************************************)
EXTENDS Profiles

Leaf(line) == [name |-> "f", file |-> "a.py", line |-> line]
Root(name) == [name |-> name, file |-> "a.py", line |-> 1]

MCStacks == {<<Leaf(1)>>, <<Leaf(2), Root("\\xe9")>>, <<Leaf(2), Root("\\xff")>>}
MCInvalid == {"\\xe9", "\\xff"}
=============================================================================
