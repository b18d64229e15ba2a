------------------------------ MODULE MCFiles -------------------------------
(***************************************************************************)
(* An instance of Files.                                                   *)
(***************************************************************************)
EXTENDS Files

MCKey == {"a"}
MCOut == {[key |-> "x", shift |-> FALSE], [key |-> "y", shift |-> FALSE]}
MCContents == {<<[key |-> "x", shift |-> FALSE]>>}
MCFlags == {{"read"}}

=============================================================================
