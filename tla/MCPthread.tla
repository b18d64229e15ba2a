----------------------------- MODULE MCPthread -----------------------------
(***************************************************************************)
(* The instance of Pthread: each behaviour uses one of the objects.        *)
(***************************************************************************)
EXTENDS Pthread

MCPrograms ==
  [calls : {{"lock", "trylock"}}, kind : {"recursive", "errorcheck"}, most : {2}]
    \cup [calls : {{"lock", "unlock"}}, kind : Kinds, most : {1}]
    \cup [calls : {{"lock", "wait", "broadcast"}}, kind : {"normal"}, most : {2}]
    \cup [calls : {{"once"}}, kind : {"normal"}, most : {2}]
    \cup [calls : {{"read", "write", "tryread", "trywrite"}}, kind : {"normal"}, most : {1}]

=============================================================================
