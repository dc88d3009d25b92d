-------------------------- MODULE MCDatabaseAccess --------------------------
(***************************************************************************)
(* A small instance of DatabaseAccess.                                     *)
(***************************************************************************)
EXTENDS DatabaseAccess

\* Searches without a hit, and those that find everything, in every order.
NoneOrAll == {<<>>} \cup Bijection(1 .. Cardinality(Properties), Properties)
=============================================================================
