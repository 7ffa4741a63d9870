-------------------------- MODULE MCAsyncClientStream --------------------------
(* Instances of AsyncClientStream for TLC; the configurations give the values. *)
EXTENDS AsyncClientStream, TLC

UserSymmetry == Permutations(Users)

=============================================================================
