------------------------------ MODULE MCGrpcCall ------------------------------
(* Instances of GrpcCall for TLC; the configurations give the other values. *)
EXTENDS GrpcCall

\* Two messages where one direction streams; both together are many interleavings.
Up == [s \in AllShapes |-> IF s = "client" THEN 2 ELSE 1]
Down == [s \in AllShapes |-> IF s = "server" THEN 2 ELSE 1]

=============================================================================
