------------------------------ MODULE MCFolder ------------------------------
(* Constants for the run of Folder.tla. *)
EXTENDS Folder

\* One of two runs writes the version too.
Versions == [w \in Runs |-> w = "v"]

=============================================================================
