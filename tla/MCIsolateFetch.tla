-------------------------- MODULE MCIsolateFetch --------------------------
(* Instances of IsolateFetch for TLC. *)
EXTENDS IsolateFetch

CONSTANTS root, child, file1, other

\* Two paths hold the same data file, and the root overrides a path of its child.
SomeIncludes == (root :> <<child>>) @@ (child :> <<>>)
SomeHolds == (root :> ("p1" :> file1)) @@ (child :> (("p1" :> other) @@ ("p2" :> file1)))
SomeSizes == [d \in Digests |-> 1]
=============================================================================
