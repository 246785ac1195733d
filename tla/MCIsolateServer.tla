-------------------------- MODULE MCIsolateServer --------------------------
(* Instances of IsolateServer for TLC. *)
EXTENDS IsolateServer, TLC

CONSTANTS good, cut, garbled

\* One wrong content has the size of the right one.
SomeSizes == (good :> 2) @@ (cut :> 1) @@ (garbled :> 2)
=============================================================================
