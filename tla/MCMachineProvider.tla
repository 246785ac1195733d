-------------------------- MODULE MCMachineProvider --------------------------
(* Instances of MachineProvider for TLC. *)
EXTENDS MachineProvider, TLC

CONSTANTS r1, r2, m1, m2

\* The second request can only have the second machine.
FitsSome == {<<r1, m1>>, <<r1, m2>>, <<r2, m2>>}

\* One request is sent twice, one hostname comes back.
SentTwice == (r1 :> 2) @@ (r2 :> 1)
ComesBack == (m1 :> 1) @@ (m2 :> 2)
=============================================================================
