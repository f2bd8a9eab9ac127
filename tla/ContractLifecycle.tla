-------------------------- MODULE ContractLifecycle --------------------------
(***************************************************************************)
(* What the control state promises to the owner of a data contract, with   *)
(* none of the machinery: a contract is loaded, then used, then released;  *)
(* the key in use is the loaded one and is never exchanged under a running *)
(* computation.  MojoVControl implements this.                             *)
(***************************************************************************)
CONSTANTS LoadableKeys, NoKey

VARIABLES
  phase,   \* "none", "ready" (a contract is loaded) or "running"
  key      \* the key the cipher core works with, NoKey when none is loaded

lifecycleVars == <<phase, key>>

LInit == phase = "none" /\ key = NoKey

\* A contract is loaded, replacing an unused one.
Load ==
  /\ phase # "running"
  /\ phase' = "ready"
  /\ key' \in LoadableKeys

\* A failed load forgets the contract that was there.
Drop ==
  /\ phase # "running"
  /\ phase' = "none"
  /\ key' = NoKey

Start == phase = "ready" /\ phase' = "running" /\ key' = key

Stop == phase = "running" /\ phase' = "ready" /\ key' = key

PowerCycle == phase' = "none" /\ key' = NoKey

LNext == Load \/ Drop \/ Start \/ Stop \/ PowerCycle

LSpec == LInit /\ [][LNext]_lifecycleVars
=============================================================================
