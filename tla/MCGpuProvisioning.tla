------------------------- MODULE MCGpuProvisioning --------------------------
(* Instances of GpuProvisioning for TLC.  Passes, and GPUs, are alike.     *)
EXTENDS GpuProvisioning, TLC

Symmetry == Permutations(Provisioner) \cup Permutations(Gpu)
=============================================================================
