----------------------------- MODULE MCLifecycle -----------------------------
(* The hosts of the lifecycle's runs.  v1 serves every address that can be  *)
(* bound, v2 came to refuse direct access, v3 does not come up; addrC is    *)
(* not an address of the host.                                              *)
EXTENDS Lifecycle, TLC

CONSTANTS v1, v2, v3, local, addrA, addrC

MCWorks == {<<v1, local>>, <<v1, addrA>>, <<v2, local>>} \cap (Releases \X Addresses)
=============================================================================
