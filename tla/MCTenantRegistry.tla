-------------------------- MODULE MCTenantRegistry --------------------------
(* The small instance of TenantRegistry for TLC.  Its run checks liveness    *)
(* too, so principals and calls are not declared symmetric.                  *)
EXTENDS TenantRegistry
=============================================================================
