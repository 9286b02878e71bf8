----------------------------- MODULE MCLifecycle -----------------------------
(* Small instances of Lifecycle for TLC: two requests race over one name.    *)
EXTENDS Lifecycle
=============================================================================
