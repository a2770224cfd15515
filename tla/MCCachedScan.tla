----------------------------- MODULE MCCachedScan -----------------------------
(* The cached engine, under every budget, against the exact scan. *)
EXTENDS CachedScan, MCJobs
=============================================================================
