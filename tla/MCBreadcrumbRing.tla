-------------------------- MODULE MCBreadcrumbRing --------------------------
(***************************************************************************)
(* Small instances of BreadcrumbRing.  Two slots make a writer that is two *)
(* tickets behind a lapped one; two payload cells tell a mixture of two    *)
(* calls from a breadcrumb that is stale as a whole.                       *)
(***************************************************************************)
EXTENDS BreadcrumbRingLog
=============================================================================
