---------------------------- MODULE MCModuleSort ----------------------------
(***************************************************************************)
(* ModuleSort on every import graph of at most three modules with at most  *)
(* two imports each, a module importing itself, importing another twice    *)
(* and in either order included.                                           *)
(***************************************************************************)
EXTENDS ModuleSort

=============================================================================
