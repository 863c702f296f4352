---------------------------- MODULE MCSchemaStore ----------------------------
(***************************************************************************)
(* Two users, two requests at a time.  Every property is a safety property *)
(* and treats users, requests and reports alike, so the symmetry is sound. *)
(***************************************************************************)
EXTENDS SchemaStore, TLC

Symmetry == Permutations(User) \cup Permutations(Request)
            \cup Permutations(Report)
=============================================================================
