----------------------------- MODULE MCFileStore -----------------------------
(* Model checking of FileStore.  Objects do not share files, so one of each *)
(* kind shows all that requests can do to each other.                       *)
EXTENDS FileStore
=============================================================================
