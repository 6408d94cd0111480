-------------------------- MODULE MCMultipartUpload --------------------------
(***************************************************************************)
(* Model-checking instances of MultipartUpload.  Handlers are              *)
(* interchangeable, and so are uploads, so the safety runs use symmetry;   *)
(* the liveness run does not.                                              *)
(***************************************************************************)
EXTENDS MultipartUpload, TLC

Symmetry == Permutations(Reqs) \cup Permutations(Uploads)
=============================================================================
