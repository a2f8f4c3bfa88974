---------------------------- MODULE MCEventUpload ----------------------------
(***************************************************************************)
(* Small instances of EventUpload: as in the code, a stream is longer than *)
(* a batch, and its length may or may not be a multiple of BATCH_SIZE.     *)
(***************************************************************************)
EXTENDS EventUpload

AllUploads == UNION {[1 .. n -> Kinds] : n \in 0 .. 5}
==============================================================================
