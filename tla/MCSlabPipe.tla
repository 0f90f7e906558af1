----------------------------- MODULE MCSlabPipe -----------------------------
(* Small instances of SlabPipe for TLC; the values are in the .cfg files.    *)
EXTENDS SlabPipe

=============================================================================
