---------------------------- MODULE MCSubsQueue -----------------------------
(* Small instances of SubsQueue.  TLC evaluates SizesOK.                    *)
EXTENDS SubsQueue
=============================================================================
