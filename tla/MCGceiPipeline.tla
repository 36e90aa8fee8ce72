--------------------------- MODULE MCGceiPipeline ---------------------------
(* The pipeline over one epoch change, with every task of both sides fair. *)
EXTENDS GceiPipeline

CONSTANTS MaxEpoch, MaxNumber

MCEpochs == 0..MaxEpoch
MCNumbers == 0..MaxNumber
MCIds == MCEpochs \X MCNumbers
=============================================================================
