---------------------------- MODULE MCReassembly ----------------------------
(***************************************************************************)
(* Reassembly on a small stream.  The sequence space is just twice the     *)
(* stream, and one initial number makes the stream wrap within it.         *)
(***************************************************************************)
EXTENDS Reassembly

MCInitialSeqs == {0, SeqModulus - 2}
=============================================================================
