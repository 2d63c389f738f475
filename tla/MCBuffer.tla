------------------------------ MODULE MCBuffer ------------------------------
(* An instance of Buffer for TLC.                                          *)
EXTENDS Buffer, SequencesExt

\* every string of at most 3 bytes
ShortStrings == BoundedSeq(Byte, 3)
=============================================================================
