--------------------------- MODULE MCFrameDecoder ---------------------------
(* A length field of four bytes, small limits, every cut of every stream. *)
EXTENDS FrameDecoder

=============================================================================
