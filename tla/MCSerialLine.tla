----------------------------- MODULE MCSerialLine -----------------------------
(***************************************************************************)
(* SerialLine on small instances: a frame of one byte and one that has to  *)
(* be escaped, in buffers that hold two or three of them.                  *)
(***************************************************************************)
EXTENDS SerialLine

MCFrames == {<<1>>, <<END>>}
=============================================================================
