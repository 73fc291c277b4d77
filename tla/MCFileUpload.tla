---------------------------- MODULE MCFileUpload ----------------------------
(* TLC's instance of FileUpload: a unit is half of a chunk, and a whole chunk *)
(* does not fit into a frame, as 64 KB of data do not fit into 64 KB.         *)
EXTENDS FileUpload
=============================================================================
