-------------------------- MODULE MCLogRedirection --------------------------
(* Instances of LogRedirection.                                              *)
EXTENDS LogRedirection

MCOpts == [lfilename : {NULL, "-", "file"}, stderr_tty : BOOLEAN, interactive : BOOLEAN]
=============================================================================
