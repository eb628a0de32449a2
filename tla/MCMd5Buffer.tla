------------------------------- MODULE MCMd5Buffer -------------------------------
(* Model-checking instance of Md5Buffer: every message length from none to    *)
(* beyond three blocks, so that every index of the buffer meets every call.   *)
EXTENDS Md5Buffer
=================================================================================
