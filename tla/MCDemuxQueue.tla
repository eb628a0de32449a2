------------------------------ MODULE MCDemuxQueue ------------------------------
(* Model-checking instance of DemuxQueue: three threads pull from one queue, *)
(* the user and the worker close it, the worker pushes up to MaxPush values. *)
EXTENDS DemuxQueue

CONSTANTS c1, c2, c3, user, worker

MCConsumers == {c1, c2, c3}
MCClosers == {user, worker}
=================================================================================
