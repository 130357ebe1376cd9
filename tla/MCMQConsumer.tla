---------------------------- MODULE MCMQConsumer ----------------------------
(* Model checking of MQConsumer: the configurations name the replicas and the *)
(* messages.  They check liveness, so replicas are not declared symmetric.    *)
EXTENDS MQConsumer
=============================================================================
