-------------------------------- MODULE MCAmqp --------------------------------
(* Two callers that publish, and publish again, one object; the receiver.  *)
EXTENDS Amqp
=============================================================================
