---------------------------- MODULE MCMqttWorker ----------------------------
(* Small instances of MqttWorker: two trials, two seconds, two attempts,    *)
(* message ids 0..2 so that the counter wraps to the illegal 0.             *)
EXTENDS MqttWorker
=============================================================================
