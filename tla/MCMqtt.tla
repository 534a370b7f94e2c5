------------------------------- MODULE MCMqtt -------------------------------
\* Instances of MqttClient for TLC.
EXTENDS MqttClient
=============================================================================
