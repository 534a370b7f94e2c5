--------------------------- MODULE MCMqttLifecycle ---------------------------
\* A client with one task that starts and stops it and one more that calls.
EXTENDS MqttLifecycle
=============================================================================
