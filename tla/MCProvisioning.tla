--------------------------- MODULE MCProvisioning ---------------------------
\* The provisioning firmware with app_main, connect_wifi_task and one phone.
EXTENDS Provisioning
=============================================================================
