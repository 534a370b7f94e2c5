--------------------------- MODULE MCWifiManager ---------------------------
\* wifi_manager_connect with two calling tasks (app_main and one
\* connect_wifi_task) and two access points.
EXTENDS WifiManagerCalm

=============================================================================
