----------------------------- MODULE MCWifiScan -----------------------------
\* Instances of WifiScan for TLC.
EXTENDS WifiScan
=============================================================================
