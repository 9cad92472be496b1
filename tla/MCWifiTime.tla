---------------------------- MODULE MCWifiTime ----------------------------
EXTENDS WifiTime
=============================================================================
