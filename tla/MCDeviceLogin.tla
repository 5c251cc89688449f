---------------------------- MODULE MCDeviceLogin ----------------------------
EXTENDS DeviceLogin

\* status and monitor begin alike; monitor goes on.
Host == [p1 |-> {"login", "companion"}, p2 |-> {"logout", "monitor"}]
=============================================================================
