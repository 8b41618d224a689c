---------------------------- MODULE MCHubCommand ----------------------------
\* HubCommand for TLC, which gives the clients as model values.
EXTENDS HubCommand
=============================================================================
