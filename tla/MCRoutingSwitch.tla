-------------------------- MODULE MCRoutingSwitch --------------------------
EXTENDS RoutingSwitch
=============================================================================
