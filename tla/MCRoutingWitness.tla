-------------------------- MODULE MCRoutingWitness --------------------------
EXTENDS RoutingWitness
=============================================================================
