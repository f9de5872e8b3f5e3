-------------------------- MODULE MCHealthMonitor --------------------------
EXTENDS HealthMonitor
=============================================================================
