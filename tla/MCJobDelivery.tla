---------------------------- MODULE MCJobDelivery ---------------------------
EXTENDS JobDelivery
=============================================================================
