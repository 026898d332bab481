---------------------------- MODULE MCTickLabels ----------------------------
EXTENDS TickLabels
=============================================================================
