-------------------------- MODULE MCToneControl --------------------------
EXTENDS ToneControl
=============================================================================
