-------------------------- MODULE MCIthmbRearrange --------------------------
EXTENDS IthmbRearrange
=============================================================================
