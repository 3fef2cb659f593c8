-------------------------- MODULE MCNativeClient --------------------------
EXTENDS NativeClient
=============================================================================
