-------------------------- MODULE MCMediaController --------------------------
EXTENDS MediaController
=============================================================================
