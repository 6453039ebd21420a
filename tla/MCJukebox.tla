----------------------------- MODULE MCJukebox -----------------------------
EXTENDS Jukebox
=============================================================================
