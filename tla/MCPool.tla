-------------------------------- MODULE MCPool --------------------------------
EXTENDS Pool
==============================================================================
