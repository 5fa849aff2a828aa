-------------------------------- MODULE MCSchema --------------------------------
EXTENDS Schema
===============================================================================
