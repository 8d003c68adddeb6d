-------------------------------- MODULE MCKitchen -------------------------------
EXTENDS Kitchen
CONSTANTS o1, drinks, grill
===============================================================================
