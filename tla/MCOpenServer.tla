----------------------------- MODULE MCOpenServer -----------------------------
EXTENDS OpenServer, TLC

OneInput == {{"D"}}
ClientSymmetry == Permutations(Clients)
===============================================================================
