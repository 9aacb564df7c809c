------------------------------- MODULE MCNetcode -------------------------------
EXTENDS Netcode, TLC

OneInput == {{"D"}}
TwoInputs == {{"D"}, {"W"}}
InitialJunk == {InitialState}

\* A bound: players alternate between two inputs, so that the inputs of one frame, and of
\* one player in two frames, are told apart.
Alternating(n) == IF n % 2 = 0 THEN {"D"} ELSE {"W"}

InputsAlternate ==
    \A c \in Clients : \A k \in DOMAIN c_issued[c] :
        c_issued[c][k] = Alternating(c_client_index[c] + c_joined[c] + k)

ClientSymmetry == Permutations(Clients)
===============================================================================
