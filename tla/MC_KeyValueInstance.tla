------------------------ MODULE MC_KeyValueInstance ------------------------
EXTENDS KeyValueInstance, TLC

\* A transaction whose instance is well written; the second version of any
\* other instance does not parse.
CONSTANT Sound

MCGarbled == [id : Tx \ {Sound}, version : {2}]

\* Objects are alike, and so are transactions but for Sound.
MCSymmetry == Permutations(Client) \cup Permutations(Tx \ {Sound})
=============================================================================
