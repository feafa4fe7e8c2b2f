---------------------------- MODULE MCTokenKeys -----------------------------
(* TokenKeys where the second encryption key is wrapped by another KEK.    *)
EXTENDS TokenKeys

CONSTANTS i1, i2, t1, v1

MCUnloadable == {<<"token_encryption", 2>>}

=============================================================================
