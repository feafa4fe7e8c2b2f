--------------------------- MODULE MCKeyLifecycle ---------------------------
(* KeyLifecycle with three commands of any kind.                           *)
EXTENDS KeyLifecycle

CONSTANTS o1, o2, o3

=============================================================================
