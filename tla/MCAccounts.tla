------------------------------ MODULE MCAccounts ------------------------------
(***************************************************************************)
(* A small instance of the modules about accounts.                         *)
(***************************************************************************)
EXTENDS AccountParts, TLC

\* One provider that tells of one identity under either of two addresses.
TwoProfiles == [provider : {"google"}, id : {"i1"}, email : {"n1", "n2"}]

Interchangeable == Permutations(Requests) \cup Permutations(Emails) \cup Permutations(Users)

===============================================================================
