------------------------- MODULE MCCredentialCache --------------------------
(***************************************************************************)
(* Instances of CredentialCache for TLC.                                   *)
(***************************************************************************)
EXTENDS CredentialCache, TLC

\* One role, with and without an MFA device.
RoleRequests == {[mfa |-> <<>>, role |-> <<"role">>, pool |-> ""],
                 [mfa |-> <<"mfa">>, role |-> <<"role">>, pool |-> ""]}

\* Invocations are interchangeable.
Symmetry == Permutations(Procs)

\* Two identity pools: idp takes no part of its request from the pool.
PoolRequests == {[mfa |-> <<>>, role |-> <<"any">>, pool |-> "a"],
                 [mfa |-> <<>>, role |-> <<"any">>, pool |-> "b"]}
=============================================================================
