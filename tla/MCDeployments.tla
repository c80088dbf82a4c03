---------------------------- MODULE MCDeployments ----------------------------
(***************************************************************************)
(* Small instances of Deployments for TLC.                                 *)
(***************************************************************************)
EXTENDS Deployments, TLC

\* What deploys carry: no attestation, or a signed one that binds the artifact
\* "kernel", which deploys of the other artifact attach wrongly ...
NoneOrSigned ==
    {NoAttestation} \cup [kind : {"signed"}, builder : Builders, artifact : {"kernel"}]

\* ... or one that does not parse.
AllAttestations ==
    NoneOrSigned \cup
    {[kind |-> "malformed", builder |-> NoBuilder, artifact |-> NoArtifact]}

Symmetry == Permutations(Handlers)
=============================================================================
