------------------------------ MODULE MCVmAgent ------------------------------
(* Instance of VmAgent: three leases, enough for a manifest with two       *)
(* credentials and a second provisioning with one.                         *)
EXTENDS VmAgent

MCManifests == {<<"github.com", "registry.npmjs.org">>, <<"registry.npmjs.org">>}
=============================================================================
