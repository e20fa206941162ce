------------------------- MODULE MCReleasePipeline -------------------------
(* Instances of the release pipeline for TLC. *)
EXTENDS ReleasePipeline

MCFixedInputs == [profile |-> "m149"]
MCOnlyBinding == {Binding}
MCOwnPrefixes == {"canvas", "html5ever", "wreq", "vcruntime"}
MCVersions == <<"1.0.1", "1.0.2">>

\* Every kind of fault.
MCFaults ==
    DistDefects \cup {"contracts", "toolchain", "build", "install", "archive", "checksum",
                     "attestation", "load", "policy", "rustTest", "pythonTest", "wheelCut",
                     "fingerprint", "lost"}
=============================================================================
