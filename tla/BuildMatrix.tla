---------------------------- MODULE BuildMatrix ----------------------------
(***************************************************************************)
(* What the jobs of .github/workflows/prebuilt-binaries.yml are run for.    *)
(***************************************************************************)
CONSTANTS
    Components,     \* of "canvas", "html5ever", "wreq", "boringssl"
    Targets         \* of "windows-x86_64", "linux-x86_64", "macos-x86_64", "macos-aarch64"

ASSUME MatrixAssumption ==
    /\ Components \subseteq {"canvas", "html5ever", "wreq", "boringssl"}
    /\ Targets \subseteq {"windows-x86_64", "linux-x86_64", "macos-x86_64", "macos-aarch64"}

Windows == "windows-x86_64"
=============================================================================
