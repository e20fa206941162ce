------------------------- MODULE DependencyContract -------------------------
(***************************************************************************)
(* What a packaged binary may load.  The packager (package_prebuilt.py)     *)
(* reads the image of each binary with the platform's tools, refuses it or   *)
(* records it in runtime-dependencies.json; the final aggregate             *)
(* (aggregate_darkpanda_reports.py) judges the record alone.                *)
(*                                                                         *)
(* Library names are abstract; the tests of their prefix and form are       *)
(* membership in one of the sets below.  An image is                        *)
(*   linux    needed (a sequence), runtimePaths, linked: where ldd finds     *)
(*            each name ("package", "system", "elsewhere", "not found");    *)
(*   windows  imports and delayed: the names in the two import tables;      *)
(*   macos    arch, id, runtimePaths, libraries (without the line of its    *)
(*            own name).                                                   *)
(***************************************************************************)
EXTENDS Sequences, Naturals

CONSTANTS
    OsNeeded,       \* LINUX_OS_NEEDED
    OriginPaths,    \* the run paths relative to $ORIGIN
    UnsafeNames,    \* Windows names that are not the plain base name of a DLL
    OwnPrefixes,    \* names that begin like the VC runtime's or the project's libraries
    ApiSets,        \* names that begin like an API set
    System32,       \* the files of System32 on the runner
    BuilderPaths,   \* Mach-O libraries under a directory of the runner's
    SystemPaths     \* Mach-O libraries under /System/Library and /usr/lib

Names(needed) == {needed[i] : i \in DOMAIN needed}

NoDuplicate(needed) == \A i, j \in DOMAIN needed : needed[i] = needed[j] => i = j

-----------------------------------------------------------------------------
(* Linux: readelf -d and ldd. *)

\* Where ldd has found a name, if it has.
ResolvesTo(image, n, place) == n \in DOMAIN image.linked /\ image.linked[n] = place

\* bundled: the names of the shared libraries in the package
ElfAccepted(image, bundled) ==
    /\ NoDuplicate(image.needed)
    /\ Names(image.needed) \subseteq bundled \cup OsNeeded
    /\ image.runtimePaths \subseteq OriginPaths
    /\ \A n \in DOMAIN image.linked : image.linked[n] # "not found"
    /\ \A n \in Names(image.needed) :
        ResolvesTo(image, n, IF n \in bundled THEN "package" ELSE "system")

ElfRecord(image, bundled) ==
    [needed |-> image.needed,
     bundledNeeded |-> Names(image.needed) \cap bundled,
     operatingSystemNeeded |-> Names(image.needed) \cap OsNeeded,
     runtimePaths |-> image.runtimePaths]

ElfRecordValid(record, bundled) ==
    /\ NoDuplicate(record.needed)
    /\ Names(record.needed) \subseteq bundled \cup OsNeeded
    /\ record.bundledNeeded = Names(record.needed) \cap bundled
    /\ record.operatingSystemNeeded = Names(record.needed) \cap OsNeeded
    /\ record.runtimePaths \subseteq OriginPaths

-----------------------------------------------------------------------------
(* Windows: the import tables of the PE image. *)

\* Both tables, which Windows resolves under the same rules.
PeImports(image) == image.imports \cup image.delayed

\* bundled: the names of all binaries in the package
PeAccepted(image, bundled) ==
    LET external == PeImports(image) \ bundled IN
    /\ PeImports(image) \cap UnsafeNames = {}
    /\ external \cap OwnPrefixes = {}
    /\ external \ ApiSets \subseteq System32

\* Mistake: the bundled libraries are counted among those of the system.
NotAnApiSet(image, bundled) == PeImports(image) \ ApiSets

FromSystem32(image, bundled) == (PeImports(image) \ bundled) \ ApiSets

PeRecord(image, bundled) ==
    [peImports |-> PeImports(image),
     bundledImports |-> PeImports(image) \cap bundled,
     apiSetImports |-> (PeImports(image) \ bundled) \cap ApiSets,
     system32Imports |-> FromSystem32(image, bundled)]

PeRecordValid(record, bundled) ==
    LET external == record.peImports \ bundled IN
    /\ record.peImports \cap UnsafeNames = {}
    /\ record.bundledImports = record.peImports \cap bundled
    /\ record.apiSetImports = external \cap ApiSets
    /\ record.system32Imports = external \ ApiSets
    /\ (record.apiSetImports \cup record.system32Imports) \cap OwnPrefixes = {}

-----------------------------------------------------------------------------
(* macOS: otool -L, -l, -D and lipo -archs. *)

\* The command and the ffi library look for the others beside themselves.
NeedsLoaderPath(name) == name \in {"cli", "ffi"}

InstallName(name) == IF name = "cli" THEN "none" ELSE name

MachOAccepted(image, name, arch) ==
    /\ image.arch = arch
    /\ image.libraries \cap BuilderPaths = {}
    /\ image.id = InstallName(name)
    /\ NeedsLoaderPath(name) => "@loader_path" \in image.runtimePaths

MachORecord(image) ==
    [architectures |-> image.arch, installName |-> image.id,
     runtimePaths |-> image.runtimePaths, otoolLibraries |-> image.libraries]

\* Mistake: the libraries are left to the packager.
LibrariesNamed(record, bundled) == "otoolLibraries" \in DOMAIN record

LibrariesKnown(record, bundled) == record.otoolLibraries \subseteq bundled \cup SystemPaths

\* bundled: the names that stand for @rpath/<name> of the package
MachORecordValid(record, name, bundled, arch) ==
    /\ record.architectures = arch
    /\ record.installName = InstallName(name)
    /\ NeedsLoaderPath(name) => "@loader_path" \in record.runtimePaths
    /\ LibrariesKnown(record, bundled)
=============================================================================
