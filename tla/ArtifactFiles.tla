--------------------------- MODULE ArtifactFiles ---------------------------
(***************************************************************************)
(* What the scripts of tools/ci have in common: directories of files, their *)
(* digests and the SHA256SUMS file that goes with them.                     *)
(*                                                                         *)
(* A path is the tuple of its parts and a directory (or an archive) the      *)
(* function from its paths to their contents, which are records.  A          *)
(* SHA256SUMS file is the set of its lines: two equal lines, which no writer  *)
(* produces and every reader refuses, are not told apart.                    *)
(***************************************************************************)
EXTENDS Naturals, Sequences, FiniteSets

\* The digest of a content: as good as the content, and never mistaken for one.
Sha256(content) == [sha256 |-> content]

\* Something that is not there.
None == [none |-> TRUE]

\* The directory of one file, and the files of f with those of g that f does not have (TLC's own
\* operators for the two are not known to the provers).
File(path, content) == [p \in {path} |-> content]
f ++ g == [p \in DOMAIN f \cup DOMAIN g |-> IF p \in DOMAIN f THEN f[p] ELSE g[p]]

\* The check of a relative path made before a file is written or compared.
SafeRelative(path) ==
    path # <<>> /\ \A i \in DOMAIN path : path[i] \notin {"", ".", "..", "/"}

\* The SHA256SUMS file over the given files.
SumsOf(files) == [lines |-> {[path |-> p, sha |-> Sha256(files[p])] : p \in DOMAIN files}]

Declared(sums) == {l.path : l \in sums.lines}

\* A SHA256SUMS file agrees with a directory: each of its lines names another file of it, by a
\* safe path and with its digest, and no file but itself is left out.
Covers(sums, files, self) ==
    /\ \A l \in sums.lines :
        /\ SafeRelative(l.path)
        /\ l.path \in DOMAIN files
        /\ l.path # self
        /\ l.sha = Sha256(files[l.path])
    /\ \A l, m \in sums.lines : l.path = m.path => l = m
    /\ Declared(sums) = DOMAIN files \ {self}
=============================================================================
