------------------------------- MODULE DocScan -------------------------------
(***************************************************************************)
(* Which documents a worktree's index holds (docs/roots.ts, tracked.ts,     *)
(* scan.ts) and which path may be served (docs/resolve.ts).                 *)
(*                                                                         *)
(* An initial state is a worktree: its files, which of them git ignores or  *)
(* are symbolic links, and .makit/docs.json. A path is a sequence of        *)
(* segments; what the code asks of a segment are the sets below.            *)
(***************************************************************************)
EXTENDS Naturals, Sequences, FiniteSets, SequencesExt

CONSTANTS
    Paths,            \* the files a worktree may have
    Excludes,         \* what docs.json may exclude, each a set of paths
    DotNames,         \* segments that begin with a dot
    ExcludedDirs,     \* EXCLUDED_DIRS
    DocNames,         \* file names with a document's extension
    DefaultDocDirs,   \* DEFAULT_DOC_DIRS
    None

VARIABLES
    files, ignored,
    inside,       \* links whose target is in the worktree
    outside,      \* links whose target is not
    tooLarge,     \* files over MAX_DOC_BYTES
    exclude       \* docs.json's exclude

vars == <<files, ignored, inside, outside, tooLarge, exclude>>

Init ==
    /\ files \in SUBSET Paths
    /\ ignored \in {{}} \cup {{p} : p \in files}
    /\ inside \in {{}} \cup {{p} : p \in files}
    /\ outside \in {{}} \cup {{p} : p \in files}
    /\ inside \cap outside = {}
    /\ tooLarge \in {{}} \cup {{p} : p \in files}
    /\ exclude \in Excludes

Next == UNCHANGED vars

Spec == Init /\ [][Next]_vars

-----------------------------------------------------------------------------
(* The boundary: a path is judged by its segments, then by where it leads. *)

ResolveDocPath(path) ==
    CASE path = <<>> -> "empty"
      [] path # <<>> /\ ToSet(path) \cap DotNames # {} -> "dotfile"
      [] path # <<>> /\ ToSet(path) \cap DotNames = {} /\ ToSet(path) \cap ExcludedDirs # {} -> "excluded-dir"
      [] OTHER ->
         IF Last(path) \notin DocNames THEN "extension"
         ELSE IF path \notin files THEN "not-a-file"
         ELSE IF path \in outside THEN "escapes-root"
         ELSE IF path \in tooLarge THEN "too-large"
         ELSE "ok"

-----------------------------------------------------------------------------
(* The candidates. *)

\* every path of the extension that git does not ignore; a link is a path to git
GitDocPaths == {p \in files \ ignored : Last(p) \in DocNames}

\* directories strictly between dir and the file are neither dot nor excluded directories, and
\* nothing on the way is excluded by docs.json
Descends(dir, path, excl) ==
    /\ Len(dir) < Len(path) /\ IsPrefix(dir, path)
    /\ \A n \in Len(dir) + 1 .. Len(path) : SubSeq(path, 1, n) \notin excl
    /\ \A n \in Len(dir) + 1 .. Len(path) - 1 : path[n] \notin DotNames \cup ExcludedDirs

\* a directory entry that is a link is neither a file nor a directory
WalkRoots(dirs, rootMarkdown, excl) ==
    {p \in files \ (inside \cup outside) :
        /\ Last(p) \in DocNames
        /\ \/ rootMarkdown /\ Len(p) = 1
           \/ \E dir \in dirs : dir \notin excl /\ Descends(dir, p, excl)}

\* docs.json's roots, when it names any, are walked; without them git is asked, and when it does
\* not answer the default directories are walked, without docs.json's excludes
DocCandidates(named, answers) ==
    IF named # None THEN WalkRoots(named, FALSE, exclude)
    ELSE IF answers THEN GitDocPaths
    ELSE WalkRoots(DefaultDocDirs, TRUE, {})

\* mutant: only the path itself is looked up
IsExcludedItself(path) == path \in exclude

\* the path, or a directory above it, is in the exclude list
IsExcluded(path) == \E n \in 1 .. Len(path) : SubSeq(path, 1, n) \in exclude

ScanWorktree(named, answers) ==
    {p \in DocCandidates(named, answers) : ~IsExcluded(p) /\ ResolveDocPath(p) = "ok"}

-----------------------------------------------------------------------------
\* One index, whichever way it was made: below the default directories git, the walk that
\* replaces git and a walk of the same roots by name give the same documents, so an exclude, an
\* excluded directory or a dot directory means the same to all three, but for what git
\* ignores and for links, which only git lists (scan.ts, isExcluded; tracked.ts).
WalkAgreesWithGit ==
    LET common == {p \in files \ (ignored \cup inside) : \E dir \in DefaultDocDirs : IsPrefix(dir, p)}
        index(named, answers) == ScanWorktree(named, answers) \cap common
    IN index(None, TRUE) = index(None, FALSE) /\ index(None, TRUE) = index(DefaultDocDirs, TRUE)
=============================================================================
