----------------------------- MODULE MCFolderTree -----------------------------
\* Instances of FolderTree for TLC.
EXTENDS FolderTree, TLC

CONSTANTS a, b, c, d, r1, r2

\* Folder ids are interchangeable, and so are handlers.
FolderSymmetry == Permutations(Folders)
Symmetry == Permutations(Folders) \cup Permutations(Requests)

=============================================================================
