---------------------------- MODULE ToolAccesses ----------------------------
(* The resource accesses a tool call declares, and when two calls conflict.    *)
(* A path is absolute and given by its components as they were written: names  *)
(* in any case, and empty ones for doubled and trailing slashes.               *)
EXTENDS Naturals, Sequences, SequencesExt

CONSTANTS
    Names,      \* the names a component of a path may be, in any case
    Fold,       \* the lower-case form of each name
    EmptyName   \* the component between two adjacent slashes

ASSUME NamesAssumption ==
    /\ Fold \in [Names -> Names]
    /\ EmptyName \notin Names

All == [kind |-> "all"]

FileAccess(operation, path, recursive) ==
    [kind |-> "file", operation |-> operation, path |-> path, recursive |-> recursive]

(* names[n] is what the first n components of the path leave. *)
NormalizePath(path) ==
    LET names[n \in 0 .. Len(path)] ==
            IF n = 0 THEN <<>>
            ELSE IF path[n] = EmptyName THEN names[n - 1]
            ELSE Append(names[n - 1], Fold[path[n]])
    IN  names[Len(path)]

FileOperationWrites(operation) == operation \in {"write", "readwrite"}

FileOperationsConflict(left, right) == FileOperationWrites(left) \/ FileOperationWrites(right)

\* Mutant of FileAccessesOverlap: both accesses must be trees.
FileAccessesOverlapTrees(left, right) ==
    LET leftPath == NormalizePath(left.path)
        rightPath == NormalizePath(right.path)
    IN  \/ leftPath = rightPath
        \/ /\ left.recursive /\ right.recursive
           /\ IsPrefix(leftPath, rightPath) \/ IsPrefix(rightPath, leftPath)

(* One path is the other, or lies below the other's recursive access. *)
FileAccessesOverlap(left, right) ==
    LET leftPath == NormalizePath(left.path)
        rightPath == NormalizePath(right.path)
    IN  \/ leftPath = rightPath
        \/ left.recursive /\ IsStrictPrefix(leftPath, rightPath)
        \/ right.recursive /\ IsStrictPrefix(rightPath, leftPath)

ResourceAccessesConflict(left, right) ==
    \/ left.kind = "all" \/ right.kind = "all"
    \/ /\ left.kind = "file" /\ right.kind = "file"
       /\ FileOperationsConflict(left.operation, right.operation)
       /\ FileAccessesOverlap(left, right)

(* ToolAccesses.conflict, on the accesses of two calls. *)
Conflict(left, right) ==
    \E l \in left, r \in right : ResourceAccessesConflict(l, r)

-----------------------------------------------------------------------------
(* The file accesses that tools may declare on some paths, and All. *)
Accesses(paths) ==
    {All} \cup {FileAccess(operation, path, recursive) :
                  operation \in {"read", "search", "write", "readwrite"},
                  path \in paths, recursive \in BOOLEAN}

(* What an access means, to compare the test with.  A file is given by its    *)
(* normalized path; an access touches one file, or also everything below it.  *)
Touches(access, file) ==
    \/ access.kind = "all"
    \/ file = NormalizePath(access.path)
    \/ access.recursive /\ IsPrefix(NormalizePath(access.path), file)

Writes(access) == access.kind = "all" \/ access.operation \in {"write", "readwrite"}
=============================================================================
