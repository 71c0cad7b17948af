-------------------------- MODULE MCToolScheduler --------------------------
(* An instance of ToolScheduler whose conflicts are those of ToolAccesses, and *)
(* the comparison of ToolAccesses with a reference definition.                 *)
EXTENDS ToolScheduler, ToolAccesses

CONSTANTS
    src, SRC,    \* two spellings of one name
    out,         \* another name
    MaxDepth     \* bound: components of a path as written, in the comparison

ASSUME MaxDepthAssumption == MaxDepth \in Nat

MCNames == {src, SRC, out}

MCFold == [name \in MCNames |-> IF name = SRC THEN src ELSE name]

(* Six calls of one step: a search of a tree, an edit and a read of a file in *)
(* it (spelled in two ways), a write elsewhere, a call that touches no file,  *)
(* and one that may touch anything.                                           *)
MCAccesses ==
    << {FileAccess("search", <<src>>, TRUE)},
       {FileAccess("readwrite", <<src, out>>, FALSE)},
       {FileAccess("read", <<SRC, EmptyName, out>>, FALSE)},
       {FileAccess("write", <<out>>, FALSE)},
       {},
       {All} >>

MCConflicts ==
    {pair \in Calls \X Calls : Conflict(MCAccesses[pair[1]], MCAccesses[pair[2]])}

-----------------------------------------------------------------------------
Paths == UNION {[1 .. n -> Names \cup {EmptyName}] : n \in 0 .. MaxDepth}
Files == UNION {[1 .. n -> {Fold[name] : name \in Names}] : n \in 0 .. MaxDepth}

Touched(access) == {f \in Files : Touches(access, f)}

(* Two calls conflict exactly when some file is touched by both and written   *)
(* by one: parallel tools never write a file another tool uses, and reads     *)
(* and searches always run in parallel.  On a file system that ignores case,  *)
(* two spellings of a path are one file.  Compared once, in the first state.  *)
ConflictIsSharedWrite ==
    added = 0 =>
    /\ \A left, right \in Accesses(Paths) :
           Conflict({left}, {right})
               <=> /\ Touched(left) \cap Touched(right) # {}
                   /\ Writes(left) \/ Writes(right)
    /\ \A f, g \in [1 .. MaxDepth -> Names] :
           (\A i \in 1 .. MaxDepth : Fold[f[i]] = Fold[g[i]]) =>
               Conflict({FileAccess("write", f, FALSE)}, {FileAccess("read", g, FALSE)})
=============================================================================
