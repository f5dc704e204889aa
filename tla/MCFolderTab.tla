---------------------------- MODULE MCFolderTab ------------------------------
(* Threads are interchangeable.                                                *)
EXTENDS FolderTab, TLC

CONSTANTS t1, t2

ThreadSymmetry == Permutations(Threads)
=============================================================================
