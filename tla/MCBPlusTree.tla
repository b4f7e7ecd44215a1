---------------------------- MODULE MCBPlusTree ----------------------------
(***************************************************************************)
(* A small tree: nodes of at most two keys, so that five keys build three  *)
(* levels, every lender and every merge.  Neighbours hold different        *)
(* values, and one key is also overwritten by another value.               *)
(***************************************************************************)
EXTENDS BPlusTree

CONSTANTS v, w, s

MCEntries == {<<1, v>>, <<2, w>>, <<3, v>>, <<3, w>>, <<4, w>>, <<5, v>>}

MCEntriesAlike == Key \X {v}

=============================================================================
