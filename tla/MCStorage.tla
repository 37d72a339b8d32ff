------------------------------ MODULE MCStorage ------------------------------
(***************************************************************************)
(* The storage layer beside the key-value store, and the memory it lives   *)
(* in: slotted pages, the LSM engine, the page cache, the index registry,  *)
(* the skip-list indexes, session arenas and the checked allocator, the    *)
(* page and run-length codecs, and the escapes of exported strings.  These *)
(* parts do not call each other; a behaviour exercises one of them (part), *)
(* and the others keep their initial state.                                *)
(***************************************************************************)
EXTENDS BufferPool, Encodings, IndexManager, LsmTree, Memory, SkipIndex, SlottedPage, TLC

VARIABLE part

\* Keys 1 and 2 of the LSM tree share a bloom bit; two flushes.
Hash1 == <<0, 1, 2>>
Hash2 == <<1, 0, 2>>

\* On a slotted page of 12 bytes three records of up to three bytes do not fit
\* together.  The page cache has three pages of up to two cells in two frames; in the
\* registry two threads create, drop and use two indexes of one table.  The
\* skip lists two indexes on one column, four rows, every choice of levels.  The
\* checked allocator has two threads and a table of two records that starts with one.

\* The coders have matches of 2 bytes, tokens of 7, windows and bytes of at most 8,
\* runs of 3 and pages of 18 bytes.  Inputs of 14 bytes are the first that are made
\* shorter with a last match that lacks its length byte, those of 16 with one that
\* has it.  The lexer has a word with two rows of its own in the keyword table.
Rows == << <<<<"a">>, "KW_A">>, <<<<"n">>, "KW_N">>, <<<<"a">>, "KW_B">> >>
TextChars == {"'", "\"", "\\", "n", "t", "nl", "cr", "a"}

allvars == <<part, pagevars, lvars, bvars, ivars, ixlvars, mvars, svars, encvars>>

Init ==
  /\ part \in {"page", "lsm", "pool", "registry", "skip", "memory", "safe", "encodings"}
  /\ slotted_page_init /\ LsmInit /\ buffer_pool_init
  /\ index_manager_init /\ skip_init /\ memory_init
  /\ EncInit
  /\ part # "lsm" => engine = "lsm"

Next ==
  /\ UNCHANGED part
  /\ \/ /\ part = "page" /\ PageNext
        /\ UNCHANGED <<lvars, bvars, ivars, ixlvars, mvars, svars, encvars>>
     \/ /\ part = "lsm" /\ LsmNext
        /\ UNCHANGED <<pagevars, bvars, ivars, ixlvars, mvars, svars, encvars>>
     \/ /\ part = "pool" /\ PoolNext
        /\ UNCHANGED <<pagevars, lvars, ivars, ixlvars, mvars, svars, encvars>>
     \/ /\ part = "registry" /\ IndexNext
        /\ UNCHANGED <<pagevars, lvars, bvars, ixlvars, mvars, svars, encvars>>
     \/ /\ part = "skip" /\ SkipNext
        /\ UNCHANGED <<pagevars, lvars, bvars, ivars, mvars, svars, encvars>>
     \/ /\ part = "memory" /\ MemNext
        /\ UNCHANGED <<pagevars, lvars, bvars, ivars, ixlvars, svars, encvars>>
     \/ /\ part = "safe" /\ SafeNext
        /\ UNCHANGED <<pagevars, lvars, bvars, ivars, ixlvars, mvars, encvars>>
     \/ /\ part = "encodings" /\ EncNext
        /\ UNCHANGED <<pagevars, lvars, bvars, ivars, ixlvars, mvars, svars>>

Spec == Init /\ [][Next]_allvars
===============================================================================
