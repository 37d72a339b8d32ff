------------------------------- MODULE Memory -------------------------------
(***************************************************************************)
(* Both allocators of a server process: the arenas and pools of a session  *)
(* (src/memory.c) and the checked allocator (src/safe_mem.c).  Neither     *)
(* calls the other; they share the process and take turns.                 *)
(***************************************************************************)
EXTENDS SessionMemory, SafeMem

allocvars == <<mvars, svars>>

memory_init == session_memory_create /\ safe_mem_init

MemoryNext ==
  \/ MemNext /\ UNCHANGED svars
  \/ SafeNext /\ UNCHANGED mvars

\* Memory is never handed out twice and the counters of arenas, pools and quota
\* agree with what is held; the checked allocator counts the bytes of the blocks
\* it tracks, and a tracked block keeps its content when it is reallocated.
MemoryAccounted == MemorySound /\ AllocationsAccounted /\ ReallocKeepsContent
=============================================================================
