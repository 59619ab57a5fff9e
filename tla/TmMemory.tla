------------------------------ MODULE TmMemory ------------------------------
(***************************************************************************)
(* The memory services of the porting layers: FreeRTOS takes the blocks    *)
(* from its heap, ThreadX from a block pool, Zephyr from a memory slab.    *)
(* Each keeps its free blocks in a list and gives out the first.           *)
(***************************************************************************)
EXTENDS Kernel

CONSTANTS
    HeapBlocks,  \* how many blocks of 128 bytes FreeRTOS's heap has left
    NoBlock      \* the pointer before the first allocation, and NULL

VARIABLES
    free,       \* the free blocks of the pool, next first
    memory_ptr  \* where the caller's block is

memory == <<free, memory_ptr>>

MaxBlocks == 16 + HeapBlocks

MemoryTypeOK ==
    /\ free \in Seq(1 .. MaxBlocks)
    /\ memory_ptr \in 1 .. MaxBlocks \cup {NoBlock}

Blocks(n) == [b \in 1 .. n |-> b]

\* What the pool consists of once it is there.
freertos_memory_pool == Blocks(HeapBlocks)
\* 2048 bytes hold 15 blocks of 128 bytes with a pointer each.
threadx_memory_pool == Blocks(2048 \div (128 + 4))
zephyr_memory_pool == Blocks(8)

Pool ==
    CASE Port = "FreeRTOS" -> freertos_memory_pool
      [] Port = "ThreadX" -> threadx_memory_pool
      [] Port = "Zephyr" -> zephyr_memory_pool

\* FreeRTOS's heap is there from the start.
MemoryInit ==
    /\ free = IF Port = "FreeRTOS" THEN Pool ELSE <<>>
    /\ memory_ptr = NoBlock

tm_memory_pool_create == free' = Pool /\ UNCHANGED memory_ptr

\* Without waiting; ok is whether it returned TM_SUCCESS.
tm_memory_pool_allocate(ok) ==
    /\ ok = (free # <<>>)
    /\ memory_ptr' = IF ok THEN Head(free) ELSE NoBlock
    /\ free' = IF ok THEN Tail(free) ELSE free

\* Mutant: the block is not given back.
BlockForgotten(ok) == ok = TRUE /\ UNCHANGED memory

\* FreeRTOS frees NULL as a no-op; the other two are never given it.
tm_memory_pool_deallocate(ok) ==
    /\ ok = TRUE
    /\ free' = IF memory_ptr = NoBlock THEN free ELSE <<memory_ptr>> \o free
    /\ UNCHANGED memory_ptr
=============================================================================
