----------------------------- MODULE MemoryPool -----------------------------
(***************************************************************************)
(* Functions/MemoryPool/MemoryPool.h: the operator new and delete that     *)
(* CMemoryManager gives a class, over a CMemoryPool whose free blocks form *)
(* a list threaded through the blocks themselves: the first word of a free *)
(* block is the address of the next one, the first word of a block in use  *)
(* is the client's data. A chunk of POOL_MAX_SIZE blocks is allocated when *)
(* the list is empty and is never given back.                              *)
(*                                                                         *)
(* The i-th block of the c-th chunk is <<c, i>>. The clients obey the      *)
(* language's rules: they delete and write only blocks they hold.          *)
(***************************************************************************)
EXTENDS Integers, Sequences

CONSTANTS
  Threads, NoThread,
  POOL_MAX_SIZE,  (* iMaxPoolCount: blocks of a chunk.                      *)
  MAX_CHUNKS,     (* Chunks that fit in memory: then new uint8_t[] throws.  *)
  Null, Garbage   (* The null pointer; a client's data in the first word.   *)

ASSUME PoolAssumption == POOL_MAX_SIZE \in Nat \ {0} /\ MAX_CHUNKS \in Nat

Blocks == (1 .. MAX_CHUNKS) \X (1 .. POOL_MAX_SIZE)

ASSUME ValueAssumption ==
  /\ NoThread \notin Threads
  /\ Null \notin Blocks /\ Garbage \notin Blocks \cup {Null}

VARIABLES
  chunks,    (* Chunks allocated so far.                                    *)
  head,      (* m_pMemoryHead.                                              *)
  link,      (* The first word of every block.                              *)
  pool,      (* Has the first new created m_memoryPool?                     *)
  owner,     (* Who holds m_lock.                                           *)
  pc,        (* Where each thread is.                                       *)
  block,     (* The block its call is about, Null if none.                  *)
  held,      (* The blocks the clients hold.                                *)
  free,      (* History: the blocks given back or never used, in the order  *)
             (* the list should have them.                                  *)
  crashed    (* The program was aborted, or read through a null pointer.    *)

vars == <<chunks, head, link, pool, owner, pc, block, held, free, crashed>>

Allocated == (1 .. chunks) \X (1 .. POOL_MAX_SIZE)

Init ==
  /\ chunks = 0 /\ head = Null
  /\ link = [b \in Blocks |-> Garbage]
  /\ pool = FALSE /\ crashed = FALSE
  /\ owner = NoThread
  /\ pc = [t \in Threads |-> "idle"]
  /\ block = [t \in Threads |-> Null]
  /\ held = {} /\ free = << >>

At(t, l) == pc[t] = l /\ ~crashed
Goto(t, l) == pc' = [pc EXCEPT ![t] = l]

-----------------------------------------------------------------------------
(* The clients.                                                             *)

CallNew(t) ==
  /\ At(t, "idle")
  /\ Goto(t, "newEnter")
  /\ UNCHANGED <<chunks, head, link, pool, owner, block, held, free, crashed>>

(* delete of a block that is held, or of a null pointer.                    *)
CallDelete(t, p) ==
  /\ At(t, "idle")
  /\ held' = held \ {p}
  /\ block' = [block EXCEPT ![t] = p]
  /\ Goto(t, "deleteEnter")
  /\ UNCHANGED <<chunks, head, link, pool, owner, free, crashed>>

(* A constructor or a method writes the object.                             *)
Write(b) ==
  /\ ~crashed
  /\ link' = [link EXCEPT ![b] = Garbage]
  /\ UNCHANGED <<chunks, head, pool, owner, pc, block, held, free, crashed>>

-----------------------------------------------------------------------------
(* operator new.                                                            *)

(* Defect: new without the lock.                                            *)
EnterNewNoLock(t) ==
  /\ At(t, "newEnter")
  /\ Goto(t, "newPool")
  /\ UNCHANGED <<chunks, head, link, pool, owner, block, held, free, crashed>>

EnterNew(t) ==
  /\ At(t, "newEnter")
  /\ owner = NoThread /\ owner' = t
  /\ Goto(t, "newPool")
  /\ UNCHANGED <<chunks, head, link, pool, block, held, free, crashed>>

(* The first call creates the pool; without memory for it, it aborts.       *)
NewPool(t) ==
  /\ At(t, "newPool")
  /\ \/ pool' = TRUE /\ Goto(t, "allocate") /\ UNCHANGED crashed
     \/ ~pool /\ crashed' = TRUE /\ UNCHANGED <<pool, pc>>
  /\ UNCHANGED <<chunks, head, link, owner, block, held, free>>

(* The blocks of a chunk, in the order of their addresses.                  *)
Chunk(c) == [i \in 1 .. POOL_MAX_SIZE |-> <<c, i>>]

(* Defect: a chunk is allocated although blocks are free.                   *)
AllocateAlways(t) ==
  /\ At(t, "allocate")
  /\ chunks < MAX_CHUNKS
  /\ chunks' = chunks + 1
  /\ head' = <<chunks + 1, 1>>
  /\ link' = [b \in Blocks |->
       IF b[1] # chunks + 1 THEN link[b]
       ELSE IF b[2] < POOL_MAX_SIZE THEN <<b[1], b[2] + 1>> ELSE Null]
  /\ free' = Chunk(chunks + 1)
  /\ Goto(t, "take")
  /\ UNCHANGED <<pool, owner, block, held, crashed>>

(* AllocateBlock: thread a list through a fresh chunk. When it throws, the  *)
(* exception is logged and the head stays null.                             *)
AllocateBlock(t) ==
  /\ At(t, "allocate") /\ head = Null
  /\ \/ /\ chunks < MAX_CHUNKS
        /\ chunks' = chunks + 1
        /\ head' = <<chunks + 1, 1>>
        /\ link' = [b \in Blocks |->
             IF b[1] # chunks + 1 THEN link[b]
             ELSE IF b[2] < POOL_MAX_SIZE THEN <<b[1], b[2] + 1>> ELSE Null]
        /\ free' = Chunk(chunks + 1)
     \/ UNCHANGED <<chunks, head, link, free>>
  /\ Goto(t, "take")
  /\ UNCHANGED <<pool, owner, block, held, crashed>>

NoAllocateBlock(t) ==
  /\ At(t, "allocate") /\ head # Null
  /\ Goto(t, "take")
  /\ UNCHANGED <<chunks, head, link, pool, owner, block, held, free, crashed>>

(* Take the first block ...                                                 *)
Take(t) ==
  /\ At(t, "take") /\ head # Null
  /\ block' = [block EXCEPT ![t] = head]
  /\ Goto(t, "advance")
  /\ UNCHANGED <<chunks, head, link, pool, owner, held, free, crashed>>

(* ... and make its first word the new head.                                *)
Advance(t) ==
  /\ At(t, "advance")
  /\ head' = link[block[t]]
  /\ free' = Tail(free)
  /\ Goto(t, "newLeave")
  /\ UNCHANGED <<chunks, link, pool, owner, block, held, crashed>>

(* The head stayed null: Allocate reads its first word all the same.        *)
TakeNull(t) ==
  /\ At(t, "take") /\ head = Null
  /\ crashed' = TRUE
  /\ UNCHANGED <<chunks, head, link, pool, owner, pc, block, held, free>>

LeaveNew(t) ==
  /\ At(t, "newLeave")
  /\ owner' = NoThread
  /\ held' = held \cup {block[t]}
  /\ block' = [block EXCEPT ![t] = Null]
  /\ Goto(t, "idle")
  /\ UNCHANGED <<chunks, head, link, pool, free, crashed>>

-----------------------------------------------------------------------------
(* operator delete.                                                         *)

(* Defect: delete without the lock.                                         *)
EnterDeleteNoLock(t) ==
  /\ At(t, "deleteEnter")
  /\ Goto(t, IF block[t] # Null /\ pool THEN "link" ELSE "deleteLeave")
  /\ UNCHANGED <<chunks, head, link, pool, owner, block, held, free, crashed>>

EnterDelete(t) ==
  /\ At(t, "deleteEnter")
  /\ owner = NoThread /\ owner' = t
  /\ Goto(t, IF block[t] # Null /\ pool THEN "link" ELSE "deleteLeave")
  /\ UNCHANGED <<chunks, head, link, pool, block, held, free, crashed>>

(* Delocate's two writes.                                                   *)
Link(t) ==
  /\ At(t, "link")
  /\ link' = [link EXCEPT ![block[t]] = head]
  /\ Goto(t, "setHead")
  /\ UNCHANGED <<chunks, head, pool, owner, block, held, free, crashed>>

SetHead(t) ==
  /\ At(t, "setHead")
  /\ head' = block[t]
  /\ free' = <<block[t]>> \o free
  /\ block' = [block EXCEPT ![t] = Null]
  /\ Goto(t, "deleteLeave")
  /\ UNCHANGED <<chunks, link, pool, owner, held, crashed>>

LeaveDelete(t) ==
  /\ At(t, "deleteLeave")
  /\ owner' = NoThread
  /\ Goto(t, "idle")
  /\ UNCHANGED <<chunks, head, link, pool, block, held, free, crashed>>

Step(t) ==
  \/ EnterNew(t) \/ NewPool(t) \/ AllocateBlock(t) \/ NoAllocateBlock(t)
  \/ Take(t) \/ Advance(t) \/ TakeNull(t) \/ LeaveNew(t)
  \/ EnterDelete(t) \/ Link(t) \/ SetHead(t) \/ LeaveDelete(t)

Next ==
  \/ \E b \in held : Write(b)
  \/ \E t \in Threads :
       Step(t) \/ CallNew(t) \/ \E p \in held \cup {Null} : CallDelete(t, p)

Spec == Init /\ [][Next]_vars

-----------------------------------------------------------------------------
(* Properties.                                                              *)

(* The range of every variable.                                             *)
TypeOK ==
  /\ chunks \in 0 .. MAX_CHUNKS
  /\ head \in Blocks \cup {Null}
  /\ link \in [Blocks -> Blocks \cup {Null, Garbage}]
  /\ pool \in BOOLEAN /\ crashed \in BOOLEAN
  /\ owner \in Threads \cup {NoThread}
  /\ pc \in [Threads ->
       {"idle", "newEnter", "newPool", "allocate", "take", "advance",
        "newLeave", "deleteEnter", "link", "setHead", "deleteLeave"}]
  /\ block \in [Threads -> Blocks \cup {Null}]
  /\ held \in SUBSET Blocks
  /\ free \in Seq(Blocks)

FreeBlocks == {free[i] : i \in 1 .. Len(free)}

(* In the hands of a call. One that only looks at the head has taken none.  *)
InTransit == {block[t] : t \in {u \in Threads : pc[u] # "advance"}} \ {Null}

(* A block is in one place: on the free list once, or with one client, or   *)
(* in the hands of one call. So new never returns a block somebody still    *)
(* holds, whatever calls and writes came before (MemoryPool.h:47-60).       *)
SingleOwner ==
  /\ FreeBlocks \cap held = {} /\ FreeBlocks \cap InTransit = {}
  /\ held \cap InTransit = {}
  /\ \A i, j \in 1 .. Len(free) : free[i] = free[j] => i = j
  /\ \A s, t \in Threads : block[s] = block[t] /\ block[s] # Null => s = t

(* No block of a chunk is ever lost to the program.                         *)
NoBlockLost == Allocated = FreeBlocks \cup held \cup InTransit

(* From the head, the links visit the free blocks and end in null: the data *)
(* a client writes never becomes a pointer of the list.                     *)
FreeListIntact ==
  /\ head = IF free = << >> THEN Null ELSE free[1]
  /\ \A i \in 1 .. Len(free) :
       link[free[i]] = IF i < Len(free) THEN free[i + 1] ELSE Null
=============================================================================
