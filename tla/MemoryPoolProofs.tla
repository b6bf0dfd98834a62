-------------------------- MODULE MemoryPoolProofs --------------------------
(***************************************************************************)
(* The theorems about MemoryPool: for any number of threads, any chunk     *)
(* size and any amount of memory, no two clients ever own the same block,  *)
(* no block is lost, and the free list survives what clients write.        *)
(***************************************************************************)
EXTENDS MemoryPool, TLAPS

(* The labels of a thread that is inside the lock.                          *)
Inside == {"newPool", "allocate", "take", "advance", "newLeave",
           "link", "setHead", "deleteLeave"}

(* The lock is held by the one thread inside.                               *)
LockHeld == \A t \in Threads : owner = t <=> pc[t] \in Inside

(* Which calls have a block in hand; Allocate has it before the head moves  *)
(* on, and Delocate has linked it before it becomes the head.               *)
BlockState ==
  \A t \in Threads :
    /\ pc[t] \in {"advance", "newLeave", "link", "setHead"} => block[t] # Null
    /\ block[t] # Null =>
         pc[t] \in {"advance", "newLeave", "deleteEnter", "link", "setHead"}
    /\ pc[t] = "advance" => block[t] = head
    /\ pc[t] = "setHead" => link[block[t]] = head

(* A block exists only once the pool does.                                  *)
PoolState ==
  /\ chunks > 0 => pool
  /\ \A t \in Threads :
       pc[t] \in {"allocate", "take", "advance", "newLeave", "link", "setHead"} => pool

Inv ==
  /\ TypeOK /\ LockHeld /\ BlockState /\ PoolState
  /\ SingleOwner /\ NoBlockLost /\ FreeListIntact

(* A step that changes none of the variables the blocks live in keeps the   *)
(* three block properties.                                                  *)
LEMMA BlocksUntouched ==
  ASSUME SingleOwner, NoBlockLost, FreeListIntact,
         UNCHANGED <<chunks, head, link, block, held, free>>,
         \A t \in Threads : pc[t] = "advance" <=> pc'[t] = "advance"
  PROVE  SingleOwner' /\ NoBlockLost' /\ FreeListIntact'
<1>1. FreeBlocks' = FreeBlocks /\ InTransit' = InTransit /\ Allocated' = Allocated
  BY DEF FreeBlocks, InTransit, Allocated
<1>2. SingleOwner'
  BY <1>1 DEF SingleOwner
<1>3. NoBlockLost'
  BY <1>1 DEF NoBlockLost
<1>4. FreeListIntact'
  BY DEF FreeListIntact
<1> QED BY <1>2, <1>3, <1>4

(* The initial state: no chunk, no block anywhere.                          *)
LEMMA InitInv == Init => Inv
<1> SUFFICES ASSUME Init PROVE Inv
  OBVIOUS
<1>1. TypeOK
  <2>1. chunks \in 0 .. MAX_CHUNKS
    BY PoolAssumption DEF Init
  <2>2. free \in Seq(Blocks)
    BY DEF Init
  <2> QED BY <2>1, <2>2 DEF Init, TypeOK
<1>2. LockHeld /\ BlockState /\ PoolState
  BY ValueAssumption DEF Init, LockHeld, BlockState, PoolState, Inside
<1>3. FreeBlocks = {} /\ InTransit = {} /\ Allocated = {}
  BY DEF Init, FreeBlocks, InTransit, Allocated
<1>4. SingleOwner /\ NoBlockLost /\ FreeListIntact
  BY <1>3 DEF Init, SingleOwner, NoBlockLost, FreeListIntact
<1> QED BY <1>1, <1>2, <1>4 DEF Inv

(* A block in hand is free as long as Allocate only looks at it; otherwise  *)
(* it is in transit. No client holds it.                                    *)
LEMMA InHand ==
  ASSUME Inv, NEW t \in Threads, block[t] # Null
  PROVE  /\ block[t] \in Blocks /\ block[t] \notin held
         /\ pc[t] = "advance" => block[t] \in FreeBlocks
         /\ pc[t] # "advance" => block[t] \in InTransit /\ block[t] \notin FreeBlocks
<1>1. block[t] \in Blocks
  BY DEF Inv, TypeOK
<1>2. CASE pc[t] = "advance"
  <2>1. block[t] = head /\ head # Null
    BY <1>2 DEF Inv, BlockState
  <2>2. free # << >> /\ free \in Seq(Blocks) /\ head = free[1]
    BY <2>1 DEF Inv, TypeOK, FreeListIntact
  <2>3. 1 \in 1 .. Len(free)
    BY <2>2
  <2>4. block[t] \in FreeBlocks
    BY <2>1, <2>2, <2>3 DEF FreeBlocks
  <2> QED BY <1>1, <1>2, <2>4 DEF Inv, SingleOwner
<1>3. CASE pc[t] # "advance"
  <2>1. block[t] \in InTransit
    BY <1>3 DEF InTransit
  <2> QED BY <1>1, <1>3, <2>1 DEF Inv, SingleOwner
<1> QED BY <1>2, <1>3

(* The steps that move no block: calling new, entering it, creating the     *)
(* pool, not allocating, reading the null head, and leaving delete.         *)
LEMMA QuietStepInv ==
  ASSUME Inv, NEW t \in Threads,
         CallNew(t) \/ EnterNew(t) \/ NewPool(t) \/ NoAllocateBlock(t)
           \/ TakeNull(t) \/ LeaveDelete(t)
  PROVE  Inv'
<1> USE DEF CallNew, EnterNew, NewPool, NoAllocateBlock, TakeNull, LeaveDelete,
            At, Goto
<1>1. TypeOK'
  BY DEF Inv, TypeOK
<1>2. LockHeld'
  BY ValueAssumption DEF Inv, TypeOK, LockHeld, Inside
<1>3. BlockState'
  BY DEF Inv, TypeOK, BlockState
<1>4. PoolState'
  BY DEF Inv, TypeOK, PoolState
<1>5. SingleOwner' /\ NoBlockLost' /\ FreeListIntact'
  BY BlocksUntouched DEF Inv, TypeOK
<1> QED BY <1>1, <1>2, <1>3, <1>4, <1>5 DEF Inv

(* A client may write the block it holds: the block is not on the list.     *)
LEMMA WriteInv ==
  ASSUME Inv, NEW b \in held, Write(b)
  PROVE  Inv'
<1> USE DEF Write
<1>0. b \in Blocks /\ link \in [Blocks -> Blocks \cup {Null, Garbage}]
  BY DEF Inv, TypeOK
<1>1. TypeOK'
  BY <1>0 DEF Inv, TypeOK
<1>2. LockHeld' /\ PoolState'
  BY DEF Inv, LockHeld, PoolState
<1>4. \A t \in Threads : block[t] # Null => block[t] # b
  BY InHand
<1>5. BlockState'
  BY <1>0, <1>4 DEF Inv, TypeOK, BlockState
<1>6. SingleOwner' /\ NoBlockLost'
  <2>1. /\ FreeBlocks' = FreeBlocks /\ InTransit' = InTransit
        /\ Allocated' = Allocated
    BY DEF FreeBlocks, InTransit, Allocated
  <2>2. SingleOwner'
    BY <2>1 DEF Inv, SingleOwner
  <2> QED BY <2>1, <2>2 DEF Inv, NoBlockLost
<1>7. \A i \in 1 .. Len(free) : free[i] # b /\ free[i] \in Blocks
  BY DEF Inv, TypeOK, SingleOwner, FreeBlocks
<1>8. FreeListIntact'
  BY <1>0, <1>7 DEF Inv, FreeListIntact
<1> QED BY <1>1, <1>2, <1>5, <1>6, <1>8 DEF Inv

(* delete moves a block from its client to the call.                        *)
LEMMA CallDeleteInv ==
  ASSUME Inv, NEW t \in Threads, NEW p \in held \cup {Null}, CallDelete(t, p)
  PROVE  Inv'
<1> USE DEF CallDelete, At, Goto
<1>1. TypeOK'
  BY DEF Inv, TypeOK
<1>2. LockHeld' /\ PoolState'
  BY DEF Inv, TypeOK, LockHeld, PoolState, Inside
<1>3. block[t] = Null
  BY DEF Inv, BlockState
<1>4. BlockState'
  BY DEF Inv, TypeOK, BlockState
<1>5. InTransit' = InTransit \cup ({p} \ {Null})
  BY <1>3 DEF Inv, TypeOK, InTransit
<1>6. Null \notin held
  BY ValueAssumption DEF Inv, TypeOK
<1>7. FreeBlocks' = FreeBlocks /\ Allocated' = Allocated
  BY DEF FreeBlocks, Allocated
<1>8. NoBlockLost'
  BY <1>5, <1>6, <1>7 DEF Inv, NoBlockLost
<1>9. \A s \in Threads : block[s] # Null => block[s] \notin held
  BY InHand
<1>10. \A s, u \in Threads : block'[s] = block'[u] /\ block'[s] # Null => s = u
  BY <1>9 DEF Inv, TypeOK, SingleOwner
<1>11. SingleOwner'
  BY <1>5, <1>6, <1>7, <1>10 DEF Inv, SingleOwner
<1>12. FreeListIntact'
  BY DEF Inv, FreeListIntact
<1> QED BY <1>1, <1>2, <1>4, <1>8, <1>11, <1>12 DEF Inv

(* Entering delete: a block in hand means that the pool exists.             *)
LEMMA EnterDeleteInv ==
  ASSUME Inv, NEW t \in Threads, EnterDelete(t)
  PROVE  Inv'
<1> USE DEF EnterDelete, At, Goto
<1>1. TypeOK'
  BY DEF Inv, TypeOK
<1>2. LockHeld'
  BY ValueAssumption DEF Inv, TypeOK, LockHeld, Inside
<1>3. block[t] # Null => block[t] \in Allocated
  BY InHand DEF Inv, NoBlockLost
<1>4. block[t] # Null => pool
  BY <1>3 DEF Inv, TypeOK, Allocated, PoolState
<1>5. BlockState'
  BY <1>4 DEF Inv, TypeOK, BlockState
<1>6. PoolState'
  BY DEF Inv, TypeOK, PoolState
<1>7. SingleOwner' /\ NoBlockLost' /\ FreeListIntact'
  BY BlocksUntouched DEF Inv, TypeOK
<1> QED BY <1>1, <1>2, <1>5, <1>6, <1>7 DEF Inv

(* new hands its block to the client.                                       *)
LEMMA LeaveNewInv ==
  ASSUME Inv, NEW t \in Threads, LeaveNew(t)
  PROVE  Inv'
<1> USE DEF LeaveNew, At, Goto
<1>0. block[t] # Null /\ block[t] \in Blocks
  BY DEF Inv, TypeOK, BlockState
<1>1. TypeOK'
  BY <1>0 DEF Inv, TypeOK
<1>2. LockHeld' /\ PoolState'
  BY ValueAssumption DEF Inv, TypeOK, LockHeld, PoolState, Inside
<1>3. BlockState'
  BY DEF Inv, TypeOK, BlockState
<1>4. InTransit' = InTransit \ {block[t]}
  BY <1>0 DEF Inv, TypeOK, SingleOwner, InTransit
<1>5. block[t] \in InTransit
  BY <1>0 DEF InTransit
<1>6. FreeBlocks' = FreeBlocks /\ Allocated' = Allocated
  BY DEF FreeBlocks, Allocated
<1>7. NoBlockLost'
  BY <1>4, <1>5, <1>6 DEF Inv, NoBlockLost
<1>8. \A s, u \in Threads : block'[s] = block'[u] /\ block'[s] # Null => s = u
  BY DEF Inv, TypeOK, SingleOwner
<1>9. SingleOwner'
  BY <1>4, <1>5, <1>6, <1>8 DEF Inv, SingleOwner
<1>10. FreeListIntact'
  BY DEF Inv, FreeListIntact
<1> QED BY <1>1, <1>2, <1>3, <1>7, <1>9, <1>10 DEF Inv

(* The first half of Delocate: the block in hand points to the list, which  *)
(* it is not yet part of.                                                   *)
LEMMA LinkInv ==
  ASSUME Inv, NEW t \in Threads, Link(t)
  PROVE  Inv'
<1> USE DEF Link, At, Goto
<1>0. block[t] # Null /\ block[t] \in Blocks
  BY DEF Inv, TypeOK, BlockState
<1>1. TypeOK'
  BY <1>0 DEF Inv, TypeOK
<1>2. LockHeld' /\ PoolState'
  BY DEF Inv, TypeOK, LockHeld, PoolState, Inside
<1>3. \A s \in Threads : s # t => pc[s] \notin {"setHead", "advance"}
  BY DEF Inv, LockHeld, Inside
<1>4. BlockState'
  BY <1>0, <1>3 DEF Inv, TypeOK, BlockState
<1>5. SingleOwner' /\ NoBlockLost'
  <2>1. /\ FreeBlocks' = FreeBlocks /\ InTransit' = InTransit
        /\ Allocated' = Allocated
    BY DEF FreeBlocks, InTransit, Allocated
  <2>2. SingleOwner'
    BY <2>1 DEF Inv, SingleOwner
  <2> QED BY <2>1, <2>2 DEF Inv, NoBlockLost
<1>6. block[t] \in InTransit
  BY <1>0 DEF InTransit
<1>7. \A i \in 1 .. Len(free) : free[i] # block[t] /\ free[i] \in Blocks
  BY <1>6 DEF Inv, TypeOK, SingleOwner, FreeBlocks
<1>8. FreeListIntact'
  BY <1>0, <1>7 DEF Inv, TypeOK, FreeListIntact
<1> QED BY <1>1, <1>2, <1>4, <1>5, <1>8 DEF Inv

(* The second half of Delocate: the block becomes the front of the list.    *)
LEMMA SetHeadInv ==
  ASSUME Inv, NEW t \in Threads, SetHead(t)
  PROVE  Inv'
<1> USE DEF SetHead, At, Goto
<1>0. /\ block[t] # Null /\ block[t] \in Blocks
      /\ link[block[t]] = head
  BY DEF Inv, TypeOK, BlockState
<1>1. TypeOK'
  BY <1>0 DEF Inv, TypeOK
<1>2. LockHeld' /\ PoolState'
  BY DEF Inv, TypeOK, LockHeld, PoolState, Inside
<1>3. \A s \in Threads : s # t => pc[s] \notin {"setHead", "advance"}
  BY DEF Inv, LockHeld, Inside
<1>4. BlockState'
  BY <1>3 DEF Inv, TypeOK, BlockState
<1>5. /\ Len(free') = Len(free) + 1 /\ Len(free) \in Nat
      /\ free'[1] = block[t]
      /\ \A i \in 1 .. Len(free) : free'[i + 1] = free[i]
  BY <1>0 DEF Inv, TypeOK
<1>6. \A i \in 1 .. Len(free') : i # 1 => /\ i - 1 \in 1 .. Len(free)
                                          /\ free'[i] = free[i - 1]
  BY <1>5
<1>7. FreeBlocks' = FreeBlocks \cup {block[t]}
  <2>1. \A x \in FreeBlocks' : x \in FreeBlocks \cup {block[t]}
    BY <1>5, <1>6 DEF FreeBlocks
  <2>2. \A x \in FreeBlocks : x \in FreeBlocks'
    <3> SUFFICES ASSUME NEW i \in 1 .. Len(free) PROVE free[i] \in FreeBlocks'
      BY DEF FreeBlocks
    <3>1. i + 1 \in 1 .. Len(free') /\ free'[i + 1] = free[i]
      BY <1>5
    <3> QED BY <3>1 DEF FreeBlocks
  <2>3. block[t] \in FreeBlocks'
    BY <1>5 DEF FreeBlocks
  <2> QED BY <2>1, <2>2, <2>3
<1>8. InTransit' = InTransit \ {block[t]} /\ block[t] \in InTransit
  BY <1>0 DEF Inv, TypeOK, SingleOwner, InTransit
<1>9. Allocated' = Allocated
  BY DEF Allocated
<1>10. NoBlockLost'
  BY <1>7, <1>8, <1>9 DEF Inv, NoBlockLost
<1>11. block[t] \notin FreeBlocks /\ block[t] \notin held
  BY <1>8 DEF Inv, SingleOwner
<1>12. \A i, j \in 1 .. Len(free') : free'[i] = free'[j] => i = j
  <2> SUFFICES ASSUME NEW i \in 1 .. Len(free'), NEW j \in 1 .. Len(free'),
                      free'[i] = free'[j]
               PROVE  i = j
    OBVIOUS
  <2>1. \A k \in 1 .. Len(free') : k # 1 => free'[k] # block[t]
    BY <1>6, <1>11 DEF FreeBlocks
  <2>2. CASE i = 1 \/ j = 1
    BY <1>5, <2>1, <2>2
  <2>3. CASE i # 1 /\ j # 1
    <3>1. free[i - 1] = free[j - 1] /\ i - 1 \in 1 .. Len(free)
                                    /\ j - 1 \in 1 .. Len(free)
      BY <1>6, <2>3
    <3>2. i - 1 = j - 1
      BY <3>1 DEF Inv, SingleOwner
    <3> QED BY <3>2
  <2> QED BY <2>2, <2>3
<1>13. \A s, u \in Threads : block'[s] = block'[u] /\ block'[s] # Null => s = u
  BY DEF Inv, TypeOK, SingleOwner
<1>14. SingleOwner'
  BY <1>7, <1>8, <1>11, <1>12, <1>13 DEF Inv, SingleOwner
<1>15. head = IF Len(free) = 0 THEN Null ELSE free[1]
  BY DEF Inv, TypeOK, FreeListIntact
<1>16. \A i \in 1 .. Len(free') :
         link[free'[i]] = IF i < Len(free') THEN free'[i + 1] ELSE Null
  <2> SUFFICES ASSUME NEW i \in 1 .. Len(free')
               PROVE  link[free'[i]] = IF i < Len(free') THEN free'[i + 1] ELSE Null
    OBVIOUS
  <2>1. CASE i = 1
    BY <1>0, <1>5, <1>15, <2>1
  <2>2. CASE i # 1
    <3>1. free'[i] = free[i - 1] /\ i - 1 \in 1 .. Len(free)
      BY <1>6, <2>2
    <3>2. link[free[i - 1]] = IF i - 1 < Len(free) THEN free[(i - 1) + 1] ELSE Null
      BY <3>1 DEF Inv, FreeListIntact
    <3>3. i < Len(free') => free'[i + 1] = free[i]
      BY <1>5
    <3> QED BY <3>1, <3>2, <3>3, <1>5
  <2> QED BY <2>1, <2>2
<1>17. FreeListIntact'
  BY <1>5, <1>16 DEF FreeListIntact
<1> QED BY <1>1, <1>2, <1>4, <1>10, <1>14, <1>17 DEF Inv

(* Looking at the first block: nobody else has looked at it.                *)
LEMMA TakeInv ==
  ASSUME Inv, NEW t \in Threads, Take(t)
  PROVE  Inv'
<1> USE DEF Take, At, Goto
<1>0. block[t] = Null /\ head \in Blocks
  BY DEF Inv, TypeOK, BlockState
<1>1. TypeOK'
  BY <1>0 DEF Inv, TypeOK
<1>2. LockHeld' /\ PoolState'
  BY DEF Inv, TypeOK, LockHeld, PoolState, Inside
<1>3. BlockState'
  BY DEF Inv, TypeOK, BlockState
<1>4. FreeBlocks' = FreeBlocks /\ Allocated' = Allocated
  BY DEF FreeBlocks, Allocated
<1>5. InTransit' = InTransit
  BY <1>0 DEF Inv, TypeOK, InTransit
<1>6. head \in FreeBlocks
  <2>1. free # << >> /\ free \in Seq(Blocks) /\ head = free[1]
    BY DEF Inv, TypeOK, FreeListIntact
  <2> QED BY <2>1 DEF FreeBlocks
<1>7. \A s \in Threads : s # t => pc[s] # "advance"
  BY DEF Inv, LockHeld, Inside
<1>8. \A s \in Threads : block[s] # head
  BY <1>0, <1>6, <1>7, InHand, ValueAssumption
<1>9. \A s, u \in Threads : block'[s] = block'[u] /\ block'[s] # Null => s = u
  BY <1>8 DEF Inv, TypeOK, SingleOwner
<1>10. SingleOwner'
  BY <1>4, <1>5, <1>9 DEF Inv, SingleOwner
<1>11. NoBlockLost'
  BY <1>4, <1>5 DEF Inv, NoBlockLost
<1>12. FreeListIntact'
  BY DEF Inv, FreeListIntact
<1> QED BY <1>1, <1>2, <1>3, <1>10, <1>11, <1>12 DEF Inv

(* Taking the first block off the list.                                     *)
LEMMA AdvanceInv ==
  ASSUME Inv, NEW t \in Threads, Advance(t)
  PROVE  Inv'
<1> USE DEF Advance, At, Goto
<1>0. block[t] = head /\ head # Null
  BY DEF Inv, BlockState
<1>1. free # << >> /\ free \in Seq(Blocks) /\ head = free[1]
  BY <1>0 DEF Inv, TypeOK, FreeListIntact
<1>2. /\ Len(free) \in Nat \ {0}
      /\ Len(free') = Len(free) - 1
      /\ \A i \in 1 .. Len(free') : free'[i] = free[i + 1]
  BY <1>1
<1>3. head \in Blocks /\ \A i \in 1 .. Len(free) : free[i] \in Blocks
  BY <1>1, <1>2
<1>4. link[head] = IF Len(free) > 1 THEN free[2] ELSE Null
  BY <1>1, <1>2 DEF Inv, FreeListIntact
<1>5. head' = IF Len(free) > 1 THEN free[2] ELSE Null
  BY <1>0, <1>4
<1>6. TypeOK'
  <2>1. head' \in Blocks \cup {Null}
    BY <1>2, <1>3, <1>5
  <2>2. free' \in Seq(Blocks)
    BY <1>1
  <2> QED BY <1>3, <2>1, <2>2 DEF Inv, TypeOK
<1>7. LockHeld' /\ PoolState'
  BY DEF Inv, TypeOK, LockHeld, PoolState, Inside
<1>8. \A s \in Threads : s # t => pc[s] \notin {"setHead", "advance"}
  BY DEF Inv, LockHeld, Inside
<1>9. BlockState'
  BY <1>8 DEF Inv, TypeOK, BlockState
<1>10. FreeBlocks = FreeBlocks' \cup {head}
  <2>1. \A x \in FreeBlocks' : x \in FreeBlocks
    BY <1>2 DEF FreeBlocks
  <2>2. head \in FreeBlocks
    BY <1>1, <1>2 DEF FreeBlocks
  <2>3. \A x \in FreeBlocks : x = head \/ x \in FreeBlocks'
    <3> SUFFICES ASSUME NEW i \in 1 .. Len(free), i # 1
                 PROVE  free[i] \in FreeBlocks'
      BY <1>1 DEF FreeBlocks
    <3>1. i - 1 \in 1 .. Len(free') /\ free'[i - 1] = free[i]
      BY <1>2
    <3> QED BY <3>1 DEF FreeBlocks
  <2> QED BY <2>1, <2>2, <2>3
<1>11. head \notin FreeBlocks'
  <2> SUFFICES ASSUME NEW i \in 1 .. Len(free'), free'[i] = head PROVE FALSE
    BY DEF FreeBlocks
  <2>1. i + 1 \in 1 .. Len(free) /\ 1 \in 1 .. Len(free) /\ free[i + 1] = free[1]
    BY <1>1, <1>2
  <2>2. i + 1 = 1
    BY <2>1 DEF Inv, SingleOwner
  <2> QED BY <2>2
<1>12. InTransit' = InTransit \cup {head}
  BY <1>0, <1>3, ValueAssumption DEF Inv, TypeOK, InTransit
<1>13. Allocated' = Allocated
  BY DEF Allocated
<1>14. NoBlockLost'
  BY <1>10, <1>12, <1>13 DEF Inv, NoBlockLost
<1>15. head \notin held
  BY <1>10 DEF Inv, SingleOwner
<1>16. \A i, j \in 1 .. Len(free') : free'[i] = free'[j] => i = j
  <2> SUFFICES ASSUME NEW i \in 1 .. Len(free'), NEW j \in 1 .. Len(free'),
                      free'[i] = free'[j]
               PROVE  i = j
    OBVIOUS
  <2>1. i + 1 \in 1 .. Len(free) /\ j + 1 \in 1 .. Len(free)
        /\ free[i + 1] = free[j + 1]
    BY <1>2
  <2>2. i + 1 = j + 1
    BY <2>1 DEF Inv, SingleOwner
  <2> QED BY <2>2
<1>17. \A s, u \in Threads : block'[s] = block'[u] /\ block'[s] # Null => s = u
  BY DEF Inv, SingleOwner
<1>18. SingleOwner'
  BY <1>10, <1>11, <1>12, <1>15, <1>16, <1>17 DEF Inv, SingleOwner
<1>19. FreeListIntact'
  <2>1. head' = IF free' = << >> THEN Null ELSE free'[1]
    <3>1. free' \in Seq(Blocks) /\ Len(free') = Len(free) - 1
      BY <1>1, <1>2
    <3>2. \A s \in Seq(Blocks) : s = << >> <=> Len(s) = 0
      OBVIOUS
    <3> DEFINE f == free'
    <3>3. Len(free) > 1 => f[1] = free[2]
      BY <1>2
    <3>4. f = << >> <=> ~(Len(free) > 1)
      <4> HIDE DEF f
      <4>1. f \in Seq(Blocks) /\ Len(f) = Len(free) - 1
        BY <3>1 DEF f
      <4>2. f = << >> <=> Len(f) = 0
        BY <3>2, <4>1
      <4> QED BY <1>2, <4>1, <4>2
    <3> QED BY <1>5, <3>3, <3>4
  <2>2. ASSUME NEW i \in 1 .. Len(free')
        PROVE  link[free'[i]] = IF i < Len(free') THEN free'[i + 1] ELSE Null
    <3>1. i + 1 \in 1 .. Len(free) /\ free'[i] = free[i + 1]
      BY <1>2
    <3>2. link[free[i + 1]]
            = IF i + 1 < Len(free) THEN free[(i + 1) + 1] ELSE Null
      BY <3>1 DEF Inv, FreeListIntact
    <3>3. i < Len(free') => free'[i + 1] = free[(i + 1) + 1]
      BY <1>2
    <3> QED BY <3>1, <3>2, <3>3, <1>2
  <2> QED BY <2>1, <2>2 DEF FreeListIntact
<1> QED BY <1>6, <1>7, <1>9, <1>14, <1>18, <1>19 DEF Inv

(* Growing: the list was empty, and the blocks of the fresh chunk are       *)
(* nowhere else yet. When memory has run out nothing changes.               *)
LEMMA AllocateBlockInv ==
  ASSUME Inv, NEW t \in Threads, AllocateBlock(t)
  PROVE  Inv'
<1> USE DEF AllocateBlock, At, Goto
<1>1. LockHeld'
  BY DEF Inv, TypeOK, LockHeld, Inside
<1>2. PoolState'
  BY DEF Inv, TypeOK, PoolState
<1>3. \A s \in Threads : s # t => pc[s] \notin {"setHead", "advance"}
  BY DEF Inv, LockHeld, Inside
<1>4. BlockState'
  BY <1>3 DEF Inv, TypeOK, BlockState
<1>5. CASE UNCHANGED <<chunks, head, link, free>>
  <2>1. TypeOK'
    BY <1>5 DEF Inv, TypeOK
  <2>2. SingleOwner' /\ NoBlockLost' /\ FreeListIntact'
    BY <1>5, BlocksUntouched DEF Inv, TypeOK
  <2> QED BY <1>1, <1>2, <1>4, <2>1, <2>2 DEF Inv
<1>6. CASE /\ chunks < MAX_CHUNKS
           /\ chunks' = chunks + 1
           /\ head' = <<chunks + 1, 1>>
           /\ link' = [b \in Blocks |->
                IF b[1] # chunks + 1 THEN link[b]
                ELSE IF b[2] < POOL_MAX_SIZE THEN <<b[1], b[2] + 1>> ELSE Null]
           /\ free' = Chunk(chunks + 1)
  <2> DEFINE c == chunks + 1
  <2>1. c \in 1 .. MAX_CHUNKS /\ chunks \in Nat /\ POOL_MAX_SIZE \in Nat \ {0}
    BY <1>6, PoolAssumption DEF Inv, TypeOK
  <2>2. \A i \in 1 .. POOL_MAX_SIZE : <<c, i>> \in Blocks
    BY <2>1 DEF Blocks
  <2>3. /\ Len(free') = POOL_MAX_SIZE
        /\ \A i \in 1 .. POOL_MAX_SIZE : free'[i] = <<c, i>>
        /\ free' \in Seq(Blocks)
    BY <1>6, <2>1, <2>2 DEF Chunk
  <2>4. \A i \in 1 .. POOL_MAX_SIZE :
          link'[<<c, i>>] = IF i < POOL_MAX_SIZE THEN <<c, i + 1>> ELSE Null
    BY <1>6, <2>2
  <2>5. TypeOK'
    <3>1. head' \in Blocks
      BY <1>6, <2>1, <2>2
    <3>2. ASSUME NEW b \in Blocks
          PROVE  link'[b] \in Blocks \cup {Null, Garbage}
      <4>1. CASE b[1] # c
        BY <1>6, <4>1 DEF Inv, TypeOK
      <4>2. CASE b[1] = c
        <5>1. b[2] \in 1 .. POOL_MAX_SIZE /\ b = <<c, b[2]>>
          BY <4>2 DEF Blocks
        <5>2. b[2] < POOL_MAX_SIZE => b[2] + 1 \in 1 .. POOL_MAX_SIZE
          BY <2>1, <5>1
        <5> QED BY <1>6, <2>2, <4>2, <5>2
      <4> QED BY <4>1, <4>2
    <3>3. link' \in [Blocks -> Blocks \cup {Null, Garbage}]
      BY <1>6, <3>2
    <3> QED BY <1>6, <2>1, <2>3, <3>1, <3>3 DEF Inv, TypeOK
  <2>6. FreeBlocks = {} /\ free = << >>
    BY ValueAssumption DEF Inv, TypeOK, FreeListIntact, FreeBlocks
  <2>7. FreeBlocks' = {<<c, i>> : i \in 1 .. POOL_MAX_SIZE}
    BY <2>3 DEF FreeBlocks
  <2>8. Allocated' = Allocated \cup FreeBlocks'
    <3>1. \A k : k \in 1 .. c <=> k \in 1 .. chunks \/ k = c
      BY <2>1
    <3> QED BY <1>6, <2>7, <3>1 DEF Allocated
  <2>9. Allocated \cap FreeBlocks' = {}
    BY <2>1, <2>7 DEF Allocated
  <2>10. InTransit' = InTransit
    BY DEF InTransit
  <2>11. Allocated = held \cup InTransit
    BY <2>6 DEF Inv, NoBlockLost
  <2>12. NoBlockLost'
    BY <2>8, <2>10, <2>11 DEF NoBlockLost
  <2>13. SingleOwner'
    BY <2>3, <2>9, <2>10, <2>11 DEF Inv, SingleOwner
  <2>14. FreeListIntact'
    <3>1. head' = free'[1] /\ free' # << >>
      BY <1>6, <2>1, <2>3
    <3>2. \A i \in 1 .. POOL_MAX_SIZE : i < POOL_MAX_SIZE
            => i + 1 \in 1 .. POOL_MAX_SIZE
      BY <2>1
    <3> QED BY <2>3, <2>4, <3>1, <3>2 DEF FreeListIntact
  <2> QED BY <1>1, <1>2, <1>4, <2>5, <2>12, <2>13, <2>14 DEF Inv
<1> QED BY <1>5, <1>6

(* The invariant is inductive: every step of every thread keeps it.         *)
THEOREM Invariant == Spec => []Inv
<1>1. Inv /\ [Next]_vars => Inv'
  <2> SUFFICES ASSUME Inv, [Next]_vars PROVE Inv'
    OBVIOUS
  <2>1. CASE UNCHANGED vars
    <3>1. TypeOK' /\ LockHeld' /\ BlockState' /\ PoolState'
      BY <2>1 DEF vars, Inv, TypeOK, LockHeld, BlockState, PoolState
    <3>2. SingleOwner' /\ NoBlockLost' /\ FreeListIntact'
      BY <2>1, BlocksUntouched DEF vars, Inv
    <3> QED BY <3>1, <3>2 DEF Inv
  <2>2. ASSUME NEW b \in held, Write(b) PROVE Inv'
    BY <2>2, WriteInv
  <2>3. ASSUME NEW t \in Threads, NEW p \in held \cup {Null}, CallDelete(t, p)
        PROVE  Inv'
    BY <2>3, CallDeleteInv
  <2>4. ASSUME NEW t \in Threads, CallNew(t) PROVE Inv'
    BY <2>4, QuietStepInv
  <2>5. ASSUME NEW t \in Threads, Step(t) PROVE Inv'
    BY <2>5, QuietStepInv, AllocateBlockInv, TakeInv, AdvanceInv, LeaveNewInv,
       EnterDeleteInv, LinkInv, SetHeadInv DEF Step
  <2> QED BY <2>1, <2>2, <2>3, <2>4, <2>5 DEF Next
<1> QED BY InitInv, <1>1, PTL DEF Spec

(* Every variable stays in its range.                                       *)
THEOREM TypeCorrect == Spec => []TypeOK
<1>1. Inv => TypeOK
  BY DEF Inv
<1> QED BY Invariant, <1>1, PTL

(* new never returns a block that is still held, freed twice or free        *)
(* (MemoryPool.h:47-60): every block is in one place.                       *)
THEOREM BlocksHaveOneOwner == Spec => []SingleOwner
<1>1. Inv => SingleOwner
  BY DEF Inv
<1> QED BY Invariant, <1>1, PTL

(* Every block of every chunk is free, held, or in the hands of a call.     *)
THEOREM BlocksAreNeverLost == Spec => []NoBlockLost
<1>1. Inv => NoBlockLost
  BY DEF Inv
<1> QED BY Invariant, <1>1, PTL

(* The list threaded through the free blocks is intact in every state,      *)
(* although the clients write the same words while they hold the blocks.    *)
THEOREM FreeListStaysIntact == Spec => []FreeListIntact
<1>1. Inv => FreeListIntact
  BY DEF Inv
<1> QED BY Invariant, <1>1, PTL
=============================================================================
