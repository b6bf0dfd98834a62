--------------------------- MODULE CriticalSection ---------------------------
(***************************************************************************)
(* Functions/CriticalSection: the wrapper of a Windows CRITICAL_SECTION, a *)
(* lock its owner may enter again. A lock is a record [owner, depth]: who  *)
(* is inside and how many Lock() calls it has not yet matched. The guard   *)
(* object's constructor is Entered, its destructor is Left.                *)
(***************************************************************************)
EXTENDS Naturals

CONSTANTS
  Threads,
  NoThread       (* The owner of a lock nobody holds; not in Threads.       *)

ASSUME NoThreadAssumption == NoThread \notin Threads

Free == [owner |-> NoThread, depth |-> 0]

Lock == [owner : Threads \cup {NoThread}, depth : Nat]

Holds(l, t) == l.owner = t

(* EnterCriticalSection blocks only while another thread is inside.         *)
CanEnter(l, t) == l.owner \in {t, NoThread}

Entered(l, t) == [owner |-> t, depth |-> l.depth + 1]

(* LeaveCriticalSection frees the lock with the last matching call.         *)
Left(l) == IF l.depth = 1 THEN Free ELSE [l EXCEPT !.depth = @ - 1]
=============================================================================
