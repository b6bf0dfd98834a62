----------------------------- MODULE ThreadPool -----------------------------
(***************************************************************************)
(* Functions/ThreadPool: a queue of jobs, the workers that run them and a  *)
(* thread that hands the results, kept as futures on two linked lists, to  *)
(* the application: EnqueueJob appends to the stock list, the collecting   *)
(* thread walks the processing list and swaps the two when it is empty.    *)
(*                                                                         *)
(* A job is a packaged task and its future; the job queue is used under    *)
(* m_workerThreadMutex only. A thread that waits on a condition variable   *)
(* is "asleep" from when it has given up the mutex until it is notified,   *)
(* or for no reason. Nothing is said of the collecting thread after it has *)
(* followed a node that was freed and used again: it has "strayed".        *)
(***************************************************************************)
EXTENDS RingQueue, CircularLinkedList, Functions

CONSTANTS Callers, Workers, StockHead, ProcessingHead

ASSUME HeadAssumption ==
  {StockHead, ProcessingHead} \subseteq Nodes /\ StockHead # ProcessingHead

VARIABLES
  job,         (* How far each job is.                                      *)
  jobs,        (* m_jobQueue.                                               *)
  caller,      (* Threads in EnqueueJob: pc, job and its node.              *)
  worker,      (* WorkerThread: pc and job.                                 *)
  collector,   (* FutureProcessingThread: pc and the iterator (it).         *)
  mem, free,   (* The heap of the nodes; the pool's list of free blocks.    *)
  stock,       (* *m_pFutureStockList.                                      *)
  processing,  (* *m_pFutureProcessingList.                                 *)
  stopping,    (* m_bStopAllWorkerThread.                                   *)
  dtor,        (* Where the destructor is.                                  *)
  missed       (* History: workers the destructor did not wake.             *)

lists == <<mem, free, stock, processing>>
life == <<stopping, dtor, missed>>
poolVars == <<job, jobs, caller, worker, collector, lists, life>>

NoJob == Null

(* The first chunk of the pool, in any order, without the two heads.        *)
FreshBlocks ==
  LET blocks == Nodes \ {StockHead, ProcessingHead}
  IN  CHOOSE f \in Bijection(1 .. Cardinality(blocks), blocks) : TRUE

IdleCaller == [pc |-> "idle", job |-> NoJob, node |-> NoNode]

ThreadPoolInit ==
  /\ job = [j \in Data |-> "new"]
  /\ jobs = NewQueue
  /\ caller = [c \in Callers |-> IdleCaller]
  /\ worker = [w \in Workers |-> [pc |-> "lock", job |-> NoJob]]
  /\ collector = [pc |-> "wait", it |-> NoNode]
  /\ mem = [next |-> [n \in Nodes |-> NoNode], prev |-> [n \in Nodes |-> NoNode],
            data |-> [n \in Nodes |-> NoJob]]
  /\ free = FreshBlocks
  /\ stock = NewList(StockHead) /\ processing = NewList(ProcessingHead)
  /\ stopping = FALSE /\ dtor = "alive" /\ missed = {}

(* m_workerThreadMutex is kept by a worker from its test until it sleeps,   *)
(* m_futureStockQueueMutex by a caller while it appends.                    *)
WorkerMutexFree == \A w \in Workers : worker[w].pc # "beforeSleep"
StockMutexFree == \A c \in Callers : caller[c].pc # "link"

-----------------------------------------------------------------------------
(* EnqueueJob.                                                              *)

NewJobs == {j \in Data : job[j] = "new"}

(* Jobs are alike: the next one may as well be given.                       *)
Enqueue(c) ==
  /\ caller[c].pc = "idle" /\ dtor = "alive" /\ NewJobs # {}
  /\ LET j == CHOOSE k \in NewJobs : TRUE
     IN  /\ job' = [job EXCEPT ![j] = "made"]
         /\ caller' = [caller EXCEPT ![c].pc = "push", ![c].job = j]
  /\ UNCHANGED <<jobs, worker, collector, lists, life>>

(* A full queue does not take the job, which nobody looks at.               *)
Push(c) ==
  /\ caller[c].pc = "push" /\ WorkerMutexFree
  /\ LET j == caller[c].job
     IN  IF IsFull(jobs)
           THEN job' = [job EXCEPT ![j] = "dropped"] /\ UNCHANGED jobs
           ELSE job' = [job EXCEPT ![j] = "queued"] /\ jobs' = Pushed(jobs, j)
  /\ caller' = [caller EXCEPT ![c].pc = "notify"]
  /\ UNCHANGED <<worker, collector, lists, life>>

Asleep == {w \in Workers : worker[w].pc = "asleep"}

(* Defect: the workers are not told of the job.                             *)
NotifyNobody(c) ==
  /\ caller[c].pc = "notify"
  /\ caller' = [caller EXCEPT ![c].pc = "alloc"]
  /\ UNCHANGED <<job, jobs, worker, collector, lists, life>>

NotifyOne(c) ==
  /\ caller[c].pc = "notify"
  /\ \/ Asleep = {} /\ UNCHANGED worker
     \/ \E w \in Asleep : worker' = [worker EXCEPT ![w].pc = "lock"]
  /\ caller' = [caller EXCEPT ![c].pc = "alloc"]
  /\ UNCHANGED <<job, jobs, collector, lists, life>>

(* push_back: new node_type, with the stock's mutex taken. The bound: there *)
(* are never more results than the first chunk has blocks.                  *)
Alloc(c) ==
  /\ caller[c].pc = "alloc" /\ StockMutexFree /\ free # << >>
  /\ mem' = Constructed(mem, Head(free), caller[c].job)
  /\ free' = Tail(free)
  /\ caller' = [caller EXCEPT ![c].pc = "link", ![c].node = Head(free)]
  /\ UNCHANGED <<job, jobs, worker, collector, stock, processing, life>>

(* The rest of push_back. When EnqueueJob returns, a task the queue did not *)
(* take is destroyed, which makes its future ready with "broken promise".   *)
Link(c) ==
  /\ caller[c].pc = "link"
  /\ mem' = LinkedBack(mem, stock, caller[c].node)
  /\ stock' = TailAfterPush(stock, caller[c].node)
  /\ job' = IF job[caller[c].job] = "dropped"
              THEN [job EXCEPT ![caller[c].job] = "broken"] ELSE job
  /\ caller' = [caller EXCEPT ![c] = IdleCaller]
  /\ UNCHANGED <<jobs, worker, collector, free, processing, life>>

CallerStep(c) == Push(c) \/ NotifyOne(c) \/ Alloc(c) \/ Link(c)

-----------------------------------------------------------------------------
(* WorkerThread.                                                            *)

WorkerGoto(w, l) == worker' = [worker EXCEPT ![w].pc = l]

TakeJob(w) ==
  /\ ~stopping /\ ~IsEmpty(jobs)
  /\ worker' = [worker EXCEPT ![w] = [pc |-> "run", job |-> FrontElement(jobs)]]
  /\ jobs' = Popped(jobs)

(* The predicate of the wait, and what follows when it holds.               *)
Test(w) ==
  /\ worker[w].pc = "lock" /\ WorkerMutexFree
  /\ \/ stopping /\ WorkerGoto(w, "done") /\ UNCHANGED jobs
     \/ TakeJob(w)
     \/ ~stopping /\ IsEmpty(jobs) /\ WorkerGoto(w, "beforeSleep")
          /\ UNCHANGED jobs
  /\ UNCHANGED <<job, caller, collector, lists, life>>

Sleep(w) ==
  /\ worker[w].pc = "beforeSleep"
  /\ WorkerGoto(w, "asleep")
  /\ UNCHANGED <<job, jobs, caller, collector, lists, life>>

SpuriousWake(w) ==
  /\ worker[w].pc = "asleep"
  /\ WorkerGoto(w, "lock")
  /\ UNCHANGED <<job, jobs, caller, collector, lists, life>>

Run(w) ==
  /\ worker[w].pc = "run"
  /\ job' = [job EXCEPT ![worker[w].job] = "ready"]
  /\ worker' = [worker EXCEPT ![w] = [pc |-> "lock", job |-> NoJob]]
  /\ UNCHANGED <<jobs, caller, collector, lists, life>>

WorkerStep(w) == Test(w) \/ Sleep(w) \/ Run(w)

-----------------------------------------------------------------------------
(* FutureProcessingThread. Nobody notifies it: its wait_for looks at the    *)
(* lists when it begins and when the time is over.                          *)

CollectorGoto(l, n) == collector' = [pc |-> l, it |-> n]

Swap ==
  /\ collector.pc = "wait" /\ StockMutexFree
  /\ IF ~IsEmptyList(mem, processing)
       THEN CollectorGoto("visit", Begin(mem, processing))
            /\ UNCHANGED <<stock, processing>>
     ELSE IF IsEmptyList(mem, stock)
       THEN CollectorGoto("check", NoNode) /\ UNCHANGED <<stock, processing>>
     ELSE /\ processing' = stock /\ stock' = processing
          /\ CollectorGoto("visit", Begin(mem, stock))
  /\ UNCHANGED <<job, jobs, caller, worker, mem, free, life>>

(* One node of the walk. A result that is ready is handed out and its node  *)
(* erased and freed; get() throws for a task that was destroyed unrun.      *)
Visit ==
  /\ collector.pc = "visit"
  /\ LET n == collector.it
         j == mem.data[n]
     IN  IF n = End(mem, processing)
           THEN CollectorGoto("check", NoNode)
                /\ UNCHANGED <<job, mem, free, processing>>
         ELSE IF job[j] = "ready"
           THEN /\ job' = [job EXCEPT ![j] = "collected"]
                /\ mem' = Erased(mem, n) /\ free' = <<n>> \o free
                /\ processing' = TailAfterErase(mem, processing, n)
                /\ CollectorGoto("advance", n)
         ELSE /\ IF job[j] = "broken" THEN CollectorGoto("terminated", n)
                                      ELSE CollectorGoto("visit", mem.next[n])
              /\ UNCHANGED <<job, mem, free, processing>>
  /\ UNCHANGED <<jobs, caller, worker, stock, life>>

FreeNodes == Range(free)

(* ++it, on the node that was freed.                                        *)
Advance ==
  /\ collector.pc = "advance"
  /\ IF collector.it \in FreeNodes
       THEN CollectorGoto("visit", mem.next[collector.it])
       ELSE CollectorGoto("strayed", collector.it)
  /\ UNCHANGED <<job, jobs, caller, worker, lists, life>>

CheckStop ==
  /\ collector.pc = "check"
  /\ CollectorGoto(IF stopping THEN "done" ELSE "wait", NoNode)
  /\ UNCHANGED <<job, jobs, caller, worker, lists, life>>

CollectorStep == Swap \/ Visit \/ Advance \/ CheckStop

-----------------------------------------------------------------------------
(* The destructor; nobody is in EnqueueJob, or will be.                     *)

Stop ==
  /\ dtor = "alive" /\ \A c \in Callers : caller[c].pc = "idle"
  /\ stopping' = TRUE /\ dtor' = "notify"
  /\ UNCHANGED <<job, jobs, caller, worker, collector, lists, missed>>

(* Defect: notify_one.                                                      *)
NotifyAllIsOne ==
  /\ dtor = "notify"
  /\ \/ Asleep = {} /\ UNCHANGED worker
     \/ \E w \in Asleep : worker' = [worker EXCEPT ![w].pc = "lock"]
  /\ missed' = {w \in Workers : worker[w].pc = "beforeSleep"}
  /\ dtor' = "join"
  /\ UNCHANGED <<job, jobs, caller, collector, lists, stopping>>

(* The flag was set without the mutex, so a worker may still be on its way  *)
(* to sleep: the notification is not for it.                                *)
NotifyAll ==
  /\ dtor = "notify"
  /\ worker' = [w \in Workers |->
       IF w \in Asleep THEN [worker[w] EXCEPT !.pc = "lock"] ELSE worker[w]]
  /\ missed' = {w \in Workers : worker[w].pc = "beforeSleep"}
  /\ dtor' = "join"
  /\ UNCHANGED <<job, jobs, caller, collector, lists, stopping>>

Join ==
  /\ dtor = "join" /\ collector.pc = "done"
  /\ \A w \in Workers : worker[w].pc = "done"
  /\ dtor' = "clear"
  /\ UNCHANGED <<job, jobs, caller, worker, collector, lists, stopping, missed>>

(* The nodes ClearAllFutureQueue frees: ++ on the first one, just erased,   *)
(* leads back to the head, so there is no second one.                       *)
ClearedFirst(l) == IF IsEmptyList(mem, l) THEN << >> ELSE <<Begin(mem, l)>>

(* Nobody reads the lists again: their links are left as they are.          *)
Clear ==
  /\ dtor = "clear"
  /\ free' = ClearedFirst(stock) \o ClearedFirst(processing) \o free
  /\ dtor' = "done"
  /\ UNCHANGED <<job, jobs, caller, worker, collector, mem, stock, processing,
                 stopping, missed>>

DtorStep == NotifyAll \/ Join \/ Clear

-----------------------------------------------------------------------------
ThreadPoolNext ==
  \/ \E c \in Callers : CallerStep(c) \/ Enqueue(c)
  \/ \E w \in Workers : WorkerStep(w) \/ SpuriousWake(w)
  \/ CollectorStep \/ DtorStep \/ Stop

(* terminate() ends the program.                                            *)
Running == collector.pc # "terminated"

ThreadPoolSpec == ThreadPoolInit /\ [][Running /\ ThreadPoolNext]_poolVars

(* Every thread runs, and the jobs end. Nobody has to call EnqueueJob or    *)
(* the destructor, and no wait ends for no reason.                          *)
FairSpec ==
  /\ ThreadPoolSpec
  /\ \A c \in Callers : WF_poolVars(Running /\ CallerStep(c))
  /\ \A w \in Workers : WF_poolVars(Running /\ WorkerStep(w))
  /\ WF_poolVars(Running /\ CollectorStep)
  /\ WF_poolVars(Running /\ DtorStep)

-----------------------------------------------------------------------------
(* Properties.                                                              *)

Linked == {c \in Callers : caller[c].pc = "link"}

Kept == NodesOf(mem, stock) \cup NodesOf(mem, processing)

(* No result is lost between the two lists, however pushes, swaps and       *)
(* erasures interleave: every node that is not free is on exactly one list  *)
(* (or about to be), with a future that was not handed out, and each list   *)
(* ends at its tail. It holds until the destructor clears the lists         *)
(* (ThreadPool.hpp:57-59, 87-96, CircularLinkedList.hpp:54-70, 97-114).     *)
ResultsKept ==
  dtor # "done" =>
    /\ NodesOf(mem, stock) \cap NodesOf(mem, processing) = {}
    /\ Kept = Nodes \ (FreeNodes \cup {StockHead, ProcessingHead}
                         \cup {caller[c].node : c \in Linked})
    /\ \A n \in Kept : job[mem.data[n]] # "collected"
    /\ \A l \in {stock, processing} : End(mem, l) \in {l.head, NoNode}

(* The walk goes wrong in one way only: the node it has just freed is used  *)
(* again before it is left. Otherwise the iterator is on the processing     *)
(* list, at its head, or on the freed node (ThreadPool.hpp:92-98).          *)
WalkStaysOnList ==
  collector.pc = "visit" =>
    collector.it \in {processing.head} \cup NodesOf(mem, processing)

Failed == collector.pc \in {"strayed", "terminated"}

(* Every job that was queued is run and its result handed out, without a    *)
(* notification to the collecting thread and although it walks a list only  *)
(* in part, unless the pool is stopped or the collecting thread has failed  *)
(* (ThreadPool.hpp:65-104).                                                 *)
QueuedIsCollected ==
  \A j \in Data : job[j] = "queued" ~> (job[j] = "collected" \/ stopping \/ Failed)

(* The destructor returns, unless its notification missed a worker or the   *)
(* collecting thread has failed (ThreadPool.hpp:30-40).                     *)
DestructorReturns ==
  dtor = "notify" ~> (dtor = "done" \/ missed # {} \/ Failed)
=============================================================================
