-------------------------- MODULE ReliableUDPProofs --------------------------
(* Theorems about the reliable UDP protocol, for any number of packets, any *)
(* length of the queue and any number of attempts.                          *)
EXTENDS ReliableUDP, RingQueueProofs

(* The packets AddReliableData was given.                                   *)
Given == IF app = "notify" THEN sent + 1 ELSE sent
Taken == {Packets[i] : i \in 1 .. Given}

Queued == Contents(queue)

ProcPlaces ==
  {"loop", "isEmpty", "beforeSleep", "asleep", "pop", "send", "beforeWait", "waiting",
   "woken", "done", "crashed"}

RangeInv ==
  /\ sent \in 0 .. Len(Packets) /\ app \in {"idle", "increment", "push", "notify"}
  /\ app # "idle" => sent < Len(Packets)
  /\ next = IF app \in {"idle", "increment"} THEN sent ELSE sent + 1
  /\ number \in [Data -> Nat]
  /\ queue \in Queue /\ WellFormed(queue)
  /\ proc \in [pc : ProcPlaces, cur : Data \cup {Null}, tries : Nat]
  /\ proc.pc \in {"send", "beforeWait", "waiting", "woken"} => proc.cur # Null
  /\ taker \in [pc : {"idle", "notify", "set"}, num : Int]
  /\ ended \in [acked : SUBSET Data, received : SUBSET Data, timedOut : BOOLEAN]

(* The packets are numbered in the order they are sent: an acknowledgement  *)
(* never moves the counter.                                                 *)
NumberInv ==
  /\ \A i \in 1 .. Given : number[Packets[i]] = i - 1
  /\ app \in {"increment", "push"} => number[Packets[sent + 1]] = sent

(* What waits in the queue is newer than what was sent, and in order.       *)
OrderInv ==
  /\ wire \subseteq Taken /\ (proc.cur # Null => proc.cur \in Taken)
  /\ \A i \in 1 .. Len(Queued) :
       /\ Queued[i] \in Taken
       /\ \A d \in wire : number[d] < number[Queued[i]]
       /\ proc.cur # Null => number[proc.cur] < number[Queued[i]]
  /\ \A i, j \in 1 .. Len(Queued) : i < j => number[Queued[i]] < number[Queued[j]]
  /\ NewestLast

(* What the client is told of, the server has received.                     *)
AckInv ==
  /\ ended.received \subseteq Taken /\ ended.acked \subseteq Taken
  /\ \A n \in acks : \E d \in ended.received : n = number[d] + 1
  /\ taker.pc # "idle" => \E d \in ended.received : taker.num = number[d]
  /\ completed # 0 => \E d \in ended.received : completed = number[d]
  /\ AckMeansReceived

(* What the server expects next is what it accepted last, when it could not *)
(* acknowledge that, or the packet after it.                                *)
ServerInv ==
  /\ expected \in 0 .. Len(Packets) /\ failures \in Nat /\ delivered \in Seq(Data)
  /\ delivered = << >> => expected = 0
  /\ delivered # << >> =>
       \E i \in {expected, expected + 1} \cap 1 .. Len(Packets) :
         delivered[Len(delivered)] = Packets[i]
  /\ DeliveryWithoutGaps

(* Until a wait times out nothing is cached, and only what was acknowledged *)
(* is freed.                                                                *)
HeapInv ==
  ~ended.timedOut =>
    /\ cache = {} /\ cacher \notin {"erase", "crashed"} /\ proc.pc # "crashed"
    /\ proc.cur # Null => proc.cur \in alive
    /\ \A i \in 1 .. Len(Queued) : Queued[i] \in alive

IInv == RangeInv /\ NumberInv /\ OrderInv /\ AckInv /\ ServerInv /\ HeapInv

-----------------------------------------------------------------------------
(* Numbers below HALF are what they are in either type.                     *)
LEMMA SmallNumbers ==
  ASSUME NEW n \in 0 .. HALF - 1
  PROVE  Short(n) = n /\ Unsigned(n) = n
BY BoundAssumption DEF Short, Unsigned

LEMMA PacketFacts ==
  /\ Len(Packets) \in Nat /\ \A i \in 1 .. Len(Packets) : Packets[i] \in Data
  /\ \A i, j \in 1 .. Len(Packets) : Packets[i] = Packets[j] => i = j
BY PacketsAssumption

(* The number of a packet says which it is.                                 *)
LEMMA TakenFacts ==
  ASSUME RangeInv, NumberInv
  PROVE  /\ Given \in 0 .. Len(Packets) /\ Given <= next /\ next <= Len(Packets)
         /\ \A d \in Taken :
              /\ d \in Data /\ d # Null
              /\ number[d] \in 0 .. Given - 1 /\ d = Packets[number[d] + 1]
         /\ \A d, e \in Taken : number[d] = number[e] => d = e
<1>1. /\ Given \in 0 .. Len(Packets) /\ Given <= next /\ next <= Len(Packets)
  BY PacketFacts DEF RangeInv, Given
<1>2. ASSUME NEW d \in Taken
      PROVE  /\ d \in Data /\ d # Null
             /\ number[d] \in 0 .. Given - 1 /\ d = Packets[number[d] + 1]
  <2>1. PICK i \in 1 .. Given : d = Packets[i]
    BY DEF Taken
  <2>2. i \in 1 .. Len(Packets) /\ number[d] = i - 1
    BY <1>1, <2>1, PacketFacts DEF NumberInv
  <2>3. d \in Data
    BY <2>1, <2>2, PacketFacts
  <2> QED BY <1>1, <2>1, <2>2, <2>3, NullAssumption
<1>3. ASSUME NEW d \in Taken, NEW e \in Taken, number[d] = number[e] PROVE d = e
  BY <1>2, <1>3
<1> QED BY <1>1, <1>2, <1>3

LEMMA QueuedType ==
  ASSUME RangeInv
  PROVE  Queued \in Seq(Data) /\ Len(Queued) \in Nat
BY ContentsType DEF RangeInv, Queued

(* What a step that only adds packets and numbers leaves of the parts.      *)
LEMMA OrderFrame ==
  ASSUME IInv, Taken \subseteq Taken', \A d \in Taken : number'[d] = number[d],
         wire' = wire, queue' = queue, proc'.cur = proc.cur
  PROVE  OrderInv'
<1>1. Queued' = Queued
  BY DEF Queued
<1>2. OrderInv
  BY DEF IInv
<1>3. /\ \A i \in 1 .. Len(Queued) : Queued[i] \in Taken
      /\ proc.cur # Null => proc.cur \in Taken
      /\ \A d \in wire : d \in Taken
  BY <1>2 DEF OrderInv
<1> QED BY <1>1, <1>2, <1>3 DEF OrderInv, NewestLast

LEMMA AckFrame ==
  ASSUME IInv, Taken \subseteq Taken', \A d \in Taken : number'[d] = number[d],
         acks' = acks, completed' = completed,
         ended'.acked = ended.acked, ended'.received = ended.received,
         taker'.num = taker.num, taker'.pc # "idle" => taker.pc # "idle"
  PROVE  AckInv'
<1>1. AckInv
  BY DEF IInv
<1>2. \A d \in ended.received \cup ended.acked : d \in Taken
  BY <1>1 DEF AckInv
<1>3. \A d \in ended.received \cup ended.acked : number'[d] = number[d]
  BY <1>2
<1> QED BY <1>1, <1>2, <1>3 DEF AckInv, AckMeansReceived

LEMMA ServerFrame ==
  ASSUME ServerInv, UNCHANGED server
  PROVE  ServerInv'
BY DEF ServerInv, server, DeliveryWithoutGaps

LEMMA SameNumbers ==
  ASSUME RangeInv, NumberInv, UNCHANGED client
  PROVE  /\ NumberInv' /\ Taken' = Taken
         /\ \A d \in Taken : number'[d] = number[d]
BY DEF NumberInv, client, Given, Taken

(* The steps of the threads that only go on: none of them takes a packet.   *)
LEMMA QuietInv ==
  ASSUME IInv, UNCHANGED <<client, queue, completed, wire, acks, server, ended>>,
         \/ proc' = proc
         \/ \E l \in ProcPlaces :
              /\ proc' = [proc EXCEPT !.pc = l]
              /\ l \in {"send", "beforeWait", "waiting", "woken"} => proc.cur # Null,
         \/ taker' = taker
         \/ taker.pc = "notify" /\ taker' = [taker EXCEPT !.pc = "set"],
         ~ended.timedOut =>
           /\ cache' = {} /\ cacher' \notin {"erase", "crashed"} /\ proc'.pc # "crashed"
           /\ alive' = alive
  PROVE  IInv'
<1>1. RangeInv /\ NumberInv /\ HeapInv /\ ServerInv
  BY DEF IInv
<1>2. proc' \in [pc : ProcPlaces, cur : Data \cup {Null}, tries : Nat]
  BY <1>1 DEF RangeInv
<1>3. /\ proc'.cur = proc.cur
      /\ proc'.pc \in {"send", "beforeWait", "waiting", "woken"} => proc'.cur # Null
  BY <1>1 DEF RangeInv
<1>4. /\ taker' \in [pc : {"idle", "notify", "set"}, num : Int]
      /\ taker'.num = taker.num /\ (taker'.pc # "idle" => taker.pc # "idle")
  BY <1>1 DEF RangeInv
<1>5. /\ queue' = queue /\ completed' = completed /\ wire' = wire /\ acks' = acks
      /\ ended' = ended /\ UNCHANGED client /\ UNCHANGED server
  OBVIOUS
<1>6. RangeInv'
  BY <1>1, <1>2, <1>3, <1>4, <1>5 DEF RangeInv, client
<1>7. NumberInv' /\ Taken' = Taken /\ \A d \in Taken : number'[d] = number[d]
  BY <1>1, <1>5, SameNumbers
<1>8. OrderInv'
  BY <1>3, <1>5, <1>7, OrderFrame
<1>9. AckInv'
  BY <1>4, <1>5, <1>7, AckFrame
<1>10. HeapInv'
  BY <1>1, <1>3, <1>5 DEF HeapInv, Queued
<1>11. ServerInv'
  BY <1>1, <1>5, ServerFrame
<1> QED BY <1>6, <1>7, <1>8, <1>9, <1>10, <1>11 DEF IInv

(* Where a packet that is gone is used, a wait had timed out.               *)
LEMMA CrashInv ==
  ASSUME IInv, ProcCrash, proc.cur # Null, proc.cur \notin alive
  PROVE  IInv'
<1>1. ended.timedOut
  BY DEF IInv, HeapInv
<1>2. /\ proc' = [proc EXCEPT !.pc = "crashed"] /\ taker' = taker
      /\ UNCHANGED <<client, queue, completed, wire, acks, server, ended>>
  BY DEF ProcCrash, ProcGoto
<1> QED BY <1>1, <1>2, QuietInv DEF ProcPlaces

LEMMA ProcessorWaits ==
  ASSUME IInv, ProcLoop \/ CheckEmpty \/ BeginWait \/ SpuriousWake
  PROVE  IInv'
<1>1. RangeInv /\ HeapInv
  BY DEF IInv
<1>2. PICK l \in ProcPlaces :
        /\ proc' = [proc EXCEPT !.pc = l] /\ l # "crashed"
        /\ l \in {"send", "beforeWait", "waiting", "woken"} => proc.cur # Null
  <2>1. CASE ProcLoop
    BY <2>1 DEF ProcLoop, ProcGoto, ProcPlaces
  <2>2. CASE CheckEmpty
    BY <2>2 DEF CheckEmpty, ProcGoto, ProcPlaces
  <2>3. CASE BeginWait
    BY <1>1, <2>3 DEF BeginWait, ProcGoto, ProcPlaces, RangeInv
  <2>4. CASE SpuriousWake
    BY <1>1, <2>4 DEF SpuriousWake, ProcGoto, ProcPlaces, RangeInv
  <2> QED BY <2>1, <2>2, <2>3, <2>4
<1>3. /\ UNCHANGED <<client, queue, completed, wire, acks, server, ended>>
      /\ taker' = taker /\ cache' = cache /\ cacher' = cacher /\ alive' = alive
  BY DEF ProcLoop, CheckEmpty, BeginWait, SpuriousWake
<1>4. proc'.pc = l
  BY <1>1, <1>2 DEF RangeInv
<1> QED BY <1>1, <1>2, <1>3, <1>4, QuietInv DEF HeapInv

LEMMA CacherInv ==
  ASSUME IInv,
         CacheLoop \/ CacheWait \/ CacheSpuriousWake \/ Find \/ Erase
  PROVE  IInv'
<1>1. HeapInv
  BY DEF IInv
<1>2. /\ UNCHANGED <<client, queue, completed, wire, acks, server, ended>>
      /\ proc' = proc /\ taker' = taker
  BY DEF CacheLoop, CacheWait, CacheSpuriousWake, Find, Erase
<1>3. CASE CacheLoop \/ CacheWait \/ CacheSpuriousWake
  <2>1. /\ cache' = cache /\ alive' = alive
        /\ cacher' \in {"beforeWait", "done", "waiting", "find"}
    BY <1>3 DEF CacheLoop, CacheWait, CacheSpuriousWake
  <2> QED BY <1>1, <1>2, <2>1, QuietInv DEF HeapInv
<1>4. CASE Find
  <2>1. ~ended.timedOut =>
          cache' = {} /\ cacher' = "loop" /\ alive' = alive
    BY <1>1, <1>4 DEF HeapInv, Find
  <2> QED BY <1>1, <1>2, <2>1, QuietInv DEF HeapInv
<1>5. CASE Erase
  <2>1. ended.timedOut
    BY <1>1, <1>5 DEF HeapInv, Erase
  <2> QED BY <1>2, <2>1, QuietInv
<1> QED BY <1>3, <1>4, <1>5

LEMMA DestructorInv ==
  ASSUME IInv, NotifyComplete \/ Stop \/ NotifyStop \/ Join
  PROVE  IInv'
<1>1. RangeInv /\ HeapInv
  BY DEF IInv
<1>2. /\ UNCHANGED <<client, queue, completed, wire, acks, server, ended>>
      /\ cache' = cache /\ alive' = alive
      /\ cacher' \in {cacher, "find"}
  BY DEF NotifyComplete, Stop, NotifyStop, Join
<1>3. \/ proc' = proc
      \/ proc.pc = "asleep" /\ proc' = [proc EXCEPT !.pc = "pop"]
      \/ proc.pc = "waiting" /\ proc' = [proc EXCEPT !.pc = "woken"]
  BY DEF NotifyComplete, Stop, NotifyStop, Join, Wake
<1>4. \/ proc' = proc
      \/ \E l \in ProcPlaces :
           /\ proc' = [proc EXCEPT !.pc = l]
           /\ l \in {"send", "beforeWait", "waiting", "woken"} => proc.cur # Null
  BY <1>1, <1>3 DEF RangeInv, ProcPlaces
<1>5. proc'.pc # "crashed" \/ proc' = proc
  BY <1>1, <1>3 DEF RangeInv
<1>6. \/ taker' = taker
      \/ taker.pc = "notify" /\ taker' = [taker EXCEPT !.pc = "set"]
  BY DEF NotifyComplete, Stop, NotifyStop, Join
<1> QED BY <1>1, <1>2, <1>4, <1>5, <1>6, QuietInv DEF HeapInv

-----------------------------------------------------------------------------
(* The application's thread.                                                *)

LEMMA SetNumberInv == ASSUME IInv, SetNumber PROVE IInv'
<1>1. RangeInv /\ NumberInv /\ ServerInv /\ HeapInv
  BY DEF IInv
<1>2. /\ app = "idle" /\ sent < Len(Packets) /\ next = sent /\ app' = "increment"
      /\ number' = [number EXCEPT ![Packets[sent + 1]] = Unsigned(sent)]
      /\ sent' = sent /\ next' = next /\ queue' = queue /\ proc' = proc
      /\ taker' = taker /\ completed' = completed /\ wire' = wire /\ acks' = acks
      /\ ended' = ended /\ alive' = alive /\ cache' = cache /\ cacher' = cacher
      /\ UNCHANGED server
  BY <1>1 DEF SetNumber, Current, threads, RangeInv
<1>3. sent \in 0 .. Len(Packets) - 1 /\ sent + 1 \in 1 .. Len(Packets)
  BY <1>1, <1>2, PacketFacts DEF RangeInv
<1>4. Unsigned(sent) = sent
  BY <1>3, SmallNumbers, PacketFacts, BoundAssumption
<1>5. number' \in [Data -> Nat] /\ number'[Packets[sent + 1]] = sent
  BY <1>1, <1>2, <1>3, <1>4, PacketFacts DEF RangeInv
<1>6. Given' = Given /\ Given = sent
  BY <1>2 DEF Given
<1>7. Taken' = Taken
  BY <1>6 DEF Taken
<1>8. \A i \in 1 .. sent : Packets[i] # Packets[sent + 1] /\ Packets[i] \in Data
  BY <1>3, PacketFacts
<1>9. \A d \in Taken : number'[d] = number[d]
  BY <1>1, <1>2, <1>6, <1>8 DEF Taken, RangeInv
<1>10. NumberInv'
  <2>1. \A i \in 1 .. sent : number'[Packets[i]] = i - 1
    BY <1>1, <1>6, <1>9 DEF NumberInv, Taken
  <2> QED BY <1>2, <1>5, <1>6, <2>1 DEF NumberInv
<1>11. RangeInv'
  BY <1>1, <1>2, <1>5 DEF RangeInv
<1>12. OrderInv' /\ AckInv' /\ ServerInv'
  BY <1>1, <1>2, <1>7, <1>9, OrderFrame, AckFrame, ServerFrame
<1>13. HeapInv'
  BY <1>1, <1>2 DEF HeapInv, Queued
<1> QED BY <1>10, <1>11, <1>12, <1>13 DEF IInv

LEMMA IncrementInv == ASSUME IInv, Increment PROVE IInv'
<1>1. RangeInv /\ NumberInv /\ ServerInv /\ HeapInv
  BY DEF IInv
<1>2. /\ app = "increment" /\ app' = "push" /\ next = sent /\ sent < Len(Packets)
      /\ next' = Short(sent + 1)
      /\ sent' = sent /\ number' = number /\ queue' = queue /\ proc' = proc
      /\ taker' = taker /\ completed' = completed /\ wire' = wire /\ acks' = acks
      /\ ended' = ended /\ alive' = alive /\ cache' = cache /\ cacher' = cacher
      /\ UNCHANGED server
  BY <1>1 DEF Increment, threads, RangeInv
<1>3. next' = sent + 1
  <2>1. sent + 1 \in 0 .. HALF - 1
    BY <1>1, <1>2, PacketFacts, BoundAssumption DEF RangeInv
  <2> QED BY <1>2, <2>1, SmallNumbers
<1>4. Taken' = Taken /\ Given' = Given
  BY <1>2 DEF Given, Taken
<1>5. NumberInv'
  BY <1>1, <1>2, <1>4 DEF NumberInv
<1>6. RangeInv'
  BY <1>1, <1>2, <1>3 DEF RangeInv
<1>7. OrderInv' /\ AckInv' /\ ServerInv'
  BY <1>1, <1>2, <1>4, OrderFrame, AckFrame, ServerFrame
<1>8. HeapInv'
  BY <1>1, <1>2 DEF HeapInv, Queued
<1> QED BY <1>5, <1>6, <1>7, <1>8 DEF IInv

(* The packet that is queued is newer than every one before.                *)
LEMMA PushInv == ASSUME IInv, Push PROVE IInv'
<1>1. RangeInv /\ NumberInv /\ OrderInv /\ ServerInv /\ HeapInv
  BY DEF IInv
<1>2. PICK d : d = Packets[sent + 1]
  OBVIOUS
<1>3. /\ app = "push" /\ app' = "notify" /\ sent < Len(Packets) /\ next = sent + 1
      /\ alive' = alive \cup {d}
      /\ queue' = IF IsFull(queue) THEN queue ELSE Pushed(queue, d)
      /\ sent' = sent /\ next' = next /\ number' = number /\ proc' = proc
      /\ taker' = taker /\ completed' = completed /\ wire' = wire /\ acks' = acks
      /\ ended' = ended /\ cache' = cache /\ cacher' = cacher
      /\ UNCHANGED server
  BY <1>1, <1>2 DEF Push, Current, threads, RangeInv
<1>4. sent \in Nat /\ sent + 1 \in 1 .. Len(Packets) /\ d \in Data
  BY <1>1, <1>2, <1>3, PacketFacts DEF RangeInv
<1>5. Given = sent /\ Given' = sent + 1 /\ number[d] = sent
  BY <1>1, <1>2, <1>3 DEF Given, NumberInv
<1>6. Taken' = Taken \cup {d}
  <2>1. 1 .. sent + 1 = (1 .. sent) \cup {sent + 1}
    BY <1>4
  <2> QED BY <1>2, <1>5, <2>1 DEF Taken
<1>7. \A e \in Taken : number[e] \in Nat /\ number[e] < number[d]
  BY <1>1, <1>4, <1>5, TakenFacts
<1>8. /\ queue' \in Queue /\ WellFormed(queue')
      /\ Queued' = Queued \/ Queued' = Append(Queued, d)
  <2>1. CASE IsFull(queue)
    BY <1>1, <1>3, <2>1 DEF RangeInv, Queued
  <2>2. CASE ~IsFull(queue)
    BY <1>1, <1>3, <1>4, <2>2, PushedContents DEF RangeInv, Queued
  <2> QED BY <2>1, <2>2
<1>9. RangeInv'
  BY <1>1, <1>3, <1>8 DEF RangeInv
<1>10. NumberInv'
  <2>1. \A i \in 1 .. sent + 1 : number[Packets[i]] = i - 1
    BY <1>1, <1>2, <1>4, <1>5 DEF NumberInv
  <2> QED BY <1>3, <1>5, <2>1 DEF NumberInv
<1>11. AckInv' /\ ServerInv'
  BY <1>1, <1>3, <1>6, AckFrame, ServerFrame
<1>12. CASE Queued' = Queued
  <2>1. OrderInv'
    BY <1>1, <1>3, <1>6, <1>12 DEF OrderInv, NewestLast
  <2>2. HeapInv'
    BY <1>1, <1>3, <1>12 DEF HeapInv
  <2> QED BY <1>9, <1>10, <1>11, <2>1, <2>2 DEF IInv
<1>13. CASE Queued' = Append(Queued, d)
  <2>1. /\ Len(Queued) \in Nat /\ Len(Queued') = Len(Queued) + 1
        /\ Queued'[Len(Queued) + 1] = d
        /\ \A i \in 1 .. Len(Queued) : Queued'[i] = Queued[i]
    BY <1>1, <1>4, <1>13, QueuedType
  <2>2. /\ wire \subseteq Taken' /\ (proc.cur # Null => proc.cur \in Taken')
        /\ NewestLast'
    BY <1>1, <1>3, <1>6 DEF OrderInv, NewestLast
  <2>3. ASSUME NEW i \in 1 .. Len(Queued')
        PROVE  /\ Queued'[i] \in Taken'
               /\ \A e \in wire : number[e] < number[Queued'[i]]
               /\ proc.cur # Null => number[proc.cur] < number[Queued'[i]]
    <3>1. CASE i \in 1 .. Len(Queued)
      BY <1>1, <1>6, <2>1, <3>1 DEF OrderInv
    <3>2. CASE i = Len(Queued) + 1
      BY <1>1, <1>6, <1>7, <2>1, <3>2 DEF OrderInv
    <3> QED BY <2>1, <3>1, <3>2
  <2>4. ASSUME NEW i \in 1 .. Len(Queued'), NEW j \in 1 .. Len(Queued'), i < j
        PROVE  number[Queued'[i]] < number[Queued'[j]]
    <3>1. i \in 1 .. Len(Queued)
      BY <2>1, <2>4
    <3>2. CASE j \in 1 .. Len(Queued)
      BY <1>1, <2>1, <2>4, <3>1, <3>2 DEF OrderInv
    <3>3. CASE j = Len(Queued) + 1
      BY <1>1, <1>7, <2>1, <3>1, <3>3 DEF OrderInv
    <3> QED BY <2>1, <3>2, <3>3
  <2>5. OrderInv'
    BY <1>3, <2>2, <2>3, <2>4 DEF OrderInv
  <2>6. HeapInv'
    <3>1. ASSUME ~ended.timedOut, NEW i \in 1 .. Len(Queued')
          PROVE  Queued'[i] \in alive'
      <4>1. CASE i \in 1 .. Len(Queued)
        BY <1>1, <1>3, <2>1, <3>1, <4>1 DEF HeapInv
      <4>2. CASE i = Len(Queued) + 1
        BY <1>3, <2>1, <4>2
      <4> QED BY <2>1, <4>1, <4>2
    <3> QED BY <1>1, <1>3, <3>1 DEF HeapInv
  <2> QED BY <1>9, <1>10, <1>11, <2>5, <2>6 DEF IInv
<1> QED BY <1>8, <1>12, <1>13

LEMMA NotifyInv == ASSUME IInv, Notify PROVE IInv'
<1>1. RangeInv /\ NumberInv /\ ServerInv /\ HeapInv
  BY DEF IInv
<1>2. /\ app = "notify" /\ app' = "idle" /\ sent < Len(Packets) /\ next = sent + 1
      /\ sent' = sent + 1 /\ proc' = Wake(proc)
      /\ next' = next /\ number' = number /\ queue' = queue
      /\ taker' = taker /\ completed' = completed /\ wire' = wire /\ acks' = acks
      /\ ended' = ended /\ alive' = alive /\ cache' = cache /\ cacher' = cacher
      /\ UNCHANGED server
  BY <1>1 DEF Notify, RangeInv
<1>3. /\ proc' \in [pc : ProcPlaces, cur : Data \cup {Null}, tries : Nat]
      /\ proc'.cur = proc.cur /\ (proc'.pc = proc.pc \/ proc'.pc = "pop")
  BY <1>1, <1>2 DEF Wake, RangeInv, ProcPlaces
<1>4. Taken' = Taken /\ Given' = Given /\ Given = sent + 1
  BY <1>2 DEF Given, Taken
<1>5. NumberInv'
  BY <1>1, <1>2, <1>4 DEF NumberInv
<1>6. RangeInv'
  <2>1. sent' \in 0 .. Len(Packets)
    BY <1>1, <1>2, PacketFacts DEF RangeInv
  <2>2. proc'.pc \in {"send", "beforeWait", "waiting", "woken"} => proc'.cur # Null
    BY <1>1, <1>3 DEF RangeInv
  <2> QED BY <1>1, <1>2, <1>3, <2>1, <2>2 DEF RangeInv
<1>7. OrderInv' /\ AckInv' /\ ServerInv'
  BY <1>1, <1>2, <1>3, <1>4, OrderFrame, AckFrame, ServerFrame
<1>8. HeapInv'
  BY <1>1, <1>2, <1>3 DEF HeapInv, Queued
<1> QED BY <1>5, <1>6, <1>7, <1>8 DEF IInv

-----------------------------------------------------------------------------
(* The processor's thread.                                                  *)

LEMMA PopInv == ASSUME IInv, Pop PROVE IInv'
<1>1. RangeInv /\ NumberInv /\ OrderInv /\ ServerInv /\ HeapInv
  BY DEF IInv
<1>2. /\ UNCHANGED client /\ UNCHANGED server /\ taker' = taker
      /\ completed' = completed /\ wire' = wire /\ acks' = acks /\ ended' = ended
      /\ alive' = alive /\ cache' = cache /\ cacher' = cacher
  BY DEF Pop
<1>3. CASE IsEmpty(queue)
  <2>1. proc' = [proc EXCEPT !.pc = "loop"] /\ queue' = queue
    BY <1>3 DEF Pop, ProcGoto
  <2>2. "loop" \in ProcPlaces /\ proc'.pc = "loop"
    BY <1>1, <2>1 DEF ProcPlaces, RangeInv
  <2> QED BY <1>1, <1>2, <2>1, <2>2, QuietInv DEF HeapInv
<1>4. CASE ~IsEmpty(queue)
  <2>1. PICK d \in Data : d = Head(Queued) /\ d = FrontElement(queue)
    BY <1>1, <1>4, PoppedContents DEF RangeInv, Queued
  <2>2. /\ proc' = [pc |-> "send", cur |-> d, tries |-> 0] /\ queue' = Popped(queue)
        /\ queue' \in Queue /\ WellFormed(queue') /\ Queued' = Tail(Queued)
        /\ Queued # << >>
    BY <1>1, <1>4, <2>1, PoppedContents, EmptyContents DEF Pop, RangeInv, Queued
  <2>3. d # Null /\ proc'.cur = d /\ proc'.pc = "send"
    BY <2>2, NullAssumption
  <2>4. /\ Len(Queued) \in Nat /\ Len(Queued) >= 1 /\ Len(Queued') = Len(Queued) - 1
        /\ d = Queued[1]
        /\ \A i \in 1 .. Len(Queued) - 1 : Queued'[i] = Queued[i + 1]
    BY <1>1, <2>1, <2>2, QueuedType
  <2>5. RangeInv'
    <3>1. proc' \in [pc : ProcPlaces, cur : Data \cup {Null}, tries : Nat]
      BY <2>2 DEF ProcPlaces
    <3> QED BY <1>1, <1>2, <2>2, <2>3, <3>1 DEF RangeInv, client
  <2>6. NumberInv' /\ Taken' = Taken /\ number' = number
    BY <1>1, <1>2, SameNumbers DEF client
  <2>7. AckInv' /\ ServerInv'
    BY <1>1, <1>2, <2>6, AckFrame, ServerFrame
  <2>8. OrderInv'
    <3>1. wire \subseteq Taken /\ d \in Taken
      BY <1>1, <2>4 DEF OrderInv
    <3>2. ASSUME NEW i \in 1 .. Len(Queued')
          PROVE  /\ Queued'[i] \in Taken /\ number[d] < number[Queued'[i]]
                 /\ \A e \in wire : number[e] < number[Queued'[i]]
      <4>1. i + 1 \in 1 .. Len(Queued) /\ 1 \in 1 .. Len(Queued) /\ 1 < i + 1
            /\ Queued'[i] = Queued[i + 1]
        BY <2>4
      <4> QED BY <1>1, <2>4, <4>1 DEF OrderInv
    <3>3. ASSUME NEW i \in 1 .. Len(Queued'), NEW j \in 1 .. Len(Queued'), i < j
          PROVE  number[Queued'[i]] < number[Queued'[j]]
      <4>1. /\ i + 1 \in 1 .. Len(Queued) /\ j + 1 \in 1 .. Len(Queued)
            /\ i + 1 < j + 1
            /\ Queued'[i] = Queued[i + 1] /\ Queued'[j] = Queued[j + 1]
        BY <2>4, <3>3
      <4> QED BY <1>1, <4>1 DEF OrderInv
    <3>4. \A e \in wire : number[e] <= number[d]
      <4>1. \A e \in wire : number[e] < number[d]
        BY <1>1, <2>4 DEF OrderInv
      <4>2. \A e \in wire : number[e] \in Nat
        BY <1>1, <3>1, TakenFacts
      <4>3. number[d] \in Nat
        BY <1>1 DEF RangeInv
      <4> QED BY <4>1, <4>2, <4>3
    <3> QED BY <1>2, <2>3, <2>6, <3>1, <3>2, <3>3, <3>4 DEF OrderInv, NewestLast
  <2>9. HeapInv'
    <3>1. ASSUME ~ended.timedOut, NEW i \in 1 .. Len(Queued') PROVE Queued'[i] \in alive
      <4>1. i + 1 \in 1 .. Len(Queued) /\ Queued'[i] = Queued[i + 1]
        BY <2>4
      <4> QED BY <1>1, <3>1, <4>1 DEF HeapInv
    <3>2. ~ended.timedOut => d \in alive
      BY <1>1, <2>4 DEF HeapInv
    <3> QED BY <1>1, <1>2, <2>3, <3>1, <3>2 DEF HeapInv
  <2> QED BY <2>5, <2>6, <2>7, <2>8, <2>9 DEF IInv
<1> QED BY <1>3, <1>4

LEMMA SendInv == ASSUME IInv, Send PROVE IInv'
<1>1. RangeInv /\ NumberInv /\ OrderInv /\ ServerInv /\ HeapInv
  BY DEF IInv
<1>2. proc.pc = "send" /\ proc.cur # Null
  BY <1>1 DEF Send, RangeInv
<1>3. CASE proc.cur \notin alive
  BY <1>2, <1>3, CrashInv DEF Send
<1>4. CASE proc.cur \in alive
  <2>1. /\ wire' \subseteq wire \cup {proc.cur}
        /\ proc' = [proc EXCEPT !.pc = "beforeWait", !.tries = @ + 1]
        /\ UNCHANGED client /\ UNCHANGED server /\ taker' = taker /\ queue' = queue
        /\ completed' = completed /\ acks' = acks /\ ended' = ended
        /\ alive' = alive /\ cache' = cache /\ cacher' = cacher
    BY <1>4 DEF Send
  <2>2. /\ proc' \in [pc : ProcPlaces, cur : Data \cup {Null}, tries : Nat]
        /\ proc'.cur = proc.cur /\ proc'.pc = "beforeWait"
    <3>1. /\ proc \in [pc : ProcPlaces, cur : Data \cup {Null}, tries : Nat]
          /\ proc.tries + 1 \in Nat /\ "beforeWait" \in ProcPlaces
      BY <1>1 DEF RangeInv, ProcPlaces
    <3>2. proc' = [proc EXCEPT !.pc = "beforeWait", !.tries = @ + 1]
      BY <2>1
    <3> QED BY <3>1, <3>2
  <2>3. RangeInv'
    BY <1>1, <1>2, <2>1, <2>2 DEF RangeInv, client
  <2>4. NumberInv' /\ Taken' = Taken /\ number' = number
    BY <1>1, <2>1, SameNumbers DEF client
  <2>5. AckInv' /\ ServerInv'
    BY <1>1, <2>1, <2>4, AckFrame, ServerFrame
  <2>6. OrderInv'
    <3>1. Queued' = Queued
      BY <2>1 DEF Queued
    <3>2. proc.cur \in Taken /\ number[proc.cur] \in Nat
      BY <1>1, <1>2, TakenFacts DEF OrderInv
    <3>3. \A d \in wire' : d \in wire \/ d = proc.cur
      BY <2>1
    <3>4. NewestLast'
      BY <1>1, <1>2, <2>2, <2>4, <3>2, <3>3 DEF OrderInv, NewestLast
    <3> QED BY <1>1, <1>2, <2>2, <2>4, <3>1, <3>2, <3>3, <3>4 DEF OrderInv
  <2>7. HeapInv'
    BY <1>1, <2>1, <2>2 DEF HeapInv, Queued
  <2> QED BY <2>3, <2>4, <2>5, <2>6, <2>7 DEF IInv
<1> QED BY <1>3, <1>4

LEMMA TimeoutInv == ASSUME IInv, Timeout PROVE IInv'
<1>1. RangeInv /\ NumberInv /\ OrderInv /\ ServerInv
  BY DEF IInv
<1>2. proc.pc = "waiting" /\ proc.cur # Null
  BY <1>1 DEF Timeout, RangeInv
<1>3. CASE proc.cur \notin alive
  BY <1>2, <1>3, CrashInv DEF Timeout
<1>4. CASE proc.cur \in alive
  <2>1. /\ proc' = Idle \/ proc' = [proc EXCEPT !.pc = "send"]
        /\ ended' = [ended EXCEPT !.timedOut = TRUE]
        /\ UNCHANGED client /\ UNCHANGED server /\ taker' = taker /\ queue' = queue
        /\ completed' = completed /\ acks' = acks /\ wire' = wire
    BY <1>4 DEF Timeout
  <2>2. /\ proc' \in [pc : ProcPlaces, cur : Data \cup {Null}, tries : Nat]
        /\ (proc'.pc = "loop" /\ proc'.cur = Null) \/ proc'.cur = proc.cur
    BY <1>1, <2>1 DEF RangeInv, ProcPlaces, Idle
  <2>3. /\ ended' \in [acked : SUBSET Data, received : SUBSET Data, timedOut : BOOLEAN]
        /\ ended'.acked = ended.acked /\ ended'.received = ended.received
        /\ ended'.timedOut
    BY <1>1, <2>1 DEF RangeInv
  <2>4. RangeInv'
    BY <1>1, <1>2, <2>1, <2>2, <2>3 DEF RangeInv, client
  <2>5. NumberInv' /\ Taken' = Taken /\ number' = number
    BY <1>1, <2>1, SameNumbers DEF client
  <2>6. AckInv' /\ ServerInv'
    BY <1>1, <2>1, <2>3, <2>5, AckFrame, ServerFrame
  <2>7. OrderInv'
    <3>1. Queued' = Queued
      BY <2>1 DEF Queued
    <3> QED BY <1>1, <2>1, <2>2, <2>5, <3>1 DEF OrderInv, NewestLast
  <2> QED BY <2>3, <2>4, <2>5, <2>6, <2>7 DEF IInv, HeapInv
<1> QED BY <1>3, <1>4

(* What is freed as acknowledged has the number of a packet the server saw. *)
LEMMA WokenInv == ASSUME IInv, Woken PROVE IInv'
<1>1. RangeInv /\ NumberInv /\ OrderInv /\ AckInv /\ ServerInv /\ HeapInv
  BY DEF IInv
<1>2. proc.pc = "woken" /\ proc.cur # Null
  BY <1>1 DEF Woken, RangeInv
<1>3. CASE proc.cur \notin alive
  BY <1>2, <1>3, CrashInv DEF Woken
<1>4. CASE proc.cur \in alive
  <2> DEFINE acked == number[proc.cur] = completed
  <2>1. /\ proc' = Idle /\ UNCHANGED client /\ UNCHANGED server /\ taker' = taker
        /\ queue' = queue /\ cache' = cache /\ completed' = completed /\ acks' = acks
        /\ wire' = wire /\ cacher' \in {cacher, "find"}
        /\ \/ /\ number[proc.cur] = completed /\ alive' = alive \ {proc.cur}
              /\ ended' = [ended EXCEPT !.acked = @ \cup {proc.cur}]
           \/ alive' = alive /\ ended' = ended
    BY <1>4 DEF Woken
  <2>2. /\ proc' \in [pc : ProcPlaces, cur : Data \cup {Null}, tries : Nat]
        /\ proc'.pc = "loop" /\ proc'.cur = Null
    BY <2>1 DEF ProcPlaces, Idle
  <2>3. proc.cur \in Taken /\ proc.cur \in Data
    BY <1>1, <1>2, TakenFacts DEF OrderInv
  <2>4. /\ ended' \in [acked : SUBSET Data, received : SUBSET Data, timedOut : BOOLEAN]
        /\ ended'.received = ended.received /\ ended'.timedOut = ended.timedOut
        /\ \/ ended'.acked = ended.acked
           \/ number[proc.cur] = completed /\ ended'.acked = ended.acked \cup {proc.cur}
    BY <1>1, <2>1, <2>3 DEF RangeInv
  <2>5. RangeInv'
    BY <1>1, <2>1, <2>2, <2>4 DEF RangeInv, client
  <2>6. NumberInv' /\ Taken' = Taken /\ number' = number
    BY <1>1, <2>1, SameNumbers DEF client
  <2>7. ServerInv'
    BY <1>1, <2>1, ServerFrame
  <2>8. OrderInv'
    <3>1. Queued' = Queued
      BY <2>1 DEF Queued
    <3> QED BY <1>1, <2>1, <2>2, <2>6, <3>1 DEF OrderInv, NewestLast
  <2>9. AckInv'
    <3>1. number[proc.cur] = completed /\ completed # 0 => proc.cur \in ended.received
      <4> SUFFICES ASSUME number[proc.cur] = completed, completed # 0
                   PROVE  proc.cur \in ended.received
        OBVIOUS
      <4>1. PICK d \in ended.received : completed = number[d]
        BY <1>1 DEF AckInv
      <4>2. d \in Taken /\ number[d] = number[proc.cur]
        BY <1>1, <4>1 DEF AckInv
      <4> QED BY <1>1, <2>3, <4>1, <4>2, TakenFacts
    <3>2. AckMeansReceived'
      BY <1>1, <2>4, <2>6, <3>1 DEF AckInv, AckMeansReceived
    <3>3. ended'.acked \subseteq Taken
      BY <1>1, <2>3, <2>4 DEF AckInv
    <3> QED BY <1>1, <2>1, <2>4, <2>6, <3>2, <3>3 DEF AckInv
  <2>10. HeapInv'
    <3>1. Queued' = Queued
      BY <2>1 DEF Queued
    <3>2. \A i \in 1 .. Len(Queued) : Queued[i] # proc.cur
      <4>1. number[proc.cur] \in Nat
        BY <1>1, <2>3 DEF RangeInv
      <4> QED BY <1>1, <1>2, <4>1 DEF OrderInv
    <3> QED BY <1>1, <2>1, <2>2, <2>4, <3>1, <3>2 DEF HeapInv
  <2> QED BY <2>5, <2>6, <2>7, <2>8, <2>9, <2>10 DEF IInv
<1> QED BY <1>3, <1>4

-----------------------------------------------------------------------------
(* The UDP thread of the client, and the server.                            *)

LEMMA TakeAckInv == ASSUME IInv, NEW n \in acks, TakeAck(n) PROVE IInv'
<1>1. RangeInv /\ NumberInv /\ AckInv /\ ServerInv /\ HeapInv
  BY DEF IInv
<1>2. PICK d \in ended.received : n = number[d] + 1
  BY <1>1 DEF AckInv
<1>3. d \in Taken /\ number[d] \in 0 .. Given - 1 /\ Given <= next
      /\ next <= Len(Packets) /\ Given \in 0 .. Len(Packets)
  BY <1>1, <1>2, TakenFacts DEF AckInv
<1>4. next \in Nat /\ number[d] \in Nat /\ n - 1 = number[d] /\ ~(next <= n - 1)
  BY <1>1, <1>2, <1>3, PacketFacts DEF RangeInv
<1>5. Short(n - 1) = number[d]
  <2>1. number[d] \in 0 .. HALF - 1
    BY <1>3, BoundAssumption, PacketFacts
  <2> QED BY <1>4, <2>1, SmallNumbers
<1>6. /\ next' = next /\ taker' = [pc |-> "notify", num |-> number[d]]
      /\ sent' = sent /\ app' = app /\ number' = number /\ queue' = queue
      /\ proc' = proc /\ completed' = completed /\ wire' = wire /\ acks' = acks
      /\ ended' = ended /\ alive' = alive /\ cache' = cache /\ cacher' = cacher
      /\ UNCHANGED server
  BY <1>4, <1>5 DEF TakeAck
<1>7. /\ taker' \in [pc : {"idle", "notify", "set"}, num : Int]
      /\ taker'.num = number[d]
  BY <1>4, <1>6
<1>8. RangeInv'
  BY <1>1, <1>6, <1>7 DEF RangeInv
<1>9. NumberInv' /\ Taken' = Taken
  BY <1>1, <1>6, SameNumbers DEF client
<1>10. OrderInv' /\ ServerInv'
  BY <1>1, <1>6, <1>9, OrderFrame, ServerFrame
<1>11. AckInv'
  BY <1>1, <1>2, <1>6, <1>7, <1>9 DEF AckInv, AckMeansReceived
<1>12. HeapInv'
  BY <1>1, <1>6 DEF HeapInv, Queued
<1> QED BY <1>8, <1>9, <1>10, <1>11, <1>12 DEF IInv

LEMMA SetCompletedInv == ASSUME IInv, SetCompleted PROVE IInv'
<1>1. RangeInv /\ NumberInv /\ AckInv /\ ServerInv /\ HeapInv
  BY DEF IInv
<1>2. /\ taker.pc = "set" /\ completed' = taker.num
      /\ taker' = [pc |-> "idle", num |-> 0]
      /\ UNCHANGED client /\ queue' = queue /\ proc' = proc /\ wire' = wire
      /\ acks' = acks /\ ended' = ended /\ alive' = alive /\ cache' = cache
      /\ cacher' = cacher /\ UNCHANGED server
  BY DEF SetCompleted
<1>3. taker' \in [pc : {"idle", "notify", "set"}, num : Int] /\ taker'.pc = "idle"
  BY <1>2
<1>4. RangeInv'
  BY <1>1, <1>2, <1>3 DEF RangeInv, client
<1>5. NumberInv' /\ Taken' = Taken /\ number' = number
  BY <1>1, <1>2, SameNumbers DEF client
<1>6. OrderInv' /\ ServerInv'
  BY <1>1, <1>2, <1>5, OrderFrame, ServerFrame
<1>7. AckInv'
  BY <1>1, <1>2, <1>3, <1>5 DEF AckInv, AckMeansReceived
<1>8. HeapInv'
  BY <1>1, <1>2 DEF HeapInv, Queued
<1> QED BY <1>4, <1>5, <1>6, <1>7, <1>8 DEF IInv

(* The server accepts the packet after the last one, or that one once more  *)
(* when it could not acknowledge it.                                        *)
LEMMA AcceptInv ==
  ASSUME ServerInv, NEW i \in 1 .. Len(Packets), expected = i - 1, NEW ok \in BOOLEAN,
         delivered' = Append(delivered, Packets[i]),
         expected' = IF ok THEN expected + 1 ELSE expected,
         failures' = IF ok THEN failures ELSE failures + 1
  PROVE  ServerInv'
<1>1. /\ delivered \in Seq(Data) /\ Packets[i] \in Data /\ i \in Nat /\ i >= 1
      /\ failures \in Nat
  BY PacketFacts DEF ServerInv
<1>2. /\ delivered' \in Seq(Data) /\ Len(delivered) \in Nat
      /\ Len(delivered') = Len(delivered) + 1
      /\ delivered'[Len(delivered) + 1] = Packets[i]
      /\ \A k \in 1 .. Len(delivered) : delivered'[k] = delivered[k]
  BY <1>1
<1>3. expected' \in {i - 1, i} /\ expected' \in 0 .. Len(Packets) /\ failures' \in Nat
  BY <1>1, PacketFacts
<1>4. delivered' # << >> /\ delivered'[Len(delivered')] = Packets[i]
  BY <1>2
<1>5. i \in {expected', expected' + 1} \cap 1 .. Len(Packets)
  BY <1>1, <1>3
<1>6. Len(delivered') <= expected' + failures'
  <2>1. Len(delivered) <= expected + failures
    BY DEF ServerInv, DeliveryWithoutGaps
  <2> QED BY <1>1, <1>2, <2>1
<1>7. ASSUME NEW k \in 1 .. Len(delivered')
      PROVE  \E j \in 1 .. Len(Packets) :
               /\ delivered'[k] = Packets[j]
               /\ IF k = 1 THEN j = 1
                  ELSE \/ delivered'[k - 1] = Packets[j]
                       \/ j > 1 /\ delivered'[k - 1] = Packets[j - 1]
  <2>1. CASE k \in 1 .. Len(delivered)
    <3>1. delivered'[k] = delivered[k] /\ (k # 1 => delivered'[k - 1] = delivered[k - 1])
      BY <1>2, <2>1
    <3>2. PICK j \in 1 .. Len(Packets) :
            /\ delivered[k] = Packets[j]
            /\ IF k = 1 THEN j = 1
               ELSE \/ delivered[k - 1] = Packets[j]
                    \/ j > 1 /\ delivered[k - 1] = Packets[j - 1]
      BY <2>1 DEF ServerInv, DeliveryWithoutGaps
    <3> QED BY <3>1, <3>2
  <2>2. CASE k = Len(delivered) + 1 /\ delivered = << >>
    <3>1. k = 1 /\ i = 1
      BY <1>1, <2>2 DEF ServerInv
    <3> QED BY <1>2, <2>2, <3>1
  <2>3. CASE k = Len(delivered) + 1 /\ delivered # << >>
    <3>1. k # 1 /\ k - 1 = Len(delivered) /\ Len(delivered) \in 1 .. Len(delivered)
      BY <1>1, <2>3
    <3>2. PICK j \in {expected, expected + 1} \cap 1 .. Len(Packets) :
            delivered[Len(delivered)] = Packets[j]
      BY <2>3 DEF ServerInv
    <3>3. j = i \/ (i > 1 /\ j = i - 1)
      BY <1>1, <3>2
    <3>4. delivered'[k] = Packets[i] /\ delivered'[k - 1] = Packets[j]
      BY <1>2, <2>3, <3>1, <3>2
    <3> QED BY <3>1, <3>3, <3>4
  <2> QED BY <1>2, <2>1, <2>2, <2>3
<1>8. DeliveryWithoutGaps'
  BY <1>6, <1>7 DEF DeliveryWithoutGaps
<1> QED BY <1>2, <1>3, <1>4, <1>5, <1>8 DEF ServerInv

LEMMA ServerReceiveInv ==
  ASSUME IInv, NEW d \in wire, NEW ok \in BOOLEAN, ServerReceive(d, ok)
  PROVE  IInv'
<1>1. RangeInv /\ NumberInv /\ OrderInv /\ AckInv /\ ServerInv /\ HeapInv
  BY DEF IInv
<1>2. /\ UNCHANGED client /\ queue' = queue /\ proc' = proc /\ wire' = wire
      /\ alive' = alive /\ cache' = cache /\ cacher' = cacher /\ taker' = taker
      /\ completed' = completed
      /\ ended' = [ended EXCEPT !.received = @ \cup {d}]
      /\ acks' = IF ok THEN acks \cup {AckNumber(d)} ELSE acks
  BY DEF ServerReceive, threads
<1>3. /\ d \in Taken /\ d \in Data /\ number[d] \in Nat /\ number[d] < Len(Packets)
      /\ d = Packets[number[d] + 1]
  <2>1. d \in Taken
    BY <1>1 DEF OrderInv
  <2>2. /\ Given \in 0 .. Len(Packets) /\ number[d] \in 0 .. Given - 1 /\ d \in Data
        /\ d = Packets[number[d] + 1]
    BY <1>1, <2>1, TakenFacts
  <2> QED BY <2>1, <2>2, PacketFacts
<1>4. AckNumber(d) = number[d] + 1
  <2>1. number[d] + 1 \in 0 .. HALF - 1
    BY <1>3, PacketFacts, BoundAssumption
  <2> QED BY <2>1, SmallNumbers DEF AckNumber
<1>5. /\ ended' \in [acked : SUBSET Data, received : SUBSET Data, timedOut : BOOLEAN]
      /\ ended'.acked = ended.acked /\ ended'.received = ended.received \cup {d}
      /\ ended'.timedOut = ended.timedOut
  BY <1>1, <1>2, <1>3 DEF RangeInv
<1>6. RangeInv'
  BY <1>1, <1>2, <1>5 DEF RangeInv, client
<1>7. NumberInv' /\ Taken' = Taken /\ number' = number
  BY <1>1, <1>2, SameNumbers DEF client
<1>8. OrderInv'
  BY <1>2, <1>7, OrderFrame
<1>9. AckInv'
  <2>1. \A n \in acks' : n \in acks \/ n = number[d] + 1
    BY <1>2, <1>4
  <2>2. \A n \in acks' : \E e \in ended'.received : n = number[e] + 1
    BY <1>1, <1>5, <2>1 DEF AckInv
  <2>3. ended'.received \subseteq Taken /\ ended'.acked \subseteq Taken
    BY <1>1, <1>3, <1>5 DEF AckInv
  <2> QED BY <1>1, <1>2, <1>5, <1>7, <2>2, <2>3 DEF AckInv, AckMeansReceived
<1>10. HeapInv'
  BY <1>1, <1>2, <1>5 DEF HeapInv, Queued
<1>11. ServerInv'
  <2>1. expected \in Nat /\ expected <= Len(Packets) /\ Short(expected) = expected
    <3>1. expected \in 0 .. Len(Packets)
      BY <1>1 DEF ServerInv
    <3>2. expected \in 0 .. HALF - 1 /\ expected \in Nat /\ expected <= Len(Packets)
      BY <3>1, PacketFacts, BoundAssumption
    <3> QED BY <3>2, SmallNumbers
  <2>2. failures' = IF ok THEN failures ELSE failures + 1
    BY DEF ServerReceive
  <2>3. CASE number[d] = expected
    <3>1. Unsigned(expected + 1) = expected + 1
      <4>1. expected + 1 \in 0 .. HALF - 1
        BY <1>3, <2>1, <2>3, PacketFacts, BoundAssumption
      <4> QED BY <4>1, SmallNumbers
    <3>2. /\ delivered' = Append(delivered, Packets[expected + 1])
          /\ expected' = IF ok THEN expected + 1 ELSE expected
      BY <1>3, <2>1, <2>3, <3>1 DEF ServerReceive, IsExpected
    <3>3. expected + 1 \in 1 .. Len(Packets) /\ expected = (expected + 1) - 1
      BY <1>3, <2>1, <2>3, PacketFacts
    <3>4. PICK i \in 1 .. Len(Packets) : i = expected + 1
      BY <3>3
    <3>5. expected = i - 1 /\ delivered' = Append(delivered, Packets[i])
      BY <2>1, <3>2, <3>4
    <3> QED BY <1>1, <2>2, <3>2, <3>5, AcceptInv
  <2>4. CASE number[d] # expected
    <3>1. delivered' = delivered /\ expected' = expected
      BY <2>1, <2>4 DEF ServerReceive, IsExpected
    <3>2. failures \in Nat /\ failures' \in Nat /\ failures' >= failures
      BY <1>1, <2>2 DEF ServerInv
    <3>3. Len(delivered) <= expected + failures'
      <4>1. Len(delivered) \in Nat /\ Len(delivered) <= expected + failures
        BY <1>1 DEF ServerInv, DeliveryWithoutGaps
      <4> QED BY <2>1, <3>2, <4>1
    <3>4. DeliveryWithoutGaps'
      BY <1>1, <3>1, <3>3 DEF ServerInv, DeliveryWithoutGaps
    <3> QED BY <1>1, <3>1, <3>2, <3>4 DEF ServerInv
  <2> QED BY <2>3, <2>4
<1> QED BY <1>6, <1>7, <1>8, <1>9, <1>10, <1>11 DEF IInv

-----------------------------------------------------------------------------
LEMMA InitInv == Init => IInv
<1> SUFFICES ASSUME Init PROVE IInv
  OBVIOUS
<1> USE DEF Init
<1>1. Queued = << >> /\ NewQueue \in Queue /\ WellFormed(NewQueue)
  BY NewQueueEmpty DEF Queued
<1>2. Given = 0
  BY DEF Given
<1>3. RangeInv
  BY <1>1, PacketFacts DEF RangeInv, ProcPlaces
<1>4. NumberInv
  BY <1>2 DEF NumberInv
<1>5. OrderInv
  BY <1>1 DEF OrderInv, NewestLast
<1>6. AckInv
  BY DEF AckInv, AckMeansReceived
<1>7. ServerInv
  BY PacketFacts DEF ServerInv, DeliveryWithoutGaps
<1>8. HeapInv
  BY <1>1 DEF HeapInv
<1> QED BY <1>3, <1>4, <1>5, <1>6, <1>7, <1>8 DEF IInv

LEMMA StepInv == IInv /\ [Next]_vars => IInv'
<1> SUFFICES ASSUME IInv, [Next]_vars PROVE IInv'
  OBVIOUS
<1>1. CASE UNCHANGED vars
  <2>1. /\ UNCHANGED <<client, queue, completed, wire, acks, server, ended>>
        /\ proc' = proc /\ taker' = taker /\ cache' = cache /\ cacher' = cacher
        /\ alive' = alive
    BY <1>1 DEF vars, threads
  <2> QED BY <2>1, QuietInv DEF IInv, HeapInv
<1>2. CASE Next
  <2>1. CASE AppStep
    BY <2>1, SetNumberInv, IncrementInv, PushInv, NotifyInv DEF AppStep
  <2>2. CASE ProcStep
    BY <2>2, ProcessorWaits, PopInv, SendInv, TimeoutInv, WokenInv DEF ProcStep
  <2>3. CASE CacheStep
    BY <2>3, CacherInv DEF CacheStep
  <2>4. CASE TakerStep
    BY <2>4, DestructorInv, SetCompletedInv DEF TakerStep
  <2>5. CASE DtorStep
    BY <2>5, DestructorInv DEF DtorStep
  <2>6. CASE SpuriousWake \/ CacheSpuriousWake \/ Stop
    BY <2>6, ProcessorWaits, CacherInv, DestructorInv
  <2>7. ASSUME NEW n \in acks, TakeAck(n) PROVE IInv'
    BY <2>7, TakeAckInv
  <2>8. ASSUME NEW d \in wire, NEW ok \in BOOLEAN, ServerReceive(d, ok) PROVE IInv'
    BY <2>8, ServerReceiveInv
  <2> QED BY <1>2, <2>1, <2>2, <2>3, <2>4, <2>5, <2>6, <2>7, <2>8
          DEF Next, ClientStep, Environment
<1> QED BY <1>1, <1>2

(* Every reachable state satisfies the invariant.                           *)
THEOREM Invariant == Spec => []IInv
BY InitInv, StepInv, PTL DEF Spec

(* The server accepts the packets in order and without a gap, whatever the  *)
(* network loses, repeats and reorders (IOCP.cpp:218-227).                  *)
THEOREM DeliveryHasNoGaps == Spec => []DeliveryWithoutGaps
<1>1. IInv => DeliveryWithoutGaps
  BY DEF IInv, ServerInv
<1> QED BY Invariant, <1>1, PTL

(* What the client frees as acknowledged the server has received, but for   *)
(* the first packet (UDPSocket.cpp:45-48).                                  *)
THEOREM AcknowledgedIsReceived == Spec => []AckMeansReceived
<1>1. IInv => AckMeansReceived
  BY DEF IInv, AckInv
<1> QED BY Invariant, <1>1, PTL

(* No packet that is gone is freed or read before a wait has timed out      *)
(* (UDPSocket.cpp:45-53, 65-71).                                            *)
THEOREM HeapStaysIntact == Spec => []HeapIntactWithoutTimeout
<1>1. IInv => HeapIntactWithoutTimeout
  BY DEF IInv, HeapInv, HeapIntactWithoutTimeout, Crashed
<1> QED BY Invariant, <1>1, PTL

(* While a packet is being sent, no later one has been on the wire.         *)
THEOREM OldPacketsComeFirst == Spec => []NewestLast
<1>1. IInv => NewestLast
  BY DEF IInv, OrderInv
<1> QED BY Invariant, <1>1, PTL
=============================================================================
