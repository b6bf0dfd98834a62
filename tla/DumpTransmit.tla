---------------------------- MODULE DumpTransmit ----------------------------
(***************************************************************************)
(* WatchDogClient/DumpTransmit: the queue of dump files to upload and the  *)
(* thread that uploads them. The files on the disk are kept by the number  *)
(* of the process that wrote them, which their names begin with.           *)
(***************************************************************************)
EXTENDS Integers, Sequences

CONSTANT RequestLimit   \* what m_dumpTransmitRequestQueue holds, see CircularQueue

VARIABLES
  files,       \* the dumps on the disk, by process
  requests,    \* m_dumpTransmitRequestQueue
  sender,      \* the thread: pc and the dump it uploads
  sending      \* m_bDumpFileTransmitThreadState

dumpVars == <<files, requests, sender, sending>>

NoFile == 0

DumpInit ==
  /\ files = {} /\ requests = << >>
  /\ sender = [pc |-> "none", file |-> NoFile]
  /\ sending = TRUE

Sender(pc) == sender' = [sender EXCEPT !.pc = pc]

\* Initialize, once the socket is connected.
StartSender == sender.pc = "none" /\ Sender("test")

-----------------------------------------------------------------------------
(* HasDumpFile and AddNewDumpTransmitQueueData, called by the watchdog.     *)

\* strncmp with "PID-<number>": the number of the file may go on.
Matches(process, file) == file = process \/ file \div 10 = process

MutexFree == sender.pc \notin {"look", "lookedInVain"}

\* Defect: nobody is told.
RequestSilently(f) ==
  /\ MutexFree
  /\ requests' = Append(requests, f)
  /\ UNCHANGED <<files, sender, sending>>

\* Under the mutex; a full queue refuses the request, which nobody notices.
Request(f) ==
  /\ MutexFree
  /\ requests' = IF Len(requests) < RequestLimit THEN Append(requests, f) ELSE requests
  /\ sender' = IF sender.pc = "blocked" THEN [sender EXCEPT !.pc = "look"] ELSE sender
  /\ UNCHANGED <<files, sending>>

-----------------------------------------------------------------------------
(* DumpFileTransmitThread.                                                  *)

TestState ==
  /\ sender.pc = "test"
  /\ Sender(IF sending THEN "look" ELSE "ended")
  /\ UNCHANGED <<files, requests, sending>>

\* The predicate of wait, evaluated with the mutex held.
Look ==
  /\ sender.pc = "look"
  /\ Sender(IF requests # << >> \/ ~sending THEN "pop" ELSE "lookedInVain")
  /\ UNCHANGED <<files, requests, sending>>

\* Releases the mutex and waits: only now is a notification heard.
Block ==
  /\ sender.pc = "lookedInVain"
  /\ Sender("blocked")
  /\ UNCHANGED <<files, requests, sending>>

WokenForNoReason ==
  /\ sender.pc = "blocked"
  /\ Sender("look")
  /\ UNCHANGED <<files, requests, sending>>

PopRequest ==
  /\ sender.pc = "pop"
  /\ IF requests = << >>
       THEN Sender("test") /\ UNCHANGED requests
       ELSE /\ sender' = [pc |-> "open", file |-> Head(requests)]
            /\ requests' = Tail(requests)
  /\ UNCHANGED <<files, sending>>

\* The whole file is sent, whatever the state says meanwhile, and deleted.
Upload ==
  /\ sender.pc = "open"
  /\ sender.file \in files
  /\ files' = files \ {sender.file}
  /\ sender' = [pc |-> "test", file |-> NoFile]
  /\ UNCHANGED <<requests, sending>>

\* A file that is not there, or cannot be opened: the request is leaked.
OpenFails ==
  /\ sender.pc = "open"
  /\ sender' = [pc |-> "test", file |-> NoFile]
  /\ UNCHANGED <<files, requests, sending>>

SenderStep == TestState \/ Look \/ Block \/ PopRequest \/ Upload \/ OpenFails

-----------------------------------------------------------------------------
(* Destroy: the flag and the notification, without the mutex; then join.    *)

StopSending ==
  /\ sending' = FALSE
  /\ UNCHANGED <<files, requests, sender>>

NotifySender ==
  /\ sender' = IF sender.pc = "blocked" THEN [sender EXCEPT !.pc = "look"] ELSE sender
  /\ UNCHANGED <<files, requests, sending>>

SenderJoined == sender.pc \in {"none", "ended"}
=============================================================================
