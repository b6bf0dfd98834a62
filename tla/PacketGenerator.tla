--------------------------- MODULE PacketGenerator ---------------------------
(***************************************************************************)
(* PacketGenerator: reads packet.txt, where each packet is a VERSION line  *)
(* with its name and a block of lines "name=type" or "name=type:size"      *)
(* between braces, and writes for each the header of a class: its members, *)
(* a constructor that initialises them, an assignment, a serialisation.    *)
(*                                                                         *)
(* A line is read by what it starts with and by where it stands. The text  *)
(* is chosen line by line as it is read.                                   *)
(***************************************************************************)
EXTENDS SequencesExt, FiniteSetsExt

CONSTANTS
  Lines,        \* [kind, name, size]: size is what follows ':', 0 without
  Untitled,     \* the empty string
  Comma,
  MAX_LINES     \* the longest packet.txt

ASSUME LinesAssumption ==
  Lines \subseteq [kind : {"version", "open", "member", "garbled", "close"},
                   name : {ln.name : ln \in Lines}, size : Nat]

ASSUME CommaAssumption == \A ln \in Lines : ln.name # Comma

VARIABLES
  packetText,         \* the lines read
  opened,             \* where in it the open block begins, or 0
  newInfo,            \* the STRUCTURE under construction
  packetInformation,  \* the STRUCTUREs read
  generated,          \* how many of them are written
  files,              \* the headers, by name
  stage,              \* reading, writing or terminated by an exception
  blocks              \* history: first and last line of each STRUCTURE

parsed == <<packetText, opened, newInfo, packetInformation, blocks>>
generatorVars == <<parsed, generated, files, stage>>

Blank == [name |-> Untitled, members |-> << >>]

(* PARAMETER keeps the size in 16 bits.                                     *)
Parameter(line) == [name |-> line.name, size |-> line.size % 65536]

IsArray(m) == m.size # 0

GeneratorInit ==
  /\ packetText = << >> /\ opened = 0 /\ newInfo = Blank
  /\ packetInformation = << >> /\ blocks = << >>
  /\ generated = 0 /\ files = << >> /\ stage = "reading"

-----------------------------------------------------------------------------
Read(line) ==
  /\ stage = "reading" /\ Len(packetText) < MAX_LINES
  /\ packetText' = Append(packetText, line)
  /\ UNCHANGED <<generated, files>>

(* Outside a block only VERSION and { mean something.                       *)
ReadOutside(line) ==
  /\ opened = 0 /\ Read(line)
  /\ newInfo' = IF line.kind = "version" THEN [newInfo EXCEPT !.name = line.name]
                                         ELSE newInfo
  /\ opened' = IF line.kind = "open" THEN Len(packetText') ELSE 0
  /\ UNCHANGED <<packetInformation, blocks, stage>>

(* Inside, every line before } in the order of strings is a member, blank   *)
(* ones too. A size that stoi cannot read ends the program.                 *)
ReadMember(line) ==
  /\ opened # 0 /\ line.kind # "close" /\ Read(line)
  /\ IF line.kind = "garbled" THEN stage' = "terminated" /\ UNCHANGED newInfo
     ELSE /\ newInfo' = [newInfo EXCEPT !.members = Append(@, Parameter(line))]
          /\ UNCHANGED stage
  /\ UNCHANGED <<opened, packetInformation, blocks>>

BlockEnds ==
  /\ opened' = 0
  /\ packetInformation' = Append(packetInformation, newInfo)
  /\ blocks' = Append(blocks, <<opened, Len(packetText')>>)
  /\ UNCHANGED stage

(* Defect: the next block goes on with the members of this one.             *)
ReadCloseKeepsMembers(line) ==
  /\ opened # 0 /\ line.kind = "close" /\ Read(line)
  /\ newInfo' = [newInfo EXCEPT !.name = Untitled]
  /\ BlockEnds

(* The STRUCTURE is kept and its fields zeroed.                             *)
ReadClose(line) ==
  /\ opened # 0 /\ line.kind = "close" /\ Read(line)
  /\ newInfo' = Blank
  /\ BlockEnds

(* The text ends. In an open block the loop goes on with empty lines, and   *)
(* adds members until there is no memory for them.                          *)
EndOfText ==
  /\ stage = "reading"
  /\ stage' = IF opened = 0 THEN "writing" ELSE "terminated"
  /\ UNCHANGED <<parsed, generated, files>>

-----------------------------------------------------------------------------
(* Defect: the comma is written after arrays too.                           *)
InitializersAllCommas(ms) ==
  (IF ms = << >> THEN << >> ELSE <<Comma>>)
    \o FlattenSeq([i \in DOMAIN ms |->
         (IF IsArray(ms[i]) THEN << >> ELSE <<ms[i].name>>)
           \o (IF i < Len(ms) THEN <<Comma>> ELSE << >>)])

(* What follows ": Packet(iPacketType, iMessageType)".                      *)
Initializers(ms) ==
  (IF ms = << >> THEN << >> ELSE <<Comma>>)
    \o FlattenSeq([i \in DOMAIN ms |->
         IF IsArray(ms[i]) THEN << >>
         ELSE <<ms[i].name>> \o (IF i < Len(ms) THEN <<Comma>> ELSE << >>)])

(* The arrays the constructor's body copies, or zeroes.                     *)
Copied(ms) ==
  FlattenSeq([i \in DOMAIN ms |-> IF IsArray(ms[i]) THEN <<ms[i]>> ELSE << >>])

Header(s) ==
  [members |-> s.members, list |-> Initializers(s.members),
   copied |-> Copied(s.members)]

(* Every name gets a file of its own: a second packet of the name replaces  *)
(* the first. A file that cannot be opened is passed over.                  *)
GenerateClass ==
  /\ stage = "writing" /\ generated < Len(packetInformation)
  /\ generated' = generated + 1
  /\ LET s == packetInformation[generated']
         written == [n \in DOMAIN files \cup {s.name} |->
                       IF n = s.name THEN <<generated', Header(s)>> ELSE files[n]]
     IN  files' \in {files, written}
  /\ UNCHANGED <<parsed, stage>>

GeneratorNext ==
  \/ \E line \in Lines : ReadOutside(line) \/ ReadMember(line) \/ ReadClose(line)
  \/ EndOfText \/ GenerateClass

GeneratorSpec == GeneratorInit /\ [][GeneratorNext]_generatorVars

-----------------------------------------------------------------------------
(* Properties.                                                              *)

(* The lines of the k-th block, and the VERSION lines it is named by: those *)
(* since the block before.                                                  *)
Block(k) == SubSeq(packetText, blocks[k][1] + 1, blocks[k][2] - 1)

Titles(k) ==
  {i \in (IF k = 1 THEN 0 ELSE blocks[k - 1][2]) + 1 .. blocks[k][1] :
     packetText[i].kind = "version"}

Title(k) == IF Titles(k) = {} THEN Untitled ELSE packetText[Max(Titles(k))].name

(* Each header describes one block of packet.txt: it has the block's name,  *)
(* the block's lines are its members in their order and nothing else is,    *)
(* and a member is an array of the size written there, whatever blocks came *)
(* before, with other names, the same or none. A size of 2^16 or more is    *)
(* the exception (main.cpp:28-71).                                          *)
HeadersDescribeBlocks ==
  \A n \in DOMAIN files :
    LET k == files[n][1]
        ms == files[n][2].members
    IN  /\ Title(k) = n /\ Len(ms) = Len(Block(k))
        /\ \A i \in DOMAIN ms :
             /\ ms[i].name = Block(k)[i].name
             /\ Block(k)[i].size < 65536 => ms[i].size = Block(k)[i].size

(* The constructor of a header initialises every member once: it is in the  *)
(* list, which alternates commas and members, or an array that the body     *)
(* copies, and these are all. A comma is left over when the last member is  *)
(* an array (main.cpp:117-143).                                             *)
ConstructorsInitialise ==
  \A n \in DOMAIN files :
    LET h == files[n][2]
    IN  (h.members = << >> \/ ~IsArray(Last(h.members))) =>
          /\ \A i \in DOMAIN h.list : h.list[i] = Comma <=> i % 2 = 1
          /\ Len(h.list) % 2 = 0
          /\ Len(h.list) \div 2 + Len(h.copied) = Len(h.members)
          /\ \A i \in DOMAIN h.members :
               IF IsArray(h.members[i])
                 THEN \E j \in DOMAIN h.copied : h.copied[j] = h.members[i]
                 ELSE \E j \in DOMAIN h.list : h.list[j] = h.members[i].name
=============================================================================
