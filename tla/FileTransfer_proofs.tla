-------------------------- MODULE FileTransfer_proofs --------------------------
(***************************************************************************)
(* Theorems about FileTransfer, for any number of clients, of attempts and *)
(* of chunks.                                                              *)
(***************************************************************************)
EXTENDS FileTransfer, TLAPS, SequenceTheorems

USE NumbersAssumption, NamesAssumption

Chunk == Client \X (1..FileLength)
Messages ==
  [kind : {"line", "part"}, val : Name \cup {Secret, Wrong, LongInput}] \cup
  [kind : {"data"}, val : 1..FileLength] \cup {Eof}
ChildState == Exited \cup {"none", "passwd", "workdir", "name", "open", "receive", "close"}

\* The types the rest needs.  That a child is sent names after the password, and
\* no more chunks than its file has, is left open.
TypeInv ==
  /\ server \in {"accept", "fork", "gone"}
  /\ backlog \in Seq(Client) /\ accepted \subseteq Client
  /\ sigchld \in BOOLEAN /\ handling \in BOOLEAN
  /\ toServer \in [Client -> Seq(Messages)]
  /\ client \in [Client -> Over \cup {"start", "passwd", "passwdWait", "name",
                                      "rename", "nameWait", "send"}]
  /\ sent \in [Client -> 0..FileLength]
  /\ child \in [Client -> ChildState]
  /\ tries \in [Client -> Nat]
  /\ verified \in [Client -> BOOLEAN]
  /\ name \in [Client -> Name \cup {Secret, Wrong, LongInput}]
  /\ offset \in [Client -> Nat]
  /\ content \in [Name -> [1..FileLength -> Chunk \cup {NoChunk}]]

LEMMA TypeInit == Init => TypeInv
<1> SUFFICES ASSUME Init PROVE TypeInv
  OBVIOUS
<1>1. content \in [Name -> [1..FileLength -> Chunk \cup {NoChunk}]]
  BY DEF Init
<1>2. /\ backlog \in Seq(Client)
      /\ toServer \in [Client -> Seq(Messages)]
  BY DEF Init
<1>3. /\ client \in [Client -> {"start"}] /\ child \in [Client -> {"none"}]
      /\ tries \in [Client -> Nat] /\ verified \in [Client -> BOOLEAN]
      /\ sent \in [Client -> 0..FileLength] /\ offset \in [Client -> Nat]
      /\ name \in [Client -> Name \cup {Secret, Wrong, LongInput}]
  BY DEF Init
<1>4. /\ server = "accept" /\ accepted = {} /\ sigchld = FALSE /\ handling = FALSE
  BY DEF Init
<1> QED
  BY <1>1, <1>2, <1>3, <1>4 DEF TypeInv, ChildState

\* What goes to the server.
LEMMA SendType ==
  ASSUME TypeInv, NEW c \in Client, NEW m \in Messages, ToServer(c, m)
  PROVE  toServer' \in [Client -> Seq(Messages)]
BY DEF ToServer, TypeInv

LEMMA ConsumeType ==
  ASSUME TypeInv, NEW c \in Client, toServer[c] # <<>>, Consume(c)
  PROVE  /\ toServer' \in [Client -> Seq(Messages)]
         /\ Head(toServer[c]) \in Messages
         /\ \A k : From(toServer, c, k) => k = Head(toServer[c]).kind
<1>1. toServer[c] \in Seq(Messages)
  BY DEF TypeInv
<1> QED
  BY <1>1 DEF Consume, TypeInv, From

LEMMA MessageTypes ==
  /\ \A n \in Name \cup {Secret, Wrong, LongInput} : Typed(n) \in Messages
  /\ \A i \in 1..FileLength : Data(i) \in Messages
  /\ Eof \in Messages
  /\ \A m \in Messages :
       /\ m.kind = "data" => m.val \in 1..FileLength
       /\ m.kind = "line" => m.val \in Name \cup {Secret, Wrong, LongInput}
<1>1. \A n \in Name \cup {Secret, Wrong, LongInput} : Typed(n) \in Messages
  BY DEF Messages, Typed, Part, Line
<1>2. \A i \in 1..FileLength : Data(i) \in Messages
  BY DEF Messages, Data
<1>3. Eof \in Messages
  BY DEF Messages, Eof
<1>4. \A m \in Messages :
       /\ m.kind = "data" => m.val \in 1..FileLength
       /\ m.kind = "line" => m.val \in Name \cup {Secret, Wrong, LongInput}
  BY DEF Messages, Eof
<1> QED
  BY <1>1, <1>2, <1>3, <1>4

LEMMA TypeStep == TypeInv /\ [Next]_vars => TypeInv'
<1> SUFFICES ASSUME TypeInv, [Next]_vars PROVE TypeInv'
  OBVIOUS
<1> USE DEF serverVars, channels, clientVars, childVars, files
<1>1. ASSUME NEW c \in Client, NEW how \in Over, ClientExit(c, how)
      PROVE  /\ client' \in [Client -> Over \cup {"start", "passwd", "passwdWait", "name",
                                      "rename", "nameWait", "send"}]
             /\ toServer' \in [Client -> Seq(Messages)]
  BY <1>1, SendType, MessageTypes DEF ClientExit, TypeInv
<1>2. ASSUME NEW c \in Client, Connect(c) PROVE TypeInv'
  <2>1. backlog' \in Seq(Client)
    <3>1. backlog \in Seq(Client)
      BY DEF TypeInv
    <3>2. backlog' = backlog \/ backlog' = Append(backlog, c)
      BY <1>2 DEF Connect
    <3> QED
      BY <3>1, <3>2
  <2>2. client' \in [Client -> Over \cup {"start", "passwd", "passwdWait", "name",
                                      "rename", "nameWait", "send"}]
    BY <1>2 DEF Connect, ClientGoto, TypeInv, Over
  <2> QED
    BY <1>2, <2>1, <2>2 DEF Connect, TypeInv
<1>3. ASSUME NEW c \in Client, TypePasswd(c) PROVE TypeInv'
  <2>1. toServer' \in [Client -> Seq(Messages)]
    BY <1>3, SendType, MessageTypes DEF TypePasswd, Typable
  <2> QED
    BY <1>3, <2>1 DEF TypePasswd, ClientGoto, TypeInv
<1>4. ASSUME NEW c \in Client, PasswdAnswer(c) PROVE TypeInv'
  BY <1>1, <1>4 DEF PasswdAnswer, ClientGoto, TypeInv, Over
<1>5. ASSUME NEW c \in Client, SendName(c) PROVE TypeInv'
  <2>1. toServer' \in [Client -> Seq(Messages)]
    BY <1>5, SendType, MessageTypes DEF SendName, Typable
  <2> QED
    BY <1>5, <2>1 DEF SendName, ClientGoto, TypeInv
<1>6. ASSUME NEW c \in Client, NameAnswer(c) PROVE TypeInv'
  BY <1>1, <1>6 DEF NameAnswer, ClientGoto, TypeInv, Over
<1>7. ASSUME NEW c \in Client, SendChunk(c) PROVE TypeInv'
  <2>1. toServer' \in [Client -> Seq(Messages)]
    BY <1>7, SendType, MessageTypes DEF SendChunk, TypeInv
  <2> QED
    <3>1. sent' \in [Client -> 0..FileLength]
      BY <1>7 DEF SendChunk, TypeInv
    <3> QED
      BY <1>7, <2>1, <3>1 DEF SendChunk, TypeInv
<1>8. ASSUME NEW c \in Client, SendDone(c) PROVE TypeInv'
  BY <1>1, <1>8 DEF SendDone, TypeInv, Over
<1>9. ASSUME NEW c \in Client, ClientKilled(c) PROVE TypeInv'
  BY <1>1, <1>9 DEF ClientKilled, TypeInv, Over
<1>10. ASSUME Accept PROVE TypeInv'
  <2>1. backlog \in Seq(Client) /\ backlog # <<>> /\ backlog' = Tail(backlog)
    BY <1>10 DEF Accept, TypeInv
  <2>2. backlog' \in Seq(Client) /\ Head(backlog) \in Client
    BY <2>1
  <2>3. server' = "fork" /\ accepted' \subseteq Client
    BY <1>10, <2>2 DEF Accept
  <2>4. UNCHANGED <<sigchld, handling, channels, clientVars, childVars, files>>
    BY <1>10 DEF Accept
  <2> QED
    BY <2>2, <2>3, <2>4 DEF TypeInv, channels, clientVars, childVars, files
<1>11. ASSUME NEW c \in Client, Fork(c) PROVE TypeInv'
  BY <1>11 DEF Fork, TypeInv, ChildState
<1>12. ASSUME AcceptFails PROVE TypeInv'
  <2>1. child' \in [Client -> ChildState]
    BY <1>12 DEF AcceptFails, TypeInv, ChildState, Exited
  <2>2. backlog' \in Seq(Client)
    BY <1>12 DEF AcceptFails
  <2> QED
    BY <1>12, <2>1, <2>2 DEF AcceptFails, TypeInv
<1>13. ASSUME EnterHandler PROVE TypeInv'
  BY <1>13 DEF EnterHandler, TypeInv
<1>14. ASSUME WaitPid PROVE TypeInv'
  BY <1>14 DEF WaitPid, TypeInv, ChildState, Exited
<1>15. ASSUME NEW c \in Client, ChildExit(c)
       PROVE  child' \in [Client -> ChildState] /\ sigchld' \in BOOLEAN
  BY <1>15 DEF ChildExit, ChildGoto, ChildState, Exited, TypeInv
<1>16. ASSUME NEW c \in Client, HasLine(c) \/ HasCutLine(c), Consume(c)
       PROVE  /\ toServer' \in [Client -> Seq(Messages)]
              /\ LineRead(c) \in Name \cup {Secret, Wrong, LongInput}
  <2>1. toServer[c] # <<>>
    BY <1>16 DEF HasLine, HasCutLine, From
  <2>2. HasLine(c) => LineRead(c) \in Name \cup {Secret, Wrong, LongInput}
    BY <1>16, <2>1, ConsumeType, MessageTypes DEF HasLine, LineRead, From
  <2> QED
    BY <1>16, <2>1, <2>2, ConsumeType DEF LineRead
<1>17. ASSUME NEW c \in Client, CheckPasswd(c) PROVE TypeInv'
  <2>1. toServer' \in [Client -> Seq(Messages)]
    BY <1>16, <1>17 DEF CheckPasswd
  <2>2. child' \in [Client -> ChildState]
    BY <1>17 DEF CheckPasswd, ChildGoto, ChildState, TypeInv
  <2>3. tries' \in [Client -> Nat]
    BY <1>17 DEF CheckPasswd, TypeInv
  <2>4. verified' \in [Client -> BOOLEAN]
    BY <1>17 DEF CheckPasswd, TypeInv
  <2> QED
    BY <1>17, <2>1, <2>2, <2>3, <2>4 DEF CheckPasswd, TypeInv
<1>18. ASSUME NEW c \in Client, ClientGone(c) PROVE TypeInv'
  BY <1>15, <1>18 DEF ClientGone, TypeInv
<1>19. ASSUME NEW c \in Client, CloseConnection(c) PROVE TypeInv'
  BY <1>15, <1>19 DEF CloseConnection, TypeInv
<1>20. ASSUME NEW c \in Client, SetWorkDir(c) PROVE TypeInv'
  BY <1>20 DEF SetWorkDir, ChildGoto, ChildState, TypeInv
<1>21. ASSUME NEW c \in Client, CheckName(c) PROVE TypeInv'
  BY <1>16, <1>21 DEF CheckName, ChildGoto, ChildState, TypeInv
<1>22. ASSUME NEW c \in Client, OpenFile(c) PROVE TypeInv'
  BY <1>22 DEF OpenFile, ChildGoto, ChildState, TypeInv
<1>23. ASSUME NEW c \in Client, ReceiveChunk(c) PROVE TypeInv'
  <2>1. toServer[c] # <<>> /\ Head(toServer[c]).kind = "data"
    BY <1>23 DEF ReceiveChunk, From
  <2>2. toServer' \in [Client -> Seq(Messages)] /\ Head(toServer[c]).val \in 1..FileLength
    BY <1>23, <2>1, ConsumeType, MessageTypes DEF ReceiveChunk
  <2>3. <<c, Head(toServer[c]).val>> \in Chunk
    BY <2>2 DEF Chunk
  <2>4. content' \in [Name -> [1..FileLength -> Chunk \cup {NoChunk}]]
    BY <1>23, <2>3 DEF ReceiveChunk, TypeInv
  <2> QED
    <3>1. offset' \in [Client -> Nat]
      BY <1>23 DEF ReceiveChunk, TypeInv
    <3> QED
      BY <1>23, <2>2, <2>4, <3>1 DEF ReceiveChunk, TypeInv
<1>24. ASSUME NEW c \in Client, WriteFails(c) PROVE TypeInv'
  BY <1>15, <1>24 DEF WriteFails, TypeInv
<1>25. ASSUME NEW c \in Client, ReceiveDone(c) PROVE TypeInv'
  BY <1>25 DEF ReceiveDone, ChildGoto, ChildState, TypeInv
<1>26. ASSUME UNCHANGED vars PROVE TypeInv'
  BY <1>26 DEF vars, TypeInv
<1> QED
  BY <1>2, <1>3, <1>4, <1>5, <1>6, <1>7, <1>8, <1>9, <1>10, <1>11, <1>12, <1>13, <1>14,
     <1>17, <1>18, <1>19, <1>20, <1>21, <1>22, <1>23, <1>24, <1>25, <1>26
     DEF Next, ClientWork, ChildWork, ParentWork, Handler

-------------------------------------------------------------------------------
(* A connection is served by one child.                                    *)

\* Connections that wait for accept, or that the parent holds, have no child yet,
\* and each waits once.
FreshInv ==
  /\ \A c \in Client :
       client[c] = "start" =>
         child[c] = "none" /\ c \notin accepted /\ \A i \in 1..Len(backlog) : backlog[i] # c
  /\ \A c \in accepted : child[c] = "none" /\ \A i \in 1..Len(backlog) : backlog[i] # c
  /\ \A i \in 1..Len(backlog) : child[backlog[i]] = "none"
  /\ \A i, j \in 1..Len(backlog) : backlog[i] = backlog[j] => i = j

LEMMA FreshInit == Init => FreshInv
BY DEF Init, FreshInv

LEMMA FreshStep == TypeInv /\ FreshInv /\ [Next]_vars => FreshInv'
<1> SUFFICES ASSUME TypeInv, FreshInv, [Next]_vars PROVE FreshInv'
  OBVIOUS
<1> USE DEF serverVars, channels, clientVars, childVars, files
<1>1. /\ backlog \in Seq(Client) /\ Len(backlog) \in Nat /\ accepted \subseteq Client
      /\ \A i \in 1..Len(backlog) : backlog[i] \in Client
      /\ child \in [Client -> ChildState]
      /\ client \in [Client -> Over \cup {"start", "passwd", "passwdWait", "name",
                                      "rename", "nameWait", "send"}]
  BY DEF TypeInv
<1>2. ASSUME UNCHANGED <<backlog, accepted>>,
             \A c \in Client : client'[c] = "start" => client[c] = "start",
             \A c \in Client : child[c] = "none" => child'[c] = "none"
      PROVE  FreshInv'
  BY <1>1, <1>2 DEF FreshInv
<1>3. ASSUME NEW c \in Client, Connect(c) PROVE FreshInv'
  <2>1. CASE backlog' = Append(backlog, c)
    <3>1. /\ Len(backlog') = Len(backlog) + 1 /\ backlog'[Len(backlog) + 1] = c
          /\ \A i \in 1..Len(backlog) : backlog'[i] = backlog[i]
      BY <1>1, <2>1
    <3>2. /\ client[c] = "start" /\ client'[c] = "passwd" /\ UNCHANGED <<accepted, child>>
          /\ \A d \in Client \ {c} : client'[d] = client[d]
      BY <1>1, <1>3, <2>1 DEF Connect, ClientGoto
    <3>3. \A i \in 1..Len(backlog) : backlog[i] # c
      BY <3>2 DEF FreshInv
    <3>4. \A i \in 1..Len(backlog') : i = Len(backlog) + 1 \/ i \in 1..Len(backlog)
      BY <1>1, <3>1
    <3>5. \A i, j \in 1..Len(backlog') : backlog'[i] = backlog'[j] => i = j
      BY <3>1, <3>3, <3>4 DEF FreshInv
    <3>6. \A i \in 1..Len(backlog') : child'[backlog'[i]] = "none" /\ backlog'[i] \notin accepted'
      BY <3>1, <3>2, <3>4 DEF FreshInv
    <3>7. \A d \in Client : client'[d] = "start" =>
            /\ child'[d] = "none" /\ d \notin accepted'
            /\ \A i \in 1..Len(backlog') : backlog'[i] # d
      BY <3>1, <3>2, <3>4 DEF FreshInv
    <3> QED
      BY <3>2, <3>5, <3>6, <3>7 DEF FreshInv
  <2>2. CASE backlog' = backlog
    BY <1>1, <1>2, <1>3, <2>2 DEF Connect, ClientGoto
  <2> QED
    BY <1>3, <2>1, <2>2 DEF Connect
<1>4. ASSUME Accept PROVE FreshInv'
  <2>1. /\ Len(backlog) > 0 /\ accepted' = {backlog[1]} /\ UNCHANGED <<client, child>>
        /\ Len(backlog') = Len(backlog) - 1
        /\ \A i \in 1..Len(backlog') : backlog'[i] = backlog[i + 1]
    BY <1>1, <1>4 DEF Accept
  <2>2. \A i \in 1..Len(backlog') :
          i + 1 \in 1..Len(backlog) /\ i + 1 # 1 /\ backlog'[i] = backlog[i + 1]
    BY <1>1, <2>1
  <2>3. 1 \in 1..Len(backlog)
    BY <1>1, <2>1
  <2>4. ASSUME NEW i \in 1..Len(backlog')
        PROVE  child'[backlog'[i]] = "none" /\ backlog'[i] # backlog[1]
    <3>1. /\ i + 1 \in 1..Len(backlog) /\ i + 1 # 1
          /\ backlog'[i] = backlog[i + 1] /\ child' = child
      BY <2>1, <2>2
    <3>2. child[backlog[i + 1]] = "none"
      BY <3>1 DEF FreshInv
    <3>3. backlog[i + 1] # backlog[1]
      BY <3>1, <2>3 DEF FreshInv
    <3> QED
      BY <3>1, <3>2, <3>3
  <2>5. \A i, j \in 1..Len(backlog') : backlog'[i] = backlog'[j] => i = j
    BY <1>1, <2>1, <2>2 DEF FreshInv
  <2>6. \A d \in Client : client'[d] = "start" =>
          /\ child'[d] = "none" /\ d # backlog[1]
          /\ \A i \in 1..Len(backlog') : backlog'[i] # d
    BY <2>1, <2>2, <2>3 DEF FreshInv
  <2>7. child'[backlog[1]] = "none"
    BY <2>1, <2>3 DEF FreshInv
  <2> QED
    BY <2>1, <2>4, <2>5, <2>6, <2>7 DEF FreshInv
<1>5. ASSUME NEW c \in Client, Fork(c) PROVE FreshInv'
  <2>1. /\ c \in accepted /\ accepted' = {} /\ UNCHANGED <<client, backlog>>
        /\ \A d \in Client \ {c} : child'[d] = child[d]
    BY <1>1, <1>5 DEF Fork
  <2> QED
    BY <1>1, <2>1 DEF FreshInv
<1>6. ASSUME AcceptFails PROVE FreshInv'
  <2>1. /\ backlog' = <<>> /\ UNCHANGED <<client, accepted>>
        /\ \A d \in Client : child[d] = "none" => child'[d] = "none"
    BY <1>1, <1>6 DEF AcceptFails
  <2> QED
    BY <1>1, <2>1 DEF FreshInv
<1>7. ASSUME NEW c \in Client,
             \/ TypePasswd(c) \/ SendName(c) \/ ClientKilled(c) \/ ClientWork(c)
      PROVE  FreshInv'
  <2>1. UNCHANGED <<backlog, accepted, child>>
    BY <1>7 DEF TypePasswd, SendName, ClientKilled, ClientWork, PasswdAnswer, NameAnswer,
                SendChunk, SendDone
  <2>2. \A d \in Client : client'[d] = "start" => client[d] = "start"
    BY <1>1, <1>7 DEF TypePasswd, SendName, ClientKilled, ClientWork, PasswdAnswer, NameAnswer,
                SendChunk, SendDone, ClientGoto, ClientExit, Over
  <2> QED
    BY <1>2, <2>1, <2>2
<1>8. ASSUME NEW c \in Client, ChildWork(c) PROVE FreshInv'
  <2>1. UNCHANGED <<backlog, accepted, client>>
    BY <1>8 DEF ChildWork, CheckPasswd, ClientGone, CloseConnection, SetWorkDir, CheckName,
                OpenFile, ReceiveChunk, WriteFails, ReceiveDone
  <2>2. child[c] # "none"
    BY <1>8 DEF ChildWork, CheckPasswd, ClientGone, CloseConnection, SetWorkDir, CheckName,
                OpenFile, ReceiveChunk, WriteFails, ReceiveDone
  <2>3. \A d \in Client \ {c} : child'[d] = child[d]
    BY <1>1, <1>8 DEF ChildWork, CheckPasswd, ClientGone, CloseConnection, SetWorkDir, CheckName,
                OpenFile, ReceiveChunk, WriteFails, ReceiveDone, ChildGoto, ChildExit
  <2> QED
    BY <1>2, <2>1, <2>2, <2>3
<1>9. ASSUME Handler PROVE FreshInv'
  <2>1. UNCHANGED <<backlog, accepted, client>>
    BY <1>9 DEF Handler, EnterHandler, WaitPid
  <2>2. \A d \in Client : child[d] = "none" => child'[d] = "none"
    BY <1>1, <1>9 DEF Handler, EnterHandler, WaitPid, Zombies
  <2> QED
    BY <1>2, <2>1, <2>2
<1>10. ASSUME UNCHANGED vars PROVE FreshInv'
  BY <1>2, <1>10 DEF vars
<1> QED
  BY <1>3, <1>4, <1>5, <1>6, <1>7, <1>8, <1>9, <1>10 DEF Next, ParentWork

-------------------------------------------------------------------------------
(* Passwords and files.                                                    *)

\* Only a verified child gets past the password, only one with attempts left may
\* try, and only the name of no old file is opened.
ChildInv ==
  \A c \in Client :
    /\ child[c] = "none" => tries[c] = 0 /\ ~verified[c]
    /\ child[c] = "passwd" => tries[c] < NumVerify /\ ~verified[c]
    /\ child[c] \in {"workdir", "name", "open", "receive"} => verified[c]
    /\ child[c] \in {"open", "receive"} => name[c] \notin OldFiles
    /\ tries[c] <= NumVerify

\* What there is on disk came from verified children, under names they keep.
DiskInv ==
  /\ OldFiles \subseteq exists
  /\ \A n \in exists \ OldFiles : \E c \in Client :
       name[c] = n /\ verified[c] /\ child[c] \in {"receive", "close"} \cup Exited
  /\ \A n \in Name, i \in 1..FileLength :
       content[n][i] # NoChunk => n \notin OldFiles /\ verified[content[n][i][1]]

\* A parent that lives has been sent SIGCHLD for its zombies, one that is gone
\* has none.
ZombieInv == Zombies # {} => server # "gone" /\ (sigchld \/ handling)

SafeInv == ChildInv /\ DiskInv /\ ZombieInv

LEMMA SafeInit == Init => SafeInv
<1> SUFFICES ASSUME Init PROVE SafeInv
  OBVIOUS
<1>1. ChildInv
  BY DEF Init, ChildInv
<1>2. DiskInv
  BY DEF Init, DiskInv
<1>3. ZombieInv
  BY DEF Init, ZombieInv, Zombies
<1> QED
  BY <1>1, <1>2, <1>3 DEF SafeInv

\* A child that exits, for whatever reason, is noticed.
LEMMA ExitNoticed ==
  ASSUME TypeInv, SafeInv, NEW c \in Client, ChildExit(c), UNCHANGED <<server, handling>>
  PROVE  ZombieInv'
BY DEF TypeInv, SafeInv, ZombieInv, Zombies, ChildExit, ChildGoto

\* It leaves what was verified, and the files.
LEMMA ExitSafe ==
  ASSUME TypeInv, SafeInv, NEW c \in Client, ChildExit(c), child[c] # "none",
         UNCHANGED <<server, handling, tries, verified, name, files>>
  PROVE  SafeInv'
<1>1. /\ child' \in [Client -> ChildState] /\ child'[c] \in Exited
      /\ \A d \in Client \ {c} : child'[d] = child[d]
  BY DEF TypeInv, ChildExit, ChildGoto, ChildState, Exited
<1>2. ChildInv'
  BY <1>1 DEF SafeInv, ChildInv, Exited, files
<1>3. DiskInv'
  BY <1>1 DEF SafeInv, DiskInv, files
<1> QED
  BY <1>2, <1>3, ExitNoticed DEF SafeInv

\* A step within a child that changes nothing but where it is, or the name it
\* was sent last, before it has opened a file.
LEMMA MoveSafe ==
  ASSUME TypeInv, SafeInv, NEW c \in Client, NEW to \in ChildState \ Exited,
         child' = [child EXCEPT ![c] = to], child[c] \notin Exited,
         UNCHANGED <<server, sigchld, handling, exists, content>>,
         \A d \in Client \ {c} : UNCHANGED <<tries[d], verified[d], name[d]>>,
         verified[c] => verified'[c],
         child[c] \notin {"receive", "close"} \/ (to = "close" /\ name'[c] = name[c])
  PROVE  ZombieInv' /\ DiskInv'
<1>1. ZombieInv'
  BY DEF TypeInv, SafeInv, ZombieInv, Zombies, Exited
<1>2. /\ child \in [Client -> ChildState]
      /\ child'[c] = to /\ \A d \in Client \ {c} : child'[d] = child[d]
  BY DEF TypeInv
<1>3. \A d \in Client : verified[d] => verified'[d]
  OBVIOUS
<1>4. ASSUME NEW n \in Name, NEW i \in 1..FileLength, content[n][i] # NoChunk
      PROVE  n \notin OldFiles /\ verified'[content[n][i][1]]
  <2>1. content[n][i] \in Chunk
    BY <1>4 DEF TypeInv
  <2>2. content[n][i][1] \in Client
    BY <2>1 DEF Chunk
  <2> QED
    BY <1>3, <1>4, <2>2 DEF SafeInv, DiskInv
<1>5. ASSUME NEW n \in exists \ OldFiles
      PROVE  \E d \in Client :
               name'[d] = n /\ verified'[d] /\ child'[d] \in {"receive", "close"} \cup Exited
  <2>1. PICK d \in Client :
          name[d] = n /\ verified[d] /\ child[d] \in {"receive", "close"} \cup Exited
    BY <1>5 DEF SafeInv, DiskInv
  <2> QED
    BY <1>2, <1>3, <2>1
<1>6. DiskInv'
  BY <1>4, <1>5 DEF SafeInv, DiskInv
<1> QED
  BY <1>1, <1>6

LEMMA SafeStep == TypeInv /\ FreshInv /\ SafeInv /\ [Next]_vars => SafeInv'
<1> SUFFICES ASSUME TypeInv, FreshInv, SafeInv, [Next]_vars PROVE SafeInv'
  OBVIOUS
<1> USE DEF serverVars, channels, clientVars, childVars, files
<1>1. /\ child \in [Client -> ChildState] /\ tries \in [Client -> Nat]
      /\ verified \in [Client -> BOOLEAN]
      /\ name \in [Client -> Name \cup {Secret, Wrong, LongInput}]
  BY DEF TypeInv
<1>2. ASSUME UNCHANGED <<child, tries, verified, name, exists, content, sigchld, handling>>,
             server' = "gone" => server = "gone"
      PROVE  SafeInv'
  BY <1>2 DEF SafeInv, ChildInv, DiskInv, ZombieInv, Zombies
<1>3. ASSUME NEW c \in Client,
             \/ Connect(c) \/ TypePasswd(c) \/ SendName(c) \/ ClientKilled(c) \/ ClientWork(c)
      PROVE  SafeInv'
  <2>1. UNCHANGED <<child, tries, verified, name, exists, content, sigchld, handling, server>>
    BY <1>3 DEF Connect, TypePasswd, SendName, ClientKilled, ClientWork, PasswdAnswer,
                NameAnswer, SendChunk, SendDone
  <2> QED
    BY <1>2, <2>1
<1>4. ASSUME Accept PROVE SafeInv'
  BY <1>2, <1>4 DEF Accept
<1>5. ASSUME NEW c \in Client, Fork(c) PROVE SafeInv'
  <2>1. child[c] = "none" /\ tries[c] = 0 /\ ~verified[c]
    BY <1>5 DEF Fork, FreshInv, SafeInv, ChildInv
  <2>2. CASE child' = child
    <3>1. /\ UNCHANGED <<child, tries, verified, name, exists, content, sigchld, handling>>
          /\ server' = "accept"
      BY <1>5, <2>2 DEF Fork
    <3> QED
      BY <1>2, <3>1
  <2>3. CASE child' = [child EXCEPT ![c] = "passwd"]
    <3>1. UNCHANGED <<tries, verified, name, exists, content, sigchld, handling>> /\ server' = "accept"
      BY <1>5 DEF Fork
    <3>2. /\ child'[c] = "passwd" /\ \A d \in Client \ {c} : child'[d] = child[d]
      BY <1>1, <2>3
    <3>3. ChildInv'
      BY <2>1, <3>1, <3>2 DEF SafeInv, ChildInv
    <3>4. DiskInv'
      BY <2>1, <3>1, <3>2 DEF SafeInv, DiskInv, Exited
    <3>5. ZombieInv'
      BY <3>1, <3>2 DEF SafeInv, ZombieInv, Zombies
    <3> QED
      BY <3>3, <3>4, <3>5 DEF SafeInv
  <2> QED
    BY <1>5, <2>2, <2>3 DEF Fork
<1>6. ASSUME AcceptFails \/ EnterHandler \/ WaitPid PROVE SafeInv'
  <2>1. /\ UNCHANGED <<tries, verified, name, exists, content>>
        /\ \A d \in Client : child'[d] = child[d] \/ (child[d] = "zombie" /\ child'[d] = "reaped")
    BY <1>1, <1>6 DEF AcceptFails, EnterHandler, WaitPid, Zombies
  <2>2. ChildInv'
    BY <2>1 DEF SafeInv, ChildInv
  <2>3. DiskInv'
    BY <2>1 DEF SafeInv, DiskInv, Exited
  <2>4. ZombieInv'
    <3>1. CASE AcceptFails
      BY <1>1, <3>1 DEF AcceptFails, ZombieInv, Zombies
    <3>2. CASE EnterHandler
      BY <3>2 DEF EnterHandler, ZombieInv, Zombies
    <3>3. CASE WaitPid
      BY <1>1, <3>3 DEF WaitPid, SafeInv, ZombieInv, Zombies
    <3> QED
      BY <1>6, <3>1, <3>2, <3>3
  <2> QED
    BY <2>2, <2>3, <2>4 DEF SafeInv
<1>7. ASSUME NEW c \in Client, ClientGone(c) \/ CloseConnection(c) \/ WriteFails(c)
      PROVE  SafeInv'
  BY <1>7, ExitSafe DEF ClientGone, CloseConnection, WriteFails
<1>8. ASSUME NEW c \in Client, CheckPasswd(c) PROVE SafeInv'
  <2>1. /\ child[c] = "passwd" /\ tries[c] < NumVerify /\ ~verified[c]
        /\ tries'[c] = tries[c] + 1 /\ name' = name
        /\ \A d \in Client \ {c} : tries'[d] = tries[d] /\ verified'[d] = verified[d]
    BY <1>1, <1>8 DEF CheckPasswd, SafeInv, ChildInv
  <2>2. PICK to \in {"passwd", "workdir", "close"} :
          /\ child' = [child EXCEPT ![c] = to]
          /\ to = "workdir" => verified'[c]
          /\ to = "passwd" => tries'[c] < NumVerify /\ ~verified'[c]
    BY <1>1, <1>8, <2>1 DEF CheckPasswd, ChildGoto
  <2>3. ZombieInv' /\ DiskInv'
    BY <1>8, <2>1, <2>2, MoveSafe DEF CheckPasswd, ChildState, Exited
  <2>4. ChildInv'
    BY <1>1, <2>1, <2>2 DEF SafeInv, ChildInv
  <2> QED
    BY <2>3, <2>4 DEF SafeInv
<1>9. ASSUME NEW c \in Client, SetWorkDir(c) PROVE SafeInv'
  <2>1. PICK to \in {"name", "close"} : child' = [child EXCEPT ![c] = to]
    BY <1>9 DEF SetWorkDir, ChildGoto
  <2>2. child[c] = "workdir" /\ verified[c] /\ UNCHANGED <<tries, verified, name>>
    BY <1>9 DEF SetWorkDir, SafeInv, ChildInv
  <2>3. ZombieInv' /\ DiskInv'
    BY <1>9, <2>1, <2>2, MoveSafe DEF SetWorkDir, ChildState, Exited
  <2>4. ChildInv'
    BY <1>1, <2>1, <2>2 DEF SafeInv, ChildInv
  <2> QED
    BY <2>3, <2>4 DEF SafeInv
<1>10. ASSUME NEW c \in Client, CheckName(c) PROVE SafeInv'
  <2>1. PICK to \in {"name", "open"} :
          /\ child' = [child EXCEPT ![c] = to]
          /\ to = "open" => name'[c] \notin exists
    <3>1. CASE LineRead(c) \in exists /\ UNCHANGED child
      <4>1. child' = [child EXCEPT ![c] = "name"]
        BY <1>1, <1>10, <3>1 DEF CheckName
      <4> QED
        BY <4>1
    <3>2. CASE LineRead(c) \notin exists /\ ChildGoto(c, "open")
      BY <1>1, <1>10, <3>2 DEF CheckName, ChildGoto
    <3> QED
      BY <1>10, <3>1, <3>2 DEF CheckName
  <2>2. /\ child[c] = "name" /\ verified[c] /\ UNCHANGED <<tries, verified>>
        /\ \A d \in Client \ {c} : name'[d] = name[d]
    BY <1>1, <1>10 DEF CheckName, SafeInv, ChildInv
  <2>3. ZombieInv' /\ DiskInv'
    BY <1>10, <2>1, <2>2, MoveSafe DEF CheckName, ChildState, Exited
  <2>4. ChildInv'
    BY <1>1, <2>1, <2>2 DEF SafeInv, ChildInv, DiskInv
  <2> QED
    BY <2>3, <2>4 DEF SafeInv
<1>11. ASSUME NEW c \in Client, OpenFile(c) PROVE SafeInv'
  <2>1. /\ child[c] = "open" /\ verified[c] /\ name[c] \notin OldFiles
        /\ UNCHANGED <<tries, verified, name, content, handling, sigchld, server>>
    BY <1>11 DEF OpenFile, SafeInv, ChildInv
  <2>2. /\ child'[c] \in {"receive", "close"} /\ \A d \in Client \ {c} : child'[d] = child[d]
        /\ \/ exists' = exists \cup {name[c]} /\ child'[c] = "receive"
           \/ exists' = exists
    BY <1>1, <1>11 DEF OpenFile, ChildGoto
  <2>3. ChildInv'
    BY <2>1, <2>2 DEF SafeInv, ChildInv
  <2>4. DiskInv'
    BY <2>1, <2>2 DEF SafeInv, DiskInv, Exited
  <2>5. ZombieInv'
    BY <2>1, <2>2 DEF SafeInv, ZombieInv, Zombies
  <2> QED
    BY <2>3, <2>4, <2>5 DEF SafeInv
<1>12. ASSUME NEW c \in Client, ReceiveChunk(c) PROVE SafeInv'
  <2>1. /\ child[c] = "receive" /\ verified[c] /\ name[c] \notin OldFiles
        /\ UNCHANGED <<child, tries, verified, name, exists, handling, sigchld, server>>
    BY <1>12 DEF ReceiveChunk, SafeInv, ChildInv
  <2>2. ChildInv' /\ ZombieInv'
    BY <2>1 DEF SafeInv, ChildInv, ZombieInv, Zombies
  <2>3. ASSUME NEW n \in Name, NEW i \in 1..FileLength, content'[n][i] # NoChunk
        PROVE  n \notin OldFiles /\ verified[content'[n][i][1]]
    <3> DEFINE chunk == <<c, Head(toServer[c]).val>>
    <3>1. \/ content'[n][i] = content[n][i]
          \/ n = name[c] /\ content'[n][i] = chunk
      BY <1>12 DEF ReceiveChunk, TypeInv
    <3>2. chunk[1] = c
      OBVIOUS
    <3> HIDE DEF chunk
    <3> QED
      BY <2>1, <2>3, <3>1, <3>2 DEF SafeInv, DiskInv
  <2>4. DiskInv'
    BY <2>1, <2>3 DEF SafeInv, DiskInv
  <2> QED
    BY <2>2, <2>4 DEF SafeInv
<1>13. ASSUME NEW c \in Client, ReceiveDone(c) PROVE SafeInv'
  <2>1. /\ child[c] = "receive" /\ verified[c] /\ child' = [child EXCEPT ![c] = "close"]
        /\ UNCHANGED <<tries, verified, name>>
    BY <1>13 DEF ReceiveDone, ChildGoto, SafeInv, ChildInv
  <2>2. ZombieInv' /\ DiskInv'
    BY <1>13, <2>1, MoveSafe DEF ReceiveDone, ChildState, Exited
  <2>3. ChildInv'
    BY <1>1, <2>1 DEF SafeInv, ChildInv
  <2> QED
    BY <2>2, <2>3 DEF SafeInv
<1>14. ASSUME UNCHANGED vars PROVE SafeInv'
  BY <1>2, <1>14 DEF vars
<1> QED
  BY <1>3, <1>4, <1>5, <1>6, <1>7, <1>8, <1>9, <1>10, <1>11, <1>12, <1>13, <1>14
     DEF Next, ChildWork, ParentWork, Handler

-------------------------------------------------------------------------------
(* Who has the next line to send.                                          *)

\* A connection waits in the backlog, is held by the parent or has a child until
\* that ends; the parent holds one only between accept and Close.
ConnInv ==
  /\ conn \in [Client -> {"none", "queued", "open", "closed"}]
  /\ \A c \in Client : client[c] = "start" => conn[c] = "none"
  /\ \A i \in 1..Len(backlog) : conn[backlog[i]] = "queued"
  /\ \A c \in accepted : conn[c] = "open"
  /\ server # "fork" => accepted = {}
  /\ \A c \in Client : child[c] \notin {"none"} \cup Exited => conn[c] = "open"

LEMMA ConnInit == Init => ConnInv
BY DEF Init, ConnInv, Exited

LEMMA ConnStep == TypeInv /\ FreshInv /\ ConnInv /\ [Next]_vars => ConnInv'
<1> SUFFICES ASSUME TypeInv, FreshInv, ConnInv, [Next]_vars PROVE ConnInv'
  OBVIOUS
<1> USE DEF serverVars, channels, clientVars, childVars, files
<1>1. /\ backlog \in Seq(Client) /\ Len(backlog) \in Nat /\ accepted \subseteq Client
      /\ \A i \in 1..Len(backlog) : backlog[i] \in Client
      /\ child \in [Client -> ChildState]
      /\ client \in [Client -> Over \cup {"start", "passwd", "passwdWait", "name",
                                      "rename", "nameWait", "send"}]
      /\ conn \in [Client -> {"none", "queued", "open", "closed"}]
  BY DEF TypeInv, ConnInv
<1>2. ASSUME UNCHANGED <<server, backlog, accepted, conn>>,
             \A c \in Client : client'[c] = "start" => client[c] = "start",
             \A c \in Client : child'[c] \notin {"none"} \cup Exited =>
                                 child[c] \notin {"none"} \cup Exited
      PROVE  ConnInv'
  BY <1>1, <1>2 DEF ConnInv
<1>3. ASSUME NEW c \in Client, Connect(c) PROVE ConnInv'
  <2>1. CASE backlog' = Append(backlog, c) /\ server # "gone"
    <3>1. /\ Len(backlog') = Len(backlog) + 1 /\ backlog'[Len(backlog) + 1] = c
          /\ \A i \in 1..Len(backlog) : backlog'[i] = backlog[i]
      BY <1>1, <2>1
    <3>2. /\ client[c] = "start" /\ client'[c] = "passwd" /\ UNCHANGED <<server, accepted, child>>
          /\ \A d \in Client \ {c} : client'[d] = client[d]
          /\ conn' = [conn EXCEPT ![c] = "queued"]
      BY <1>1, <1>3, <2>1 DEF Connect, ClientGoto
    <3>3. c \notin accepted /\ child[c] = "none"
      BY <3>2 DEF FreshInv
    <3>4. \A i \in 1..Len(backlog') : i = Len(backlog) + 1 \/ i \in 1..Len(backlog)
      BY <1>1, <3>1
    <3>5. \A i \in 1..Len(backlog') : conn'[backlog'[i]] = "queued"
      BY <1>1, <3>1, <3>2, <3>4 DEF ConnInv
    <3>6. /\ conn' \in [Client -> {"none", "queued", "open", "closed"}]
          /\ \A d \in Client : d # c => conn'[d] = conn[d]
      BY <1>1, <3>2
    <3>7. \A d \in accepted' : conn'[d] = "open"
      BY <1>1, <3>2, <3>3, <3>6 DEF ConnInv
    <3>8. \A d \in Client : client'[d] = "start" => conn'[d] = "none"
      BY <3>2, <3>6 DEF ConnInv
    <3>9. \A d \in Client : child'[d] \notin {"none"} \cup Exited => conn'[d] = "open"
      BY <3>2, <3>3, <3>6 DEF ConnInv
    <3> QED
      BY <3>2, <3>5, <3>6, <3>7, <3>8, <3>9 DEF ConnInv
  <2>2. CASE UNCHANGED <<backlog, conn>>
    <3>1. /\ UNCHANGED <<server, accepted, child>>
          /\ \A d \in Client : client'[d] = "start" => client[d] = "start"
      BY <1>1, <1>3 DEF Connect, ClientGoto
    <3> QED
      BY <1>2, <2>2, <3>1
  <2> QED
    BY <1>3, <2>1, <2>2 DEF Connect
<1>4. ASSUME Accept PROVE ConnInv'
  <2>1. /\ Len(backlog) > 0 /\ accepted' = {backlog[1]} /\ UNCHANGED <<client, child>>
        /\ Len(backlog') = Len(backlog) - 1 /\ server' = "fork"
        /\ \A i \in 1..Len(backlog') : backlog'[i] = backlog[i + 1]
        /\ conn' = [conn EXCEPT ![backlog[1]] = "open"]
    BY <1>1, <1>4 DEF Accept
  <2>2. 1 \in 1..Len(backlog) /\ backlog[1] \in Client
    BY <1>1, <2>1
  <2>3. \A i \in 1..Len(backlog') :
          i + 1 \in 1..Len(backlog) /\ i + 1 # 1 /\ backlog'[i] = backlog[i + 1]
    BY <1>1, <2>1
  <2>4. /\ conn' \in [Client -> {"none", "queued", "open", "closed"}]
        /\ \A d \in Client : d # backlog[1] => conn'[d] = conn[d]
        /\ conn'[backlog[1]] = "open"
    BY <1>1, <2>1, <2>2
  <2>5. ASSUME NEW i \in 1..Len(backlog')
        PROVE  conn'[backlog'[i]] = "queued"
    <3>1. PICK j \in 1..Len(backlog) : j # 1 /\ backlog'[i] = backlog[j]
      BY <2>3
    <3>2. backlog[j] # backlog[1]
      BY <2>2, <3>1 DEF FreshInv
    <3> QED
      BY <1>1, <2>4, <3>1, <3>2 DEF ConnInv
  <2>6. \A d \in Client : client'[d] = "start" => conn'[d] = "none"
    BY <2>1, <2>2, <2>4 DEF ConnInv, FreshInv
  <2>7. \A d \in Client : child'[d] \notin {"none"} \cup Exited => conn'[d] = "open"
    BY <2>1, <2>4 DEF ConnInv
  <2> QED
    BY <2>1, <2>4, <2>5, <2>6, <2>7 DEF ConnInv
<1>5. ASSUME NEW c \in Client, Fork(c) PROVE ConnInv'
  <2>1. /\ c \in accepted /\ accepted' = {} /\ UNCHANGED <<client, backlog>>
        /\ \A d \in Client \ {c} : child'[d] = child[d] /\ conn'[d] = conn[d]
        /\ conn' \in [Client -> {"none", "queued", "open", "closed"}]
        /\ \/ conn'[c] = conn[c]
           \/ child'[c] = child[c]
    BY <1>1, <1>5 DEF Fork
  <2>2. /\ conn[c] = "open" /\ child[c] = "none" /\ client[c] # "start"
        /\ \A i \in 1..Len(backlog) : backlog[i] # c
    BY <2>1 DEF ConnInv, FreshInv
  <2>3. \A i \in 1..Len(backlog') : conn'[backlog'[i]] = "queued"
    BY <1>1, <2>1, <2>2 DEF ConnInv
  <2>4. \A d \in Client : client'[d] = "start" => conn'[d] = "none"
    BY <2>1, <2>2 DEF ConnInv
  <2>5. \A d \in Client : child'[d] \notin {"none"} \cup Exited => conn'[d] = "open"
    BY <2>1, <2>2 DEF ConnInv
  <2> QED
    BY <2>1, <2>3, <2>4, <2>5 DEF ConnInv
<1>6. ASSUME AcceptFails PROVE ConnInv'
  <2>1. /\ backlog' = <<>> /\ UNCHANGED <<client, accepted>> /\ server = "accept"
        /\ conn' = [c \in Client |-> IF conn[c] = "queued" THEN "closed" ELSE conn[c]]
        /\ child' = [c \in Client |-> IF child[c] = "zombie" THEN "reaped" ELSE child[c]]
    BY <1>6 DEF AcceptFails
  <2>2. conn' \in [Client -> {"none", "queued", "open", "closed"}]
    BY <1>1, <2>1
  <2>3. \A d \in Client : conn[d] # "queued" => conn'[d] = conn[d]
    BY <2>1
  <2>4. \A d \in Client : child'[d] \notin {"none"} \cup Exited =>
          child[d] \notin {"none"} \cup Exited
    BY <1>1, <2>1 DEF Exited
  <2>5. accepted' = {}
    BY <2>1 DEF ConnInv
  <2> QED
    BY <2>1, <2>2, <2>3, <2>4, <2>5 DEF ConnInv
<1>7. ASSUME NEW c \in Client,
             \/ TypePasswd(c) \/ SendName(c) \/ ClientKilled(c) \/ ClientWork(c)
      PROVE  ConnInv'
  <2>1. UNCHANGED <<server, backlog, accepted, child, conn>>
    BY <1>7 DEF TypePasswd, SendName, ClientKilled, ClientWork, PasswdAnswer, NameAnswer,
                SendChunk, SendDone
  <2>2. \A d \in Client : client'[d] = "start" => client[d] = "start"
    BY <1>1, <1>7 DEF TypePasswd, SendName, ClientKilled, ClientWork, PasswdAnswer, NameAnswer,
                SendChunk, SendDone, ClientGoto, ClientExit, Over
  <2> QED
    BY <1>2, <2>1, <2>2
<1>8. ASSUME NEW c \in Client,
             \/ CheckPasswd(c) \/ SetWorkDir(c) \/ CheckName(c) \/ OpenFile(c)
             \/ ReceiveChunk(c) \/ ReceiveDone(c)
      PROVE  ConnInv'
  <2>1. UNCHANGED <<server, backlog, accepted, client, conn>>
    BY <1>8 DEF CheckPasswd, SetWorkDir, CheckName, OpenFile, ReceiveChunk, ReceiveDone
  <2>2. child[c] \notin {"none"} \cup Exited
    BY <1>8 DEF CheckPasswd, SetWorkDir, CheckName, OpenFile, ReceiveChunk, ReceiveDone, Exited
  <2>3. \A d \in Client \ {c} : child'[d] = child[d]
    BY <1>1, <1>8 DEF CheckPasswd, SetWorkDir, CheckName, OpenFile, ReceiveChunk, ReceiveDone,
                ChildGoto
  <2> QED
    BY <1>2, <2>1, <2>2, <2>3
<1>9. ASSUME NEW c \in Client, ClientGone(c) \/ CloseConnection(c) \/ WriteFails(c)
      PROVE  ConnInv'
  <2>1. /\ UNCHANGED <<server, backlog, accepted, client>>
        /\ conn' = [conn EXCEPT ![c] = "closed"]
    BY <1>9 DEF ClientGone, CloseConnection, WriteFails, ChildExit
  <2>2. child[c] \notin {"none"} \cup Exited
    BY <1>9 DEF ClientGone, CloseConnection, WriteFails, Exited
  <2>3. /\ \A d \in Client \ {c} : child'[d] = child[d]
        /\ child'[c] \in Exited
    BY <1>1, <1>9 DEF ClientGone, CloseConnection, WriteFails, ChildExit, ChildGoto, Exited
  <2>4. /\ conn' \in [Client -> {"none", "queued", "open", "closed"}]
        /\ \A d \in Client \ {c} : conn'[d] = conn[d]
    BY <1>1, <2>1
  <2>5. conn[c] = "open"
    BY <2>2 DEF ConnInv
  <2>6. /\ c \notin accepted /\ client[c] # "start"
        /\ \A i \in 1..Len(backlog) : backlog[i] # c
    BY <2>2 DEF FreshInv
  <2>7. /\ \A i \in 1..Len(backlog) : conn'[backlog[i]] = "queued"
        /\ \A d \in accepted : conn'[d] = "open"
        /\ \A d \in Client : client[d] = "start" => conn'[d] = "none"
    BY <1>1, <2>4, <2>6 DEF ConnInv
  <2>8. \A d \in Client : child'[d] \notin {"none"} \cup Exited => conn'[d] = "open"
    BY <2>3, <2>4 DEF ConnInv
  <2> QED
    BY <2>1, <2>4, <2>7, <2>8 DEF ConnInv
<1>10. ASSUME Handler PROVE ConnInv'
  <2>1. UNCHANGED <<server, backlog, accepted, client, conn>>
    BY <1>10 DEF Handler, EnterHandler, WaitPid
  <2>2. \A d \in Client : child'[d] \notin {"none"} \cup Exited =>
          child[d] \notin {"none"} \cup Exited
    BY <1>1, <1>10 DEF Handler, EnterHandler, WaitPid, Zombies, Exited
  <2> QED
    BY <1>2, <2>1, <2>2
<1>11. ASSUME UNCHANGED vars PROVE ConnInv'
  BY <1>2, <1>11 DEF vars
<1> QED
  BY <1>3, <1>4, <1>5, <1>6, <1>7, <1>8, <1>9, <1>10, <1>11 DEF Next, ParentWork, ChildWork

\* What is on its way to the client: an answer, or none, and then only the end of
\* the connection.
Answer == {Error, Right, Eof}
Quiet == {q \in Seq(Answer) : \A i \in 1..Len(q) : q[i] = Eof}
Told(m) == {q \in Seq(Answer) : q # <<>> /\ q[1] = m /\ \A i \in 2..Len(q) : q[i] = Eof}
Waits == {"passwdWait", "nameWait"}
Past == {"open", "receive", "close"} \cup Exited

\* Until a name was granted, a client that waits has either its line or the answer
\* to it under way, and nothing is under way else.
Turn(c) ==
  /\ client[c] \notin Waits => toServer[c] = <<>>
  /\ client[c] \in Waits =>
       \/ toServer[c] = <<>> /\ toClient[c] # <<>>
       \/ /\ toClient[c] = <<>> /\ Len(toServer[c]) = 1
          /\ toServer[c][1].kind \in {"line", "part"}

\* The name the client sent last is the one its file goes to, and stays it.
Granted(c) == name[c] = typed[c] /\ child[c] \in Past

\* A client that lives, and what its child has made of its lines.
Agree(c) ==
  /\ toClient[c] \in Quiet \cup Told(Error) \cup Told(Right)
  /\ conn[c] # "closed" => toClient[c] \in {<<>>, <<Error>>, <<Right>>}
  /\ client[c] \notin Waits => toClient[c] \in Quiet
  /\ child[c] \notin Past /\ conn[c] # "closed" => Turn(c)
  /\ client[c] \in {"name", "rename", "nameWait", "send"} => verified[c]
  /\ toClient[c] \in Told(Right) => verified[c]
  /\ child[c] \in {"workdir", "name"} =>
       /\ client[c] \in {"passwdWait", "name", "rename", "nameWait"}
       /\ client[c] = "passwdWait" => toClient[c] = <<Right>>
       /\ client[c] = "nameWait" /\ toServer[c] # <<>> => toServer[c] = <<Typed(typed[c])>>
  /\ client[c] = "nameWait" /\ toClient[c] \in Told(Right) => Granted(c)
  /\ client[c] = "send" => Granted(c)

Session(c) ==
  /\ client[c] \notin Over => Agree(c)
  /\ client[c] = "done" => verified[c] /\ Granted(c)

AgreeInv ==
  /\ DOMAIN toClient = Client
  /\ typed \in [Client -> Name \cup {LongInput}]
  /\ \A c \in Client : Session(c)

LEMMA Answers ==
  /\ Error # Right /\ Error # Eof /\ Right # Eof
  /\ <<>> \in Quiet
  /\ \A m \in {Error, Right} : <<m>> # <<>> /\ <<m>> \in Told(m) /\ Append(<<>>, m) = <<m>>
  /\ <<Error>> # <<Right>>
  /\ \A q \in Quiet : q \notin Told(Error) /\ q \notin Told(Right)
  /\ \A q \in Told(Error) : q \notin Told(Right) /\ q # <<>>
  /\ \A q \in Told(Right) : q # <<>>
<1>1. Error # Right /\ Error # Eof /\ Right # Eof
  BY DEF Error, Right, Eof
<1>2. <<>> \in Quiet
  BY DEF Quiet
<1>3. ASSUME NEW m \in {Error, Right}
      PROVE  <<m>> # <<>> /\ <<m>> \in Told(m) /\ Append(<<>>, m) = <<m>>
  <2>1. <<m>> \in Seq(Answer) /\ Len(<<m>>) = 1 /\ <<m>>[1] = m
    BY DEF Answer
  <2> QED
    BY <2>1 DEF Told
<1>4. <<Error>> # <<Right>>
  BY <1>1
<1>5. ASSUME NEW m \in {Error, Right}, NEW q \in Told(m)
      PROVE  q \notin Quiet /\ q # <<>> /\ q[1] = m
  <2>1. q \in Seq(Answer) /\ q # <<>> /\ q[1] = m
    BY DEF Told
  <2>2. 1 \in 1..Len(q)
    BY <2>1
  <2> QED
    BY <1>1, <2>1, <2>2 DEF Quiet
<1> QED
  BY <1>1, <1>2, <1>3, <1>4, <1>5

\* What is left when the first was read.
LEMMA NextAnswer ==
  ASSUME NEW q \in Quiet \cup Told(Error) \cup Told(Right), q # <<>>
  PROVE  /\ Head(q) = Error => q \in Told(Error)
         /\ Head(q) = Right => q \in Told(Right)
         /\ Tail(q) \in Quiet
         /\ q \in {<<Error>>, <<Right>>} => Tail(q) = <<>>
<1>1. /\ q \in Seq(Answer) /\ Len(q) \in Nat \ {0} /\ Head(q) = q[1]
      /\ \A i \in 2..Len(q) : q[i] = Eof
  BY DEF Quiet, Told
<1>2. Tail(q) \in Quiet
  <2>1. /\ Tail(q) \in Seq(Answer) /\ Len(Tail(q)) = Len(q) - 1
        /\ \A i \in 1..Len(q) - 1 : Tail(q)[i] = q[i + 1]
    BY <1>1
  <2>2. \A i \in 1..Len(q) - 1 : i + 1 \in 2..Len(q)
    BY <1>1
  <2> QED
    BY <1>1, <2>1, <2>2 DEF Quiet
<1>3. ASSUME NEW m, q = <<m>>
      PROVE  Tail(q) = <<>>
  <2>1. Tail(<<m>>) = <<>>
    OBVIOUS
  <2> QED
    BY <1>3, <2>1
<1>4. \A m \in {Error, Right} : Head(q) = m => q \in Told(m)
  BY <1>1 DEF Told
<1> QED
  BY <1>2, <1>3, <1>4

\* The end of the connection comes behind all answers.
LEMMA EofBehind ==
  ASSUME NEW q \in Quiet \cup Told(Error) \cup Told(Right)
  PROVE  /\ q \in Quiet => Append(q, Eof) \in Quiet
         /\ q \in Told(Error) => Append(q, Eof) \in Told(Error)
         /\ q \in Told(Right) => Append(q, Eof) \in Told(Right)
<1>1. q \in Seq(Answer) /\ Len(q) \in Nat /\ Eof \in Answer
  BY DEF Quiet, Told, Answer
<1>2. PICK t : t = Append(q, Eof)
  OBVIOUS
<1>3. /\ t \in Seq(Answer) /\ Len(t) = Len(q) + 1
      /\ \A i \in 1..Len(q) : t[i] = q[i]
      /\ t[Len(q) + 1] = Eof
  BY <1>1, <1>2, AppendProperties
<1>4. \A i \in 1..Len(t) : i \in 1..Len(q) \/ i = Len(q) + 1
  BY <1>1, <1>3
<1>5. q \in Quiet => t \in Quiet
  BY <1>3, <1>4 DEF Quiet
<1>6. ASSUME NEW m, q \in Told(m)
      PROVE  t \in Told(m)
  <2>1. q # <<>> /\ q[1] = m /\ \A i \in 2..Len(q) : q[i] = Eof
    BY <1>6 DEF Told
  <2>2. 1 \in 1..Len(q) /\ t # <<>>
    BY <1>1, <1>3, <2>1
  <2>3. \A i \in 2..Len(t) : i \in 2..Len(q) \/ i = Len(q) + 1
    BY <1>1, <1>3
  <2>4. \A i \in 2..Len(q) : i \in 1..Len(q)
    BY <1>1
  <2> QED
    BY <1>3, <2>1, <2>2, <2>3, <2>4 DEF Told
<1> QED
  BY <1>2, <1>5, <1>6

LEMMA ToClientEffect ==
  ASSUME AgreeInv, NEW c \in Client, NEW m, ToClient(c, m)
  PROVE  /\ DOMAIN toClient' = Client
         /\ client[c] \notin Over => toClient'[c] = Append(toClient[c], m)
         /\ \A d \in Client \ {c} : toClient'[d] = toClient[d]
BY DEF ToClient, AgreeInv

LEMMA ToServerEffect ==
  ASSUME TypeInv, NEW c \in Client, NEW m, ToServer(c, m)
  PROVE  /\ conn[c] # "closed" => toServer'[c] = Append(toServer[c], m)
         /\ \A d \in Client \ {c} : toServer'[d] = toServer[d]
BY DEF ToServer, TypeInv

LEMMA AgreeInit == Init => AgreeInv
<1> SUFFICES ASSUME Init PROVE AgreeInv
  OBVIOUS
<1>1. DOMAIN toClient = Client /\ typed \in [Client -> Name \cup {LongInput}]
  BY DEF Init
<1>2. ASSUME NEW c \in Client PROVE Session(c)
  <2>1. /\ client[c] = "start" /\ child[c] = "none" /\ toClient[c] = <<>>
        /\ toServer[c] = <<>>
    BY DEF Init
  <2> QED
    BY <2>1, Answers DEF Session, Agree, Turn, Waits, Past, Over, Exited
<1> QED
  BY <1>1, <1>2 DEF AgreeInv

\* What a session depends on.
LEMMA Elsewhere ==
  ASSUME NEW d \in Client, Session(d),
         /\ client'[d] = client[d] /\ child'[d] = child[d]
         /\ toServer'[d] = toServer[d] /\ toClient'[d] = toClient[d]
         /\ conn'[d] = conn[d] /\ typed'[d] = typed[d]
         /\ name'[d] = name[d] /\ verified'[d] = verified[d]
  PROVE  Session(d)'
BY DEF Session, Agree, Turn, Granted

LEMMA AgreeStep ==
  TypeInv /\ FreshInv /\ SafeInv /\ ConnInv /\ AgreeInv /\ [Next]_vars => AgreeInv'
<1> SUFFICES ASSUME TypeInv, FreshInv, SafeInv, ConnInv, AgreeInv, [Next]_vars
             PROVE  AgreeInv'
  OBVIOUS
<1> USE DEF serverVars, channels, clientVars, childVars, files
<1>1. /\ DOMAIN toClient = Client
      /\ typed \in [Client -> Name \cup {LongInput}]
      /\ client \in [Client -> Over \cup {"start", "passwd", "passwdWait", "name",
                                      "rename", "nameWait", "send"}]
      /\ child \in [Client -> ChildState]
      /\ toServer \in [Client -> Seq(Messages)]
      /\ conn \in [Client -> {"none", "queued", "open", "closed"}]
      /\ name \in [Client -> Name \cup {Secret, Wrong, LongInput}]
      /\ verified \in [Client -> BOOLEAN]
      /\ \A c \in Client : Session(c)
  BY DEF TypeInv, ConnInv, AgreeInv
\* Only the session of one client changes.
<1>2. ASSUME NEW c \in Client, Session(c)', DOMAIN toClient' = Client,
             typed' \in [Client -> Name \cup {LongInput}],
             \A d \in Client \ {c} :
               /\ client'[d] = client[d] /\ child'[d] = child[d]
               /\ toServer'[d] = toServer[d] /\ toClient'[d] = toClient[d]
               /\ conn'[d] = conn[d] /\ typed'[d] = typed[d]
               /\ name'[d] = name[d] /\ verified'[d] = verified[d]
      PROVE  AgreeInv'
  <2>1. ASSUME NEW d \in Client PROVE Session(d)'
    <3>1. CASE d = c
      BY <1>2, <3>1
    <3>2. CASE d # c
      BY <1>1, <1>2, <3>2, Elsewhere
    <3> QED
      BY <3>1, <3>2
  <2> QED
    BY <1>2, <2>1 DEF AgreeInv
\* A client that dies leaves no promise behind.
<1>3. ASSUME NEW c \in Client, client'[c] = "failed"
      PROVE  Session(c)'
  BY <1>3 DEF Session, Over
<1>4. ASSUME NEW c \in Client, Connect(c) PROVE AgreeInv'
  <2>1. /\ client[c] = "start" /\ client'[c] \in {"passwd", "failed"}
        /\ conn'[c] \in {conn[c], "queued"}
        /\ UNCHANGED <<child, toServer, toClient, typed, name, verified>>
        /\ \A d \in Client \ {c} : client'[d] = client[d] /\ conn'[d] = conn[d]
    BY <1>1, <1>4 DEF Connect, ClientGoto
  <2>2. Agree(c) /\ conn[c] = "none" /\ child[c] = "none"
    BY <1>1, <2>1 DEF Session, Over, ConnInv, FreshInv
  <2>3. client'[c] = "passwd" => Agree(c)'
    BY <2>1, <2>2 DEF Agree, Turn, Waits, Granted, Past, Exited
  <2>4. Session(c)'
    BY <1>3, <2>1, <2>3 DEF Session, Over
  <2> QED
    BY <1>1, <1>2, <2>1, <2>4
<1>5. ASSUME NEW c \in Client, TypePasswd(c) PROVE AgreeInv'
  <2>1. PICK m : ToServer(c, m) /\ m.kind \in {"line", "part"}
    BY <1>5 DEF TypePasswd, Typed, Line, Part
  <2>2. /\ client[c] = "passwd" /\ client'[c] = "passwdWait"
        /\ UNCHANGED <<child, toClient, conn, typed, name, verified>>
        /\ \A d \in Client \ {c} : client'[d] = client[d] /\ toServer'[d] = toServer[d]
    BY <1>1, <1>5, <2>1, ToServerEffect DEF TypePasswd, ClientGoto
  <2>3. Agree(c) /\ toClient[c] \in Quiet
    BY <1>1, <2>2 DEF Session, Over, Agree, Waits
  <2>4. child[c] \notin {"workdir", "name"}
    BY <2>2, <2>3 DEF Agree
  <2>5. child[c] \notin Past /\ conn[c] # "closed" => Turn(c)'
    <3> SUFFICES ASSUME child[c] \notin Past, conn[c] # "closed"
                 PROVE  Turn(c)'
      OBVIOUS
    <3>1. toServer[c] = <<>> /\ toClient[c] = <<>>
      BY <2>2, <2>3, Answers DEF Agree, Turn, Waits
    <3>2. toServer'[c] = <<m>>
      <4>1. toServer'[c] = Append(toServer[c], m)
        BY <2>1, ToServerEffect
      <4> QED
        BY <3>1, <4>1
    <3> QED
      BY <2>1, <2>2, <3>1, <3>2 DEF Turn, Waits
  <2>6. Agree(c)'
    BY <2>2, <2>3, <2>4, <2>5, Answers DEF Agree, Waits
  <2>7. Session(c)'
    BY <2>2, <2>6 DEF Session, Over
  <2> QED
    BY <1>1, <1>2, <2>2, <2>7
\* An answer is read; then nothing is under way before the next line is sent.
<1>6. ASSUME NEW c \in Client, client[c] \in Waits, toClient[c] # <<>>
      PROVE  /\ Agree(c)
             /\ toClient[c] \in Quiet \cup Told(Error) \cup Told(Right)
             /\ child[c] \notin Past /\ conn[c] # "closed" =>
                  toServer[c] = <<>> /\ Tail(toClient[c]) = <<>>
             /\ conn[c] # "closed" => Tail(toClient[c]) = <<>>
  <2>1. Agree(c)
    BY <1>1, <1>6 DEF Session, Over, Waits
  <2>2. conn[c] # "closed" => toClient[c] \in {<<Error>>, <<Right>>}
    BY <1>6, <2>1 DEF Agree
  <2>3. toClient[c] \in Quiet \cup Told(Error) \cup Told(Right)
    BY <2>1 DEF Agree
  <2>4. conn[c] # "closed" => Tail(toClient[c]) = <<>>
    BY <1>6, <2>2, <2>3, NextAnswer
  <2> QED
    BY <1>6, <2>1, <2>3, <2>4 DEF Agree, Turn
<1>7. ASSUME NEW c \in Client, PasswdAnswer(c) PROVE AgreeInv'
  <2>1. /\ client[c] = "passwdWait" /\ toClient[c] # <<>>
        /\ toClient' = [toClient EXCEPT ![c] = Tail(@)]
        /\ \/ Head(toClient[c]) = Error /\ client'[c] = "passwd" /\ UNCHANGED toServer
           \/ Head(toClient[c]) = Right /\ client'[c] = "name" /\ UNCHANGED toServer
           \/ client'[c] = "failed"
        /\ UNCHANGED <<child, conn, typed, name, verified>>
        /\ \A d \in Client \ {c} : client'[d] = client[d] /\ toServer'[d] = toServer[d]
    BY <1>1, <1>7, ToServerEffect DEF PasswdAnswer, ClientGoto, ClientExit
  <2>2. /\ DOMAIN toClient' = Client /\ toClient'[c] = Tail(toClient[c])
        /\ \A d \in Client \ {c} : toClient'[d] = toClient[d]
    BY <1>1, <2>1
  <2>3. /\ Agree(c) /\ toClient'[c] \in Quiet
        /\ conn[c] # "closed" => toClient'[c] = <<>>
        /\ child[c] \notin Past /\ conn[c] # "closed" => toServer[c] = <<>>
        /\ Head(toClient[c]) = Error => toClient[c] \in Told(Error)
        /\ Head(toClient[c]) = Right => toClient[c] \in Told(Right)
    BY <1>6, <2>1, <2>2, NextAnswer DEF Waits
  <2>4. CASE client'[c] = "failed"
    BY <1>1, <1>2, <1>3, <2>1, <2>2, <2>4
  <2>5. CASE Head(toClient[c]) = Error /\ client'[c] = "passwd" /\ UNCHANGED toServer
    <3>1. child[c] \notin {"workdir", "name"}
      BY <2>1, <2>3, <2>5, Answers DEF Agree
    <3>2. Turn(c)' \/ child[c] \in Past \/ conn[c] = "closed"
      BY <2>3, <2>5 DEF Turn, Waits
    <3>3. Agree(c)'
      BY <2>1, <2>3, <2>5, <3>1, <3>2, Answers DEF Agree, Waits
    <3>4. Session(c)'
      BY <2>5, <3>3 DEF Session, Over
    <3> QED
      BY <1>1, <1>2, <2>1, <2>2, <3>4
  <2>6. CASE Head(toClient[c]) = Right /\ client'[c] = "name" /\ UNCHANGED toServer
    <3>1. verified[c]
      BY <2>3, <2>6 DEF Agree
    <3>2. Turn(c)' \/ child[c] \in Past \/ conn[c] = "closed"
      BY <2>3, <2>6 DEF Turn, Waits
    <3>3. Agree(c)'
      BY <2>1, <2>3, <2>6, <3>1, <3>2, Answers DEF Agree, Waits
    <3>4. Session(c)'
      BY <2>6, <3>3 DEF Session, Over
    <3> QED
      BY <1>1, <1>2, <2>1, <2>2, <3>4
  <2> QED
    BY <2>1, <2>4, <2>5, <2>6
<1>8. ASSUME NEW c \in Client, SendName(c) PROVE AgreeInv'
  <2>1. PICK n \in Name \cup {LongInput} :
          ToServer(c, Typed(n)) /\ typed' = [typed EXCEPT ![c] = n]
    BY <1>8, NamesAssumption DEF SendName, Typable
  <2>2. /\ client[c] \in {"name", "rename"} /\ client'[c] = "nameWait"
        /\ UNCHANGED <<child, toClient, conn, name, verified>>
        /\ \A d \in Client \ {c} :
             client'[d] = client[d] /\ toServer'[d] = toServer[d] /\ typed'[d] = typed[d]
        /\ typed' \in [Client -> Name \cup {LongInput}] /\ typed'[c] = n
    BY <1>1, <1>8, <2>1, ToServerEffect DEF SendName, ClientGoto
  <2>3. Agree(c) /\ toClient[c] \in Quiet
    BY <1>1, <2>2 DEF Session, Over, Agree, Waits
  <2>4. ASSUME child[c] \notin Past, conn[c] # "closed"
        PROVE  toServer'[c] = <<Typed(n)>> /\ Turn(c)'
    <3>1. toServer[c] = <<>> /\ toClient[c] = <<>>
      BY <2>2, <2>3, <2>4, Answers DEF Agree, Turn, Waits
    <3>2. toServer'[c] = <<Typed(n)>>
      <4>1. toServer'[c] = Append(toServer[c], Typed(n))
        BY <2>1, <2>4, ToServerEffect
      <4> QED
        BY <3>1, <4>1
    <3>3. Typed(n).kind \in {"line", "part"}
      BY DEF Typed, Line, Part
    <3>4. /\ Len(toServer'[c]) = 1 /\ toServer'[c][1] = Typed(n)
          /\ toClient'[c] = <<>>
      BY <2>2, <3>1, <3>2
    <3> QED
      BY <2>2, <3>2, <3>3, <3>4 DEF Turn, Waits
  <2>5. child[c] \in {"workdir", "name"} => child[c] \notin Past /\ conn[c] # "closed"
    BY DEF ConnInv, Past, Exited
  <2>6. Agree(c)'
    BY <2>2, <2>3, <2>4, <2>5, Answers DEF Agree, Waits
  <2>7. Session(c)'
    BY <2>2, <2>6 DEF Session, Over
  <2> QED
    BY <1>1, <1>2, <2>2, <2>7
<1>9. ASSUME NEW c \in Client, NameAnswer(c) PROVE AgreeInv'
  <2>1. /\ client[c] = "nameWait" /\ toClient[c] # <<>>
        /\ toClient' = [toClient EXCEPT ![c] = Tail(@)]
        /\ \/ Head(toClient[c]) = Error /\ client'[c] = "rename" /\ UNCHANGED toServer
           \/ Head(toClient[c]) = Right /\ client'[c] = "send" /\ UNCHANGED toServer
           \/ client'[c] = "failed"
        /\ UNCHANGED <<child, conn, typed, name, verified>>
        /\ \A d \in Client \ {c} : client'[d] = client[d] /\ toServer'[d] = toServer[d]
    BY <1>1, <1>9, ToServerEffect DEF NameAnswer, ClientGoto, ClientExit
  <2>2. /\ DOMAIN toClient' = Client /\ toClient'[c] = Tail(toClient[c])
        /\ \A d \in Client \ {c} : toClient'[d] = toClient[d]
    BY <1>1, <2>1
  <2>3. /\ Agree(c) /\ toClient'[c] \in Quiet
        /\ conn[c] # "closed" => toClient'[c] = <<>>
        /\ child[c] \notin Past /\ conn[c] # "closed" => toServer[c] = <<>>
        /\ Head(toClient[c]) = Right => toClient[c] \in Told(Right)
    BY <1>6, <2>1, <2>2, NextAnswer DEF Waits
  <2>4. CASE client'[c] = "failed"
    BY <1>1, <1>2, <1>3, <2>1, <2>2, <2>4
  <2>5. CASE client'[c] = "rename" /\ UNCHANGED toServer
    <3>1. Turn(c)' \/ child[c] \in Past \/ conn[c] = "closed"
      BY <2>3, <2>5 DEF Turn, Waits
    <3>2. Agree(c)'
      BY <2>1, <2>3, <2>5, <3>1, Answers DEF Agree, Waits
    <3>3. Session(c)'
      BY <2>5, <3>2 DEF Session, Over
    <3> QED
      BY <1>1, <1>2, <2>1, <2>2, <3>3
  <2>6. CASE Head(toClient[c]) = Right /\ client'[c] = "send" /\ UNCHANGED toServer
    <3>1. Granted(c)
      BY <2>1, <2>3, <2>6 DEF Agree
    <3>2. child[c] \notin {"workdir", "name"} /\ Granted(c)'
      BY <2>1, <3>1 DEF Granted, Past, Exited
    <3>3. Agree(c)'
      BY <2>1, <2>3, <2>6, <3>2, Answers DEF Agree, Waits, Granted
    <3>4. Session(c)'
      BY <2>6, <3>3 DEF Session, Over
    <3> QED
      BY <1>1, <1>2, <2>1, <2>2, <3>4
  <2> QED
    BY <2>1, <2>4, <2>5, <2>6
<1>10. ASSUME NEW c \in Client, SendChunk(c) PROVE AgreeInv'
  <2>1. /\ client[c] = "send"
        /\ UNCHANGED <<client, child, toClient, conn, typed, name, verified>>
        /\ \A d \in Client \ {c} : toServer'[d] = toServer[d]
    BY <1>1, <1>10, ToServerEffect DEF SendChunk
  <2>2. Agree(c) /\ Granted(c)
    BY <1>1, <2>1 DEF Session, Over, Agree
  <2>3. child[c] \in Past /\ child[c] \notin {"workdir", "name"}
    BY <2>2 DEF Granted, Past, Exited
  <2>4. Session(c)'
    BY <2>1, <2>2, <2>3 DEF Session, Agree, Granted, Over
  <2> QED
    BY <1>1, <1>2, <2>1, <2>4
<1>11. ASSUME NEW c \in Client, SendDone(c) PROVE AgreeInv'
  <2>1. /\ client[c] = "send" /\ client'[c] = "done"
        /\ UNCHANGED <<child, toClient, conn, typed, name, verified>>
        /\ \A d \in Client \ {c} : client'[d] = client[d] /\ toServer'[d] = toServer[d]
    BY <1>1, <1>11, ToServerEffect DEF SendDone, ClientExit
  <2>2. verified[c] /\ Granted(c)
    BY <1>1, <2>1 DEF Session, Over, Agree
  <2>3. Session(c)'
    BY <2>1, <2>2 DEF Session, Granted, Over
  <2> QED
    BY <1>1, <1>2, <2>1, <2>3
<1>12. ASSUME NEW c \in Client, ClientKilled(c) PROVE AgreeInv'
  <2>1. /\ client'[c] = "failed"
        /\ UNCHANGED <<child, toClient, conn, typed, name, verified>>
        /\ \A d \in Client \ {c} : client'[d] = client[d] /\ toServer'[d] = toServer[d]
    BY <1>1, <1>12, ToServerEffect DEF ClientKilled, ClientExit
  <2> QED
    BY <1>1, <1>2, <1>3, <2>1
<1>13. ASSUME Accept PROVE AgreeInv'
  <2>1. backlog \in Seq(Client) /\ backlog # <<>>
    BY <1>13 DEF Accept, TypeInv
  <2>2. PICK c : c = Head(backlog)
    OBVIOUS
  <2>3. c \in Client /\ conn[c] = "queued"
    BY <2>1, <2>2 DEF ConnInv
  <2>4. /\ conn' = [conn EXCEPT ![c] = "open"]
        /\ UNCHANGED <<client, child, toClient, toServer, typed, name, verified>>
    BY <1>13, <2>2 DEF Accept
  <2>5. conn'[c] = "open" /\ \A d \in Client \ {c} : conn'[d] = conn[d]
    BY <1>1, <2>3, <2>4
  <2>6. Session(c)'
    BY <1>1, <2>3, <2>4, <2>5 DEF Session, Agree, Turn, Granted
  <2> QED
    BY <1>1, <1>2, <2>3, <2>4, <2>5, <2>6
<1>14. ASSUME NEW c \in Client, Fork(c) PROVE AgreeInv'
  <2>1. /\ c \in accepted /\ child[c] = "none" /\ conn[c] = "open"
        /\ UNCHANGED <<client, toServer, typed, name, verified>>
    BY <1>14 DEF Fork, FreshInv, ConnInv
  <2>2. CASE child' = [child EXCEPT ![c] = "passwd"] /\ UNCHANGED <<conn, toClient>>
    <3>1. child'[c] = "passwd" /\ \A d \in Client \ {c} : child'[d] = child[d]
      BY <1>1, <2>2
    <3>2. child[c] \notin Past
      BY <2>1 DEF Past, Exited
    <3>3. Session(c)'
      BY <1>1, <2>1, <2>2, <3>1, <3>2 DEF Session, Agree, Turn, Granted
    <3> QED
      BY <1>1, <1>2, <2>1, <2>2, <3>1, <3>3
  <2>3. CASE /\ conn' = [conn EXCEPT ![c] = "closed"]
             /\ ToClient(c, Eof) /\ UNCHANGED child
    <3>1. conn'[c] = "closed" /\ \A d \in Client \ {c} : conn'[d] = conn[d]
      BY <1>1, <2>3
    <3>2. /\ DOMAIN toClient' = Client
          /\ client[c] \notin Over => toClient'[c] = Append(toClient[c], Eof)
          /\ \A d \in Client \ {c} : toClient'[d] = toClient[d]
      BY <2>3, ToClientEffect
    <3>3. Session(c)'
      <4>1. ASSUME client[c] \notin Over
            PROVE  Agree(c)'
        <5>1. Agree(c) /\ toClient'[c] = Append(toClient[c], Eof)
          BY <1>1, <3>2, <4>1 DEF Session
        <5>2. child'[c] = child[c] /\ child'[c] \notin {"workdir", "name"}
          BY <2>1, <2>3
        <5> QED
          BY <2>1, <3>1, <5>1, <5>2, EofBehind, Answers DEF Agree, Granted
      <4> QED
        BY <1>1, <2>1, <2>3, <4>1 DEF Session, Granted
    <3> QED
      BY <1>1, <1>2, <2>1, <2>3, <3>1, <3>2, <3>3
  <2> QED
    BY <1>14, <2>2, <2>3 DEF Fork
<1>15. ASSUME AcceptFails PROVE AgreeInv'
  <2>1. /\ conn' = [c \in Client |-> IF conn[c] = "queued" THEN "closed" ELSE conn[c]]
        /\ toClient' = [c \in Client |->
             IF conn[c] = "queued" /\ client[c] \notin Over
               THEN Append(toClient[c], Eof) ELSE toClient[c]]
        /\ child' = [c \in Client |-> IF child[c] = "zombie" THEN "reaped" ELSE child[c]]
        /\ UNCHANGED <<client, toServer, typed, name, verified>>
    BY <1>15 DEF AcceptFails
  <2>2. ASSUME NEW c \in Client PROVE Session(c)'
    <3>1. /\ conn'[c] = IF conn[c] = "queued" THEN "closed" ELSE conn[c]
          /\ child'[c] = IF child[c] = "zombie" THEN "reaped" ELSE child[c]
          /\ toClient'[c] = IF conn[c] = "queued" /\ client[c] \notin Over
                              THEN Append(toClient[c], Eof) ELSE toClient[c]
      BY <2>1
    <3>2. /\ child'[c] \in Past <=> child[c] \in Past
          /\ child'[c] \in {"workdir", "name"} <=> child[c] \in {"workdir", "name"}
      BY <3>1 DEF Past, Exited
    <3>3. child[c] \in {"workdir", "name"} => conn[c] = "open"
      BY DEF ConnInv, Exited
    <3>4. client[c] \notin Over => Agree(c)'
      <4> SUFFICES ASSUME client[c] \notin Over PROVE Agree(c)'
        OBVIOUS
      <4>1. Agree(c)
        BY <1>1 DEF Session
      <4>2. CASE conn[c] = "queued"
        <5>1. conn'[c] = "closed" /\ toClient'[c] = Append(toClient[c], Eof)
          BY <3>1, <4>2
        <5>2. child'[c] \notin {"workdir", "name"}
          BY <3>2, <3>3, <4>2
        <5> QED
          BY <2>1, <3>2, <4>1, <5>1, <5>2, EofBehind, Answers DEF Agree, Granted
      <4>3. CASE conn[c] # "queued"
        <5>1. conn'[c] = conn[c] /\ toClient'[c] = toClient[c]
          BY <3>1, <4>3
        <5> QED
          BY <2>1, <3>2, <4>1, <5>1 DEF Agree, Granted, Turn
      <4> QED
        BY <4>2, <4>3
    <3> QED
      BY <1>1, <2>1, <3>2, <3>4 DEF Session, Granted
  <2> QED
    BY <1>1, <2>1, <2>2 DEF AgreeInv
<1>16. ASSUME Handler PROVE AgreeInv'
  <2>1. UNCHANGED <<client, toServer, toClient, conn, typed, name, verified>>
    BY <1>16 DEF Handler, EnterHandler, WaitPid
  <2>2. ASSUME NEW c \in Client PROVE Session(c)'
    <3>1. /\ child'[c] \in Past <=> child[c] \in Past
          /\ child'[c] \in {"workdir", "name"} <=> child[c] \in {"workdir", "name"}
      BY <1>1, <1>16 DEF Handler, EnterHandler, WaitPid, Zombies, Past, Exited
    <3> QED
      BY <1>1, <2>1, <3>1 DEF Session, Agree, Turn, Granted
  <2> QED
    BY <1>1, <2>1, <2>2 DEF AgreeInv
\* A child that reads a line of a living client answers the only one under way.
<1>17. ASSUME NEW c \in Client, child[c] \in {"passwd", "name"}, client[c] \notin Over,
              toServer[c] # <<>>
       PROVE  /\ Agree(c) /\ conn[c] = "open" /\ client[c] \in Waits
              /\ toClient[c] = <<>> /\ Len(toServer[c]) = 1
              /\ Head(toServer[c]).kind \in {"line", "part"}
              /\ ~HasCutLine(c) /\ Tail(toServer[c]) = <<>>
  <2>1. Agree(c) /\ conn[c] = "open" /\ child[c] \notin Past
    BY <1>1, <1>17 DEF Session, ConnInv, Past, Exited
  <2>2. Turn(c)
    BY <2>1 DEF Agree
  <2>3. /\ client[c] \in Waits /\ toClient[c] = <<>> /\ Len(toServer[c]) = 1
        /\ toServer[c][1].kind \in {"line", "part"}
    BY <1>17, <2>2 DEF Turn
  <2>4. toServer[c] \in Seq(Messages)
    BY <1>1
  <2>5. Head(toServer[c]) = toServer[c][1] /\ Tail(toServer[c]) = <<>>
    <3>1. PICK q \in Seq(Messages) : q = toServer[c]
      BY <2>4
    <3>2. Len(q) = 1 /\ q # <<>>
      BY <1>17, <2>3, <3>1
    <3>3. Head(q) = q[1]
      BY <3>2
    <3>4. Tail(q) \in Seq(Messages) /\ Len(Tail(q)) = 0
      BY <3>2
    <3>5. Tail(q) = <<>>
      BY <3>4, EmptySeq
    <3> QED
      BY <3>1, <3>3, <3>5
  <2> QED
    BY <2>1, <2>3, <2>5 DEF HasCutLine
\* The end of the server's end of the connection.
<1>18. ASSUME NEW c \in Client, ChildExit(c), child[c] \in Past \/ client[c] \in Over,
              child[c] \notin {"none"} \cup Exited,
              UNCHANGED <<client, toServer, typed, name, verified>>
       PROVE  AgreeInv'
  <2>1. /\ child'[c] \in Exited /\ \A d \in Client \ {c} : child'[d] = child[d]
        /\ conn'[c] = "closed" /\ \A d \in Client \ {c} : conn'[d] = conn[d]
    BY <1>1, <1>18 DEF ChildExit, ChildGoto, Exited
  <2>2. /\ DOMAIN toClient' = Client
        /\ client[c] \notin Over => toClient'[c] = Append(toClient[c], Eof)
        /\ \A d \in Client \ {c} : toClient'[d] = toClient[d]
    BY <1>18, ToClientEffect DEF ChildExit
  <2>3. child'[c] \in Past /\ child'[c] \notin {"workdir", "name"}
    BY <2>1 DEF Past, Exited
  <2>4. ASSUME client[c] \notin Over
        PROVE  Agree(c)'
    <3>1. Agree(c) /\ child[c] \in Past /\ toClient'[c] = Append(toClient[c], Eof)
      BY <1>1, <1>18, <2>2, <2>4 DEF Session
    <3> QED
      BY <1>18, <2>1, <2>3, <3>1, EofBehind, Answers DEF Agree, Granted
  <2>5. Session(c)'
    BY <1>1, <1>18, <2>3, <2>4 DEF Session, Granted
  <2> QED
    BY <1>1, <1>2, <1>18, <2>1, <2>2, <2>5
<1>19. ASSUME NEW c \in Client, CheckPasswd(c) PROVE AgreeInv'
  <2>1. /\ child[c] = "passwd" /\ toServer[c] # <<>> /\ ~verified[c]
        /\ toServer' = [toServer EXCEPT ![c] = Tail(@)]
        /\ UNCHANGED <<client, conn, typed, name>>
    BY <1>19 DEF CheckPasswd, HasLine, HasCutLine, From, Consume, SafeInv, ChildInv
  <2>2. PICK m \in {Error, Right} :
          /\ ToClient(c, m)
          /\ m = Right => child'[c] = "workdir" /\ verified'[c]
          /\ m = Error => child'[c] \in {"passwd", "close"} /\ verified'[c] = verified[c]
          /\ \A d \in Client \ {c} : child'[d] = child[d] /\ verified'[d] = verified[d]
    <3>1. CASE LineRead(c) = Secret
      <4>1. /\ ToClient(c, Right)
            /\ verified' = [verified EXCEPT ![c] = TRUE]
            /\ child' = [child EXCEPT ![c] = "workdir"]
        BY <1>19, <3>1 DEF CheckPasswd, ChildGoto
      <4>2. /\ verified'[c] /\ child'[c] = "workdir"
            /\ \A d \in Client \ {c} : child'[d] = child[d] /\ verified'[d] = verified[d]
        BY <1>1, <4>1
      <4>3. Right # Error
        BY DEF Right, Error
      <4> QED
        BY <4>1, <4>2, <4>3, Zenon
    <3>2. CASE LineRead(c) # Secret
      <4>1. /\ ToClient(c, Error) /\ verified' = verified
            /\ \E s \in {"passwd", "close"} : child' = [child EXCEPT ![c] = s]
        BY <1>19, <3>2 DEF CheckPasswd, ChildGoto
      <4>2. /\ child'[c] \in {"passwd", "close"} /\ verified'[c] = verified[c]
            /\ \A d \in Client \ {c} : child'[d] = child[d] /\ verified'[d] = verified[d]
        BY <1>1, <4>1
      <4>3. Right # Error
        BY DEF Right, Error
      <4> QED
        BY <4>1, <4>2, <4>3, Zenon
    <3> QED
      BY <3>1, <3>2
  <2>3. /\ DOMAIN toClient' = Client
        /\ client[c] \notin Over => toClient'[c] = Append(toClient[c], m)
        /\ \A d \in Client \ {c} : toClient'[d] = toClient[d]
    BY <2>2, ToClientEffect
  <2>4. /\ toServer'[c] = Tail(toServer[c])
        /\ \A d \in Client \ {c} : toServer'[d] = toServer[d]
    BY <1>1, <2>1
  <2>5. ASSUME client[c] \notin Over
        PROVE  Agree(c)'
    <3>1. /\ Agree(c) /\ conn[c] = "open" /\ client[c] \in Waits
          /\ toClient'[c] = <<m>> /\ toServer'[c] = <<>>
      BY <1>17, <2>1, <2>3, <2>4, <2>5, Answers
    <3>2. client[c] = "passwdWait"
      BY <2>1, <3>1 DEF Agree, Waits
    <3>3. Turn(c)'
      BY <2>1, <3>1, Answers DEF Turn
    <3>4. <<m>> \in Told(m) /\ (m = Error => <<m>> \notin Told(Right))
      BY Answers
    <3> QED
      BY <2>1, <2>2, <3>1, <3>2, <3>3, <3>4, Answers DEF Agree, Waits
  <2>6. client[c] # "done"
    BY <1>1, <2>1 DEF Session
  <2>7. Session(c)'
    BY <2>1, <2>5, <2>6 DEF Session
  <2> QED
    BY <1>1, <1>2, <2>1, <2>2, <2>3, <2>4, <2>7
<1>20. ASSUME NEW c \in Client, ClientGone(c) PROVE AgreeInv'
  <2>1. /\ child[c] \in {"passwd", "name"} /\ toServer[c] # <<>> /\ ChildExit(c)
        /\ Head(toServer[c]).kind = "eof" \/ client[c] \in Over
        /\ UNCHANGED <<client, toServer, typed, name, verified>>
    BY <1>20 DEF ClientGone, HasLine, HasCutLine, From
  <2>2. client[c] \in Over
    BY <1>17, <2>1
  <2> QED
    BY <1>18, <2>1, <2>2 DEF Exited
<1>21. ASSUME NEW c \in Client, CloseConnection(c) \/ WriteFails(c) PROVE AgreeInv'
  <2>1. /\ child[c] \in {"close", "receive"} /\ ChildExit(c)
        /\ UNCHANGED <<client, toServer, typed, name, verified>>
    BY <1>21 DEF CloseConnection, WriteFails
  <2> QED
    BY <1>18, <2>1 DEF Past, Exited
<1>22. ASSUME NEW c \in Client, SetWorkDir(c) PROVE AgreeInv'
  <2>1. /\ child[c] = "workdir" /\ child'[c] \in {"name", "close"}
        /\ UNCHANGED <<client, toServer, toClient, conn, typed, name, verified>>
        /\ \A d \in Client \ {c} : child'[d] = child[d]
    BY <1>1, <1>22 DEF SetWorkDir, ChildGoto
  <2>2. child[c] \notin Past
    BY <2>1 DEF Past, Exited
  <2>3. Session(c)'
    BY <1>1, <2>1, <2>2 DEF Session, Agree, Turn, Granted
  <2> QED
    BY <1>1, <1>2, <2>1, <2>3
<1>23. ASSUME NEW c \in Client, CheckName(c) PROVE AgreeInv'
  <2>1. /\ child[c] = "name" /\ toServer[c] # <<>> /\ verified[c]
        /\ HasLine(c) \/ HasCutLine(c)
        /\ toServer' = [toServer EXCEPT ![c] = Tail(@)]
        /\ name' = [name EXCEPT ![c] = LineRead(c)]
        /\ UNCHANGED <<client, conn, typed, verified>>
    BY <1>23 DEF CheckName, HasLine, HasCutLine, From, Consume, SafeInv, ChildInv
  <2>2. PICK m \in {Error, Right} :
          /\ ToClient(c, m)
          /\ m = Right => child'[c] = "open"
          /\ m = Error => child'[c] = "name"
          /\ \A d \in Client \ {c} : child'[d] = child[d]
    <3>1. \/ ToClient(c, Error) /\ child' = child
          \/ ToClient(c, Right) /\ child' = [child EXCEPT ![c] = "open"]
      BY <1>23, <2>1 DEF CheckName, ChildGoto
    <3>2. Right # Error
      BY DEF Right, Error
    <3>3. CASE ToClient(c, Error) /\ child' = child
      <4>1. child'[c] = "name" /\ \A d \in Client \ {c} : child'[d] = child[d]
        BY <2>1, <3>3
      <4> QED
        BY <3>2, <3>3, <4>1, Zenon
    <3>4. CASE ToClient(c, Right) /\ child' = [child EXCEPT ![c] = "open"]
      <4>1. child'[c] = "open" /\ \A d \in Client \ {c} : child'[d] = child[d]
        BY <1>1, <3>4
      <4> QED
        BY <3>2, <3>4, <4>1, Zenon
    <3> QED
      BY <3>1, <3>3, <3>4
  <2>3. /\ DOMAIN toClient' = Client
        /\ client[c] \notin Over => toClient'[c] = Append(toClient[c], m)
        /\ \A d \in Client \ {c} : toClient'[d] = toClient[d]
    BY <2>2, ToClientEffect
  <2>4. /\ toServer'[c] = Tail(toServer[c]) /\ name'[c] = LineRead(c)
        /\ \A d \in Client \ {c} : toServer'[d] = toServer[d] /\ name'[d] = name[d]
    BY <1>1, <2>1
  <2>5. ASSUME client[c] \notin Over
        PROVE  Agree(c)'
    <3>1. /\ Agree(c) /\ conn[c] = "open" /\ client[c] \in Waits
          /\ toClient[c] = <<>> /\ toClient'[c] = <<m>> /\ toServer'[c] = <<>>
          /\ ~HasCutLine(c)
      BY <1>17, <2>1, <2>3, <2>4, <2>5, Answers
    <3>2. client[c] = "nameWait" /\ toServer[c] = <<Typed(typed[c])>>
      BY <2>1, <3>1, Answers DEF Agree, Waits
    <3>3. name'[c] = typed[c]
      <4>1. HasLine(c) /\ Head(toServer[c]) = Typed(typed[c])
        BY <2>1, <3>1, <3>2
      <4> QED
        BY <2>4, <4>1 DEF HasLine, From, LineRead, Typed, Line, Part
    <3>4. Turn(c)'
      BY <2>1, <3>1, Answers DEF Turn
    <3>5. <<m>> \in Told(m) /\ (m = Error => <<m>> \notin Told(Right))
      BY Answers
    <3>6. m = Right => Granted(c)'
      BY <2>1, <2>2, <3>3 DEF Granted, Past
    <3> QED
      BY <2>1, <2>2, <3>1, <3>2, <3>4, <3>5, <3>6, Answers DEF Agree, Waits
  <2>6. client[c] # "done"
    BY <1>1, <2>1 DEF Session, Granted, Past, Exited
  <2>7. Session(c)'
    BY <2>1, <2>5, <2>6 DEF Session
  <2> QED
    BY <1>1, <1>2, <2>1, <2>2, <2>3, <2>4, <2>7
<1>24. ASSUME NEW c \in Client, OpenFile(c) \/ ReceiveChunk(c) \/ ReceiveDone(c)
       PROVE  AgreeInv'
  <2>1. /\ child[c] \in {"open", "receive"} /\ child'[c] \in {"receive", "close"}
        /\ UNCHANGED <<client, toClient, conn, typed, name, verified>>
        /\ \A d \in Client \ {c} : child'[d] = child[d] /\ toServer'[d] = toServer[d]
    BY <1>1, <1>24 DEF OpenFile, ReceiveChunk, ReceiveDone, ChildGoto, Consume
  <2>2. /\ child[c] \in Past /\ child'[c] \in Past
        /\ child'[c] \notin {"workdir", "name"}
    BY <2>1 DEF Past, Exited
  <2>3. Session(c)'
    BY <1>1, <2>1, <2>2 DEF Session, Agree, Granted
  <2> QED
    BY <1>1, <1>2, <2>1, <2>3
<1>25. ASSUME UNCHANGED vars PROVE AgreeInv'
  <2>1. \A c \in Client : Session(c)'
    BY <1>1, <1>25, Elsewhere DEF vars
  <2> QED
    BY <1>1, <1>25, <2>1 DEF vars, AgreeInv
<1> QED
  BY <1>4, <1>5, <1>7, <1>8, <1>9, <1>10, <1>11, <1>12, <1>13, <1>14, <1>15, <1>16,
     <1>19, <1>20, <1>21, <1>22, <1>23, <1>24, <1>25
     DEF Next, ClientWork, ChildWork, ParentWork



LEMMA Reachable ==
  Spec => [](TypeInv /\ FreshInv /\ SafeInv /\ ConnInv /\ AgreeInv)
BY TypeInit, TypeStep, FreshInit, FreshStep, SafeInit, SafeStep, ConnInit, ConnStep,
   AgreeInit, AgreeStep, PTL DEF Spec

\* However many clients connect, type and are killed: what is stored was sent on
\* a verified connection, and files that were there are not touched
\* (transfileserver.c:86-93).
THEOREM ServerSafe == Spec => []StoredIsVerified
<1>1. TypeInv /\ SafeInv => StoredIsVerified
  BY DEF TypeInv, SafeInv, DiskInv, StoredIsVerified
<1> QED
  BY <1>1, Reachable, PTL

\* Nobody has more than NUM_VERIFY_PASSWD attempts, and after the last one nothing
\* else is served (transfile.c:187-217).
THEOREM AttemptsSafe == Spec => []AttemptsLimited
<1>1. TypeInv /\ SafeInv => AttemptsLimited
  BY DEF TypeInv, SafeInv, ChildInv, AttemptsLimited, ChildState, Exited
<1> QED
  BY <1>1, Reachable, PTL

\* No zombie is overlooked by sig_chld (transfile.c:27-33).
THEOREM ZombiesSafe == Spec => []ZombieNoticed
<1>1. SafeInv => ZombieNoticed
  BY DEF SafeInv, ZombieInv, ZombieNoticed
<1> QED
  BY <1>1, Reachable, PTL

\* Both ends agree: a client that went on was verified, and its file goes to the
\* name it sent last (transfile.c:64-92, client.c:42-60).
THEOREM EndsSafe == Spec => []EndsAgree
<1>1. TypeInv /\ AgreeInv => EndsAgree
  <2> SUFFICES ASSUME TypeInv, AgreeInv, NEW c \in Client
               PROVE  /\ client[c] \in {"name", "rename", "nameWait", "send", "done"} => verified[c]
                      /\ client[c] \in {"send", "done"} => name[c] = typed[c]
    BY DEF EndsAgree
  <2>1. Session(c)
    BY DEF AgreeInv
  <2> QED
    BY <2>1 DEF Session, Agree, Granted, Over
<1> QED
  BY <1>1, Reachable, PTL

-------------------------------------------------------------------------------
(* What is stored is the beginning of what was sent. *)

\* No two clients have a name in common, and none has the name that is left of a
\* line which is too long.
NamesApart ==
  \A c \in Client :
    Truncated \notin Wanted[c] /\ \A d \in Client \ {c} : Wanted[c] \cap Wanted[d] = {}

Stores == {"receive", "close"} \cup Exited \* the children that may have a file

\* What a client may have on its way at each place of its child: behind a line
\* nothing but the end, before a name was granted only names, then chunks that
\* follow the ones the child has written.
Behind(c) ==
  child[c] \notin Past => \A k \in 2..Len(toServer[c]) : toServer[c][k] = Eof
Names(c) ==
  child[c] \in {"workdir", "name"} =>
    \A k \in 1..Len(toServer[c]) :
      toServer[c][k].kind = "line" => toServer[c][k].val \in Wanted[c]
Chunks(c) ==
  child[c] \in {"open", "receive"} =>
    /\ \A k \in 1..Len(toServer[c]) : toServer[c][k] \in {Eof, Data(offset[c] + k)}
    /\ (\E k \in 1..Len(toServer[c]) : toServer[c][k].kind = "data") => name[c] \in Wanted[c]
    /\ client[c] \notin Over =>
         /\ client[c] = "send" \/ (client[c] = "nameWait" /\ toClient[c] = <<Right>>)
         /\ sent[c] = offset[c] + Len(toServer[c])
         /\ name[c] \in Wanted[c]

Stream(c) ==
  /\ name[c] \in Wanted[c] \cup {Truncated}
  /\ child[c] \notin Stores => offset[c] = 0
  /\ client[c] \notin {"send"} \cup Over => sent[c] = 0
  /\ Behind(c) /\ Names(c) /\ Chunks(c)

StreamInv == \A c \in Client : Stream(c)

\* What there is in a file came from the one child that has its name, in order.
FileInv ==
  /\ \A n \in Name, i \in 1..FileLength :
       content[n][i] # NoChunk =>
         \E c \in Client : name[c] = n /\ n \in Wanted[c] /\ child[c] \in Stores
  /\ \A c \in Client, i \in 1..FileLength :
       content[name[c]][i] = (IF i <= offset[c] THEN <<c, i>> ELSE NoChunk)

LEMMA StreamInit == Init => StreamInv
BY DEF Init, StreamInv, Stream, Behind, Names, Chunks, Stores, Exited

LEMMA FileInit == Init => FileInv
<1> SUFFICES ASSUME Init PROVE FileInv
  OBVIOUS
<1>1. \A n \in Name, i \in 1..FileLength : content[n][i] = NoChunk
  BY DEF Init
<1>2. \A c \in Client : name[c] \in Name /\ offset[c] = 0
  BY DEF Init
<1> QED
  BY <1>1, <1>2 DEF FileInv

\* A message behind the others, and the first one taken away.
LEMMA SentBehind ==
  ASSUME NEW q \in Seq(Messages), NEW m \in Messages, NEW t, t = Append(q, m)
  PROVE  /\ Len(t) = Len(q) + 1
         /\ \A k \in 1..Len(t) : (k \in 1..Len(q) /\ t[k] = q[k]) \/ (k = Len(q) + 1 /\ t[k] = m)
<1>1. /\ Len(t) = Len(q) + 1 /\ Len(q) \in Nat
      /\ \A k \in 1..Len(q) : t[k] = q[k]
      /\ t[Len(q) + 1] = m
  BY AppendProperties
<1> QED
  BY <1>1

LEMMA ReadAhead ==
  ASSUME NEW q \in Seq(Messages), q # <<>>, NEW t, t = Tail(q)
  PROVE  /\ Len(q) = Len(t) + 1 /\ Len(t) \in Nat
         /\ Head(q) = q[1] /\ 1 \in 1..Len(q) /\ q[1] \in Messages
         /\ \A k \in 1..Len(t) : k + 1 \in 1..Len(q) /\ k + 1 \in 2..Len(q) /\ t[k] = q[k + 1]
<1>1. Len(q) \in Nat \ {0} /\ Head(q) = q[1]
  BY EmptySeq
<1>2. /\ Len(t) = Len(q) - 1
      /\ \A k \in 1..Len(q) - 1 : t[k] = q[k + 1]
  BY <1>1
<1>3. 1 \in 1..Len(q)
  BY <1>1
<1>4. q[1] \in Messages
  BY <1>3
<1> QED
  BY <1>1, <1>2, <1>3, <1>4

\* What a stream depends on.
LEMMA StreamElsewhere ==
  ASSUME NEW d \in Client, Stream(d),
         /\ client'[d] = client[d] /\ child'[d] = child[d]
         /\ toServer'[d] = toServer[d] /\ toClient'[d] = toClient[d]
         /\ sent'[d] = sent[d] /\ offset'[d] = offset[d] /\ name'[d] = name[d]
  PROVE  Stream(d)'
BY DEF Stream, Behind, Names, Chunks

LEMMA StreamStep ==
  TypeInv /\ FreshInv /\ ConnInv /\ AgreeInv /\ StreamInv /\ [Next]_vars => StreamInv'
<1> SUFFICES ASSUME TypeInv, FreshInv, ConnInv, AgreeInv, StreamInv, [Next]_vars
             PROVE  StreamInv'
  OBVIOUS
<1> USE DEF serverVars, channels, clientVars, childVars, files
<1>1. /\ DOMAIN toClient = Client
      /\ toServer \in [Client -> Seq(Messages)]
      /\ client \in [Client -> Over \cup {"start", "passwd", "passwdWait", "name",
                                          "rename", "nameWait", "send"}]
      /\ child \in [Client -> ChildState]
      /\ name \in [Client -> Name \cup {Secret, Wrong, LongInput}]
      /\ sent \in [Client -> 0..FileLength] /\ offset \in [Client -> Nat]
      /\ \A c \in Client : Stream(c)
      /\ \A c \in Client : client[c] \notin Over => Agree(c)
  BY DEF TypeInv, AgreeInv, Session, StreamInv
<1>2. ASSUME NEW c \in Client, Stream(c)',
             \A d \in Client \ {c} :
               /\ client'[d] = client[d] /\ child'[d] = child[d]
               /\ toServer'[d] = toServer[d] /\ toClient'[d] = toClient[d]
               /\ sent'[d] = sent[d] /\ offset'[d] = offset[d] /\ name'[d] = name[d]
      PROVE  StreamInv'
  <2>1. ASSUME NEW d \in Client PROVE Stream(d)'
    <3>1. CASE d = c
      BY <1>2, <3>1
    <3>2. CASE d # c
      BY <1>1, <1>2, <3>2, StreamElsewhere
    <3> QED
      BY <3>1, <3>2
  <2> QED
    BY <2>1 DEF StreamInv
\* The end of a client goes behind everything it has sent.
<1>3. ASSUME NEW c \in Client, NEW how \in Over, ClientExit(c, how),
             UNCHANGED <<child, sent, offset, name>>
      PROVE  /\ Stream(c)'
             /\ \A d \in Client \ {c} : client'[d] = client[d] /\ toServer'[d] = toServer[d]
  <2>1. /\ client'[c] \in Over
        /\ \A d \in Client \ {c} : client'[d] = client[d] /\ toServer'[d] = toServer[d]
    BY <1>1, <1>3, ToServerEffect DEF ClientExit
  <2>2. PICK q \in Seq(Messages) : q = toServer[c]
    BY <1>1
  <2>3. PICK t : t = toServer'[c]
    OBVIOUS
  <2>4. t = q \/ t = Append(q, Eof)
    BY <1>1, <1>3, <2>2, <2>3 DEF ClientExit, ToServer
  <2>5. \A k \in 1..Len(t) : (k \in 1..Len(q) /\ t[k] = q[k]) \/ t[k] = Eof
    BY <2>4, SentBehind, MessageTypes
  <2>6. Eof.kind # "line" /\ Eof.kind # "data"
    BY DEF Eof
  <2>7. Stream(c) /\ \A k \in 2..Len(q) : k \in 1..Len(q)
    BY <1>1
  <2>8. Behind(c)'
    <3> SUFFICES ASSUME child[c] \notin Past, NEW k \in 2..Len(t) PROVE t[k] = Eof
      BY <1>3, <2>3 DEF Behind
    <3>1. k \in 1..Len(t) /\ (k \in 1..Len(q) => k \in 2..Len(q))
      BY <2>2
    <3> QED
      BY <2>2, <2>5, <2>7, <3>1 DEF Stream, Behind
  <2>9. Names(c)'
    BY <1>3, <2>2, <2>3, <2>5, <2>6, <2>7 DEF Stream, Names
  <2>10. Chunks(c)'
    BY <1>3, <2>1, <2>2, <2>3, <2>5, <2>6, <2>7 DEF Stream, Chunks
  <2> QED
    BY <1>3, <2>1, <2>7, <2>8, <2>9, <2>10 DEF Stream
\* A line is the only thing under way: the child has answered all others.
<1>4. ASSUME NEW c \in Client, client[c] \in {"passwd", "name", "rename"},
             NEW m \in Messages, ToServer(c, m), UNCHANGED child
      PROVE  /\ child[c] \notin {"open", "receive"} /\ Behind(c)'
             /\ child[c] \in {"workdir", "name"} => Len(toServer'[c]) = 1 /\ toServer'[c][1] = m
  <2>1. Agree(c) /\ Stream(c)
    BY <1>1, <1>4 DEF Over
  <2>2. child[c] \notin {"open", "receive"}
    BY <1>4, <2>1 DEF Stream, Chunks, Over
  <2>3. PICK q \in Seq(Messages) : q = toServer[c]
    BY <1>1
  <2>4. PICK t : t = toServer'[c]
    OBVIOUS
  <2>5. conn[c] = "closed" => t = q
    BY <1>4, <2>3, <2>4 DEF ToServer
  <2>6. ASSUME child[c] \notin Past, conn[c] # "closed"
        PROVE  Len(t) = 1 /\ t[1] = m
    <3>1. q = <<>>
      BY <1>4, <2>1, <2>3, <2>6 DEF Agree, Turn, Waits
    <3>2. t = Append(q, m)
      BY <2>3, <2>4, <2>6, <1>4, ToServerEffect
    <3> QED
      BY <3>1, <3>2
  <2>7. child[c] \in {"workdir", "name"} => child[c] \notin Past /\ conn[c] # "closed"
    BY DEF ConnInv, Past, Exited
  <2>8. Behind(c)'
    BY <1>4, <2>1, <2>3, <2>4, <2>5, <2>6 DEF Stream, Behind
  <2> QED
    BY <2>2, <2>4, <2>6, <2>7, <2>8
<1>5. ASSUME NEW c \in Client, Connect(c) PROVE StreamInv'
  <2>1. /\ client[c] = "start" /\ client'[c] \in {"passwd", "failed"}
        /\ UNCHANGED <<child, toServer, toClient, sent, offset, name>>
        /\ \A d \in Client \ {c} : client'[d] = client[d]
    BY <1>1, <1>5 DEF Connect, ClientGoto
  <2>2. child[c] = "none"
    BY <2>1 DEF FreshInv
  <2>3. Stream(c)'
    BY <1>1, <2>1, <2>2 DEF Stream, Behind, Names, Chunks, Over
  <2> QED
    BY <1>2, <2>1, <2>3
<1>6. ASSUME NEW c \in Client, TypePasswd(c) PROVE StreamInv'
  <2>1. PICK m \in Messages : ToServer(c, m)
    BY <1>6, MessageTypes DEF TypePasswd, Typable
  <2>2. /\ client[c] = "passwd" /\ client'[c] = "passwdWait"
        /\ UNCHANGED <<child, toClient, sent, offset, name>>
        /\ \A d \in Client \ {c} : client'[d] = client[d] /\ toServer'[d] = toServer[d]
    BY <1>1, <1>6, <2>1, ToServerEffect DEF TypePasswd, ClientGoto
  <2>3. Agree(c)
    BY <1>1, <2>2 DEF Over
  <2>4. child[c] \notin {"workdir", "name", "open", "receive"} /\ Behind(c)'
    BY <1>4, <2>1, <2>2, <2>3 DEF Agree
  <2>5. Stream(c)'
    BY <1>1, <2>2, <2>4 DEF Stream, Names, Chunks, Over
  <2> QED
    BY <1>2, <2>2, <2>5
<1>7. ASSUME NEW c \in Client, SendName(c) PROVE StreamInv'
  <2>1. PICK n \in Wanted[c] \cup {LongInput} : ToServer(c, Typed(n))
    BY <1>7 DEF SendName, Typable
  <2>2. Typed(n) \in Messages /\ (Typed(n).kind = "line" => Typed(n).val \in Wanted[c])
    <3>1. n \in Name \cup {LongInput}
      BY NamesAssumption
    <3> QED
      BY <3>1, MessageTypes DEF Typed, Line, Part
  <2>3. /\ client[c] \in {"name", "rename"} /\ client'[c] = "nameWait"
        /\ UNCHANGED <<child, toClient, sent, offset, name>>
        /\ \A d \in Client \ {c} : client'[d] = client[d] /\ toServer'[d] = toServer[d]
    BY <1>1, <1>7, <2>1, ToServerEffect DEF SendName, ClientGoto
  <2>4. /\ child[c] \notin {"open", "receive"} /\ Behind(c)'
        /\ child[c] \in {"workdir", "name"} =>
             Len(toServer'[c]) = 1 /\ toServer'[c][1] = Typed(n)
    BY <1>4, <2>1, <2>2, <2>3
  <2>5. Names(c)'
    BY <2>2, <2>3, <2>4 DEF Names
  <2>6. Stream(c)'
    BY <1>1, <2>3, <2>4, <2>5 DEF Stream, Chunks, Over
  <2> QED
    BY <1>2, <2>3, <2>6
<1>8. ASSUME NEW c \in Client, PasswdAnswer(c) \/ NameAnswer(c) PROVE StreamInv'
  <2>1. /\ client[c] \in Waits /\ toClient[c] # <<>>
        /\ \A d \in Client \ {c} : toClient'[d] = toClient[d]
        /\ UNCHANGED <<child, sent, offset, name>>
        /\ \/ ClientExit(c, "failed")
           \/ /\ client[c] = "passwdWait" /\ client' = [client EXCEPT ![c] = "passwd"]
              /\ UNCHANGED toServer
           \/ /\ client[c] = "passwdWait" /\ client' = [client EXCEPT ![c] = "name"]
              /\ UNCHANGED toServer
           \/ /\ client[c] = "nameWait" /\ client' = [client EXCEPT ![c] = "rename"]
              /\ Head(toClient[c]) = Error /\ UNCHANGED toServer
           \/ /\ client[c] = "nameWait" /\ client' = [client EXCEPT ![c] = "send"]
              /\ UNCHANGED toServer
    BY <1>1, <1>8 DEF PasswdAnswer, NameAnswer, ClientGoto, Waits
  <2>2. CASE ClientExit(c, "failed")
    BY <1>2, <1>3, <2>1, <2>2 DEF Over
  <2>3. CASE UNCHANGED toServer /\ ~ClientExit(c, "failed")
    <3>1. \A d \in Client \ {c} : client'[d] = client[d]
      BY <1>1, <2>1, <2>3
    <3>2. client'[c] \in {"passwd", "name", "rename", "send"} /\ client[c] \notin Over
      BY <1>1, <2>1, <2>3 DEF Over, Waits
    <3>3. child[c] \in {"open", "receive"} => client'[c] = "send"
      <4> SUFFICES ASSUME child[c] \in {"open", "receive"} PROVE client'[c] = "send"
        OBVIOUS
      <4>1. client[c] = "nameWait" /\ toClient[c] = <<Right>>
        BY <1>1, <2>1, <3>2 DEF Stream, Chunks, Waits
      <4>2. Head(toClient[c]) # Error
        BY <4>1 DEF Right, Error
      <4> QED
        BY <1>1, <2>1, <2>3, <4>1, <4>2
    <3>4. Stream(c)'
      BY <1>1, <2>1, <2>3, <3>2, <3>3 DEF Stream, Behind, Names, Chunks, Over, Waits
    <3> QED
      BY <1>2, <2>1, <2>3, <3>1, <3>4
  <2> QED
    BY <2>1, <2>2, <2>3
<1>9. ASSUME NEW c \in Client, SendDone(c) \/ ClientKilled(c) PROVE StreamInv'
  <2>1. PICK how \in Over : ClientExit(c, how)
    BY <1>9 DEF SendDone, ClientKilled, Over
  <2>2. UNCHANGED <<child, toClient, sent, offset, name>>
    BY <1>9 DEF SendDone, ClientKilled
  <2> QED
    BY <1>2, <1>3, <2>1, <2>2
<1>10. ASSUME NEW c \in Client, SendChunk(c) PROVE StreamInv'
  <2>1. /\ client[c] = "send" /\ sent[c] < FileLength
        /\ sent'[c] = sent[c] + 1 /\ ToServer(c, Data(sent[c] + 1))
        /\ UNCHANGED <<client, child, toClient, offset, name>>
        /\ \A d \in Client \ {c} : sent'[d] = sent[d] /\ toServer'[d] = toServer[d]
    BY <1>1, <1>10, ToServerEffect DEF SendChunk
  <2>2. child[c] \in Past /\ Stream(c)
    BY <1>1, <2>1 DEF Agree, Granted, Over
  <2>3. Chunks(c)'
    <3> SUFFICES ASSUME child[c] \in {"open", "receive"} PROVE Chunks(c)'
      BY <2>1 DEF Chunks
    <3>1. PICK q \in Seq(Messages) : q = toServer[c]
      BY <1>1
    <3>2. PICK t : t = toServer'[c]
      OBVIOUS
    <3>3. PICK m \in Messages : m = Data(sent[c] + 1)
      <4>1. sent[c] + 1 \in 1..FileLength
        BY <1>1, <2>1
      <4> QED
        BY <4>1, MessageTypes
    <3>4. t = Append(q, m)
      <4>1. conn[c] # "closed"
        BY DEF ConnInv, Exited
      <4> QED
        BY <2>1, <3>1, <3>2, <3>3, <4>1, ToServerEffect
    <3>5. sent[c] = offset[c] + Len(q) /\ name[c] \in Wanted[c]
      BY <2>1, <2>2, <3>1 DEF Stream, Chunks, Over
    <3>6. /\ Len(t) = Len(q) + 1
          /\ \A k \in 1..Len(t) : (k \in 1..Len(q) /\ t[k] = q[k]) \/ (k = Len(q) + 1 /\ t[k] = m)
      BY <3>4, SentBehind
    <3>7. ASSUME NEW k \in 1..Len(t) PROVE t[k] \in {Eof, Data(offset[c] + k)}
      <4>1. CASE k \in 1..Len(q) /\ t[k] = q[k]
        BY <2>2, <3>1, <4>1 DEF Stream, Chunks
      <4>2. CASE k = Len(q) + 1 /\ t[k] = m
        <5>1. offset[c] + k = sent[c] + 1
          BY <1>1, <3>1, <3>5, <4>2
        <5> QED
          BY <3>3, <4>2, <5>1
      <4> QED
        BY <3>6, <4>1, <4>2
    <3>8. sent'[c] = offset[c] + Len(t)
      BY <1>1, <2>1, <3>1, <3>5, <3>6
    <3> QED
      BY <2>1, <3>2, <3>5, <3>7, <3>8 DEF Chunks
  <2>4. Stream(c)'
    BY <2>1, <2>2, <2>3 DEF Stream, Behind, Names, Past, Exited
  <2> QED
    BY <1>2, <2>1, <2>4
<1>11. ASSUME Accept \/ EnterHandler PROVE StreamInv'
  <2>1. UNCHANGED <<client, child, toServer, toClient, sent, offset, name>>
    BY <1>11 DEF Accept, EnterHandler
  <2> QED
    BY <1>1, <2>1, StreamElsewhere DEF StreamInv
<1>12. ASSUME NEW c \in Client, Fork(c) PROVE StreamInv'
  <2>1. /\ child[c] = "none" /\ child'[c] \in {"none", "passwd"}
        /\ UNCHANGED <<client, toServer, sent, offset, name>>
        /\ \A d \in Client \ {c} : child'[d] = child[d] /\ toClient'[d] = toClient[d]
    BY <1>1, <1>12, ToClientEffect DEF Fork, FreshInv
  <2>2. Stream(c)'
    BY <1>1, <2>1 DEF Stream, Behind, Names, Chunks, Stores, Past, Exited
  <2> QED
    BY <1>2, <2>1, <2>2
<1>13. ASSUME AcceptFails \/ WaitPid PROVE StreamInv'
  <2>1. UNCHANGED <<client, toServer, sent, offset, name>>
    BY <1>13 DEF AcceptFails, WaitPid
  <2>2. ASSUME NEW c \in Client PROVE Stream(c)'
    <3>1. child'[c] = child[c] \/ (child[c] \in Exited /\ child'[c] \in Exited)
      BY <1>1, <1>13 DEF AcceptFails, WaitPid, Zombies, Exited
    <3>2. child[c] \in {"open", "receive"} => toClient'[c] = toClient[c]
      <4>1. child[c] \in {"open", "receive"} => conn[c] # "queued"
        BY DEF ConnInv, Exited
      <4> QED
        BY <1>13, <4>1 DEF AcceptFails, WaitPid
    <3> QED
      BY <1>1, <2>1, <3>1, <3>2 DEF Stream, Behind, Names, Chunks, Stores, Past, Exited
  <2> QED
    BY <2>2 DEF StreamInv
\* What is left when a child has read a line, and how far the others are off.
<1>14. ASSUME NEW c \in Client, child[c] \in {"passwd", "name"}, toServer[c] # <<>>, Consume(c)
       PROVE  /\ \A k \in 1..Len(toServer'[c]) : toServer'[c][k] = Eof
              /\ \A d \in Client \ {c} : toServer'[d] = toServer[d]
  <2>1. PICK q \in Seq(Messages) : q = toServer[c]
    BY <1>1
  <2>2. PICK t : t = Tail(q)
    OBVIOUS
  <2>3. toServer'[c] = t /\ \A d \in Client \ {c} : toServer'[d] = toServer[d]
    BY <1>1, <1>14, <2>1, <2>2 DEF Consume
  <2>4. child[c] \notin Past /\ Stream(c)
    BY <1>1, <1>14 DEF Past, Exited
  <2>5. \A k \in 2..Len(q) : q[k] = Eof
    BY <2>1, <2>4 DEF Stream, Behind
  <2>6. \A k \in 1..Len(t) : k + 1 \in 2..Len(q) /\ t[k] = q[k + 1]
    BY <1>14, <2>1, <2>2, ReadAhead
  <2> QED
    BY <2>3, <2>5, <2>6
<1>15. ASSUME NEW c \in Client, CheckPasswd(c) PROVE StreamInv'
  <2>1. /\ child[c] = "passwd" /\ toServer[c] # <<>> /\ Consume(c)
        /\ child'[c] \in {"passwd", "workdir", "close"}
        /\ UNCHANGED <<client, sent, offset, name>>
        /\ \A d \in Client \ {c} : child'[d] = child[d] /\ toClient'[d] = toClient[d]
    BY <1>1, <1>15, ToClientEffect
       DEF CheckPasswd, ChildGoto, HasLine, HasCutLine, From
  <2>2. /\ \A k \in 1..Len(toServer'[c]) : toServer'[c][k] = Eof
        /\ \A d \in Client \ {c} : toServer'[d] = toServer[d]
    BY <1>14, <2>1
  <2>3. Behind(c)'
    <3>1. \A k \in 2..Len(toServer'[c]) : k \in 1..Len(toServer'[c])
      OBVIOUS
    <3> QED
      BY <2>2, <3>1 DEF Behind
  <2>4. Names(c)'
    BY <2>2 DEF Names, Eof
  <2>5. Stream(c)'
    BY <1>1, <2>1, <2>3, <2>4 DEF Stream, Chunks, Stores, Exited
  <2> QED
    BY <1>2, <2>1, <2>2, <2>5
<1>16. ASSUME NEW c \in Client, ClientGone(c) \/ CloseConnection(c) \/ WriteFails(c) PROVE StreamInv'
  <2>1. /\ ChildExit(c) /\ child[c] \in {"passwd", "name", "close", "receive"}
        /\ UNCHANGED <<client, toServer, sent, offset, name>>
    BY <1>16 DEF ClientGone, CloseConnection, WriteFails
  <2>2. /\ child'[c] \in Exited
        /\ \A d \in Client \ {c} : child'[d] = child[d] /\ toClient'[d] = toClient[d]
    BY <1>1, <2>1, ToClientEffect DEF ChildExit, ChildGoto, Exited
  <2>3. Stream(c)'
    BY <1>1, <2>1, <2>2 DEF Stream, Behind, Names, Chunks, Stores, Past, Exited
  <2> QED
    BY <1>2, <2>1, <2>2, <2>3
<1>17. ASSUME NEW c \in Client, SetWorkDir(c) PROVE StreamInv'
  <2>1. /\ child[c] = "workdir" /\ child'[c] \in {"name", "close"}
        /\ UNCHANGED <<client, toServer, toClient, sent, offset, name>>
        /\ \A d \in Client \ {c} : child'[d] = child[d]
    BY <1>1, <1>17 DEF SetWorkDir, ChildGoto
  <2>2. Stream(c)'
    BY <1>1, <2>1 DEF Stream, Behind, Names, Chunks, Stores, Past, Exited
  <2> QED
    BY <1>2, <2>1, <2>2
<1>18. ASSUME NEW c \in Client, CheckName(c) PROVE StreamInv'
  <2>1. /\ child[c] = "name" /\ toServer[c] # <<>> /\ Consume(c)
        /\ HasLine(c) \/ HasCutLine(c)
        /\ name'[c] = LineRead(c)
        /\ \/ ToClient(c, Error) /\ child'[c] = "name"
           \/ ToClient(c, Right) /\ child'[c] = "open"
        /\ UNCHANGED <<client, sent, offset>>
        /\ \A d \in Client \ {c} : child'[d] = child[d] /\ name'[d] = name[d]
    BY <1>1, <1>18 DEF CheckName, ChildGoto, HasLine, HasCutLine, From
  <2>2. \A d \in Client \ {c} : toClient'[d] = toClient[d]
    BY <2>1, ToClientEffect
  <2>3. /\ \A k \in 1..Len(toServer'[c]) : toServer'[c][k] = Eof
        /\ \A d \in Client \ {c} : toServer'[d] = toServer[d]
    BY <1>14, <2>1
  <2>4. PICK q \in Seq(Messages) : q = toServer[c]
    BY <1>1
  <2>5. Head(q) = q[1] /\ 1 \in 1..Len(q) /\ Stream(c)
    BY <1>1, <2>1, <2>4, ReadAhead
  <2>6. HasLine(c) => LineRead(c) \in Wanted[c]
    BY <2>1, <2>4, <2>5 DEF HasLine, LineRead, From, Stream, Names
  <2>7. ~HasLine(c) => LineRead(c) = Truncated
    BY DEF LineRead
  <2>8. Behind(c)' /\ Names(c)'
    <3>1. \A k \in 2..Len(toServer'[c]) : k \in 1..Len(toServer'[c])
      OBVIOUS
    <3> QED
      BY <2>3, <3>1 DEF Behind, Names, Eof
  <2>9. Chunks(c)'
    <3> SUFFICES ASSUME child'[c] \in {"open", "receive"} PROVE Chunks(c)'
      BY DEF Chunks
    <3>1. \A k \in 1..Len(toServer'[c]) : toServer'[c][k].kind # "data"
      BY <2>3 DEF Eof
    <3>2. ASSUME client[c] \notin Over
          PROVE  /\ client[c] = "nameWait" /\ toClient'[c] = <<Right>>
                 /\ sent[c] = 0 /\ offset[c] = 0 /\ Len(toServer'[c]) = 0
                 /\ HasLine(c)
      <4>1. Agree(c) /\ conn[c] = "open" /\ child[c] \notin Past
        BY <1>1, <2>1, <3>2 DEF ConnInv, Past, Exited
      <4>2. /\ client[c] \in Waits /\ toClient[c] = <<>> /\ Len(toServer[c]) = 1
        BY <2>1, <4>1 DEF Agree, Turn
      <4>3. client[c] = "nameWait" \/ toClient[c] = <<Right>>
        BY <2>1, <4>1, <4>2 DEF Agree, Waits
      <4>4. client[c] = "nameWait"
        BY <4>2, <4>3, Answers
      <4>5. toClient'[c] = <<Right>>
        <5>1. ToClient(c, Right)
          BY <2>1, <3>2
        <5>2. toClient'[c] = Append(toClient[c], Right)
          BY <3>2, <5>1, ToClientEffect
        <5> QED
          BY <4>2, <5>2, Answers
      <4>6. sent[c] = 0 /\ offset[c] = 0
        BY <2>1, <2>5, <4>4 DEF Stream, Stores, Over, Exited
      <4>7. Len(toServer'[c]) = 0
        <5>1. toServer'[c] = Tail(q)
          BY <1>1, <2>1, <2>4 DEF Consume
        <5>2. Len(Tail(q)) + 1 = Len(q) /\ Len(Tail(q)) \in Nat
          BY <2>1, <2>4, ReadAhead
        <5> QED
          BY <2>4, <4>2, <5>1, <5>2
      <4>8. HasLine(c)
        BY <2>1, <4>2 DEF HasCutLine
      <4> QED
        BY <4>4, <4>5, <4>6, <4>7, <4>8
    <3>3. client[c] \notin Over => sent[c] = offset[c] + Len(toServer'[c])
      BY <3>2
    <3> QED
      BY <2>1, <2>3, <2>6, <3>1, <3>2, <3>3 DEF Chunks
  <2>10. Stream(c)'
    BY <2>1, <2>5, <2>6, <2>7, <2>8, <2>9 DEF Stream, Stores, Exited
  <2> QED
    BY <1>2, <2>1, <2>2, <2>3, <2>10
<1>19. ASSUME NEW c \in Client, OpenFile(c) \/ ReceiveDone(c) PROVE StreamInv'
  <2>1. /\ \/ child[c] = "open" /\ child'[c] \in {"receive", "close"}
           \/ child[c] = "receive" /\ child'[c] = "close"
        /\ UNCHANGED <<client, toServer, toClient, sent, offset, name>>
        /\ \A d \in Client \ {c} : child'[d] = child[d]
    BY <1>1, <1>19 DEF OpenFile, ReceiveDone, ChildGoto
  <2>2. Stream(c)'
    BY <1>1, <2>1 DEF Stream, Behind, Names, Chunks, Stores, Past, Exited
  <2> QED
    BY <1>2, <2>1, <2>2
<1>20. ASSUME NEW c \in Client, ReceiveChunk(c) PROVE StreamInv'
  <2>1. /\ child[c] = "receive" /\ toServer[c] # <<>> /\ Consume(c)
        /\ Head(toServer[c]).kind = "data"
        /\ offset'[c] = offset[c] + 1
        /\ UNCHANGED <<client, child, toClient, sent, name>>
        /\ \A d \in Client \ {c} : offset'[d] = offset[d]
    BY <1>1, <1>20 DEF ReceiveChunk, From
  <2>2. PICK q \in Seq(Messages) : q = toServer[c]
    BY <1>1
  <2>3. PICK t : t = Tail(q)
    OBVIOUS
  <2>4. toServer'[c] = t /\ \A d \in Client \ {c} : toServer'[d] = toServer[d]
    BY <1>1, <2>1, <2>2, <2>3 DEF Consume
  <2>5. /\ Len(q) = Len(t) + 1 /\ Len(t) \in Nat
        /\ Head(q) = q[1] /\ 1 \in 1..Len(q)
        /\ \A k \in 1..Len(t) : k + 1 \in 1..Len(q) /\ t[k] = q[k + 1]
    BY <2>1, <2>2, <2>3, ReadAhead
  <2>6. Stream(c) /\ name[c] \in Wanted[c]
    BY <1>1, <2>1, <2>2, <2>5 DEF Stream, Chunks
  <2>7. ASSUME NEW k \in 1..Len(t) PROVE t[k] \in {Eof, Data(offset'[c] + k)}
    <3>1. offset'[c] + k = offset[c] + (k + 1)
      BY <1>1, <2>1
    <3>2. q[k + 1] \in {Eof, Data(offset[c] + (k + 1))}
      BY <2>1, <2>2, <2>5, <2>6 DEF Stream, Chunks
    <3> QED
      BY <2>5, <3>1, <3>2
  <2>8. client[c] \notin Over => sent[c] = offset'[c] + Len(t)
    <3>1. client[c] \notin Over => sent[c] = offset[c] + Len(q)
      BY <2>1, <2>2, <2>6 DEF Stream, Chunks
    <3> QED
      BY <1>1, <2>1, <2>5, <3>1
  <2>9. Chunks(c)'
    BY <2>1, <2>4, <2>6, <2>7, <2>8 DEF Stream, Chunks
  <2>10. Stream(c)'
    BY <2>1, <2>6, <2>9 DEF Stream, Behind, Names, Stores, Past
  <2> QED
    BY <1>2, <2>1, <2>4, <2>10
<1>21. ASSUME UNCHANGED vars PROVE StreamInv'
  BY <1>1, <1>21, StreamElsewhere DEF vars, StreamInv
<1> QED
  BY <1>5, <1>6, <1>7, <1>8, <1>9, <1>10, <1>11, <1>12, <1>13, <1>15, <1>16, <1>17, <1>18,
     <1>19, <1>20, <1>21 DEF Next, ParentWork, ChildWork, ClientWork, Handler

LEMMA FileStep ==
  ASSUME NamesApart
  PROVE  TypeInv /\ FreshInv /\ StreamInv /\ FileInv /\ [Next]_vars => FileInv'
<1> SUFFICES ASSUME TypeInv, FreshInv, StreamInv, FileInv, [Next]_vars PROVE FileInv'
  OBVIOUS
<1> USE DEF serverVars, channels, clientVars, childVars, files
<1>1. /\ child \in [Client -> ChildState]
      /\ name \in [Client -> Name \cup {Secret, Wrong, LongInput}]
      /\ offset \in [Client -> Nat]
      /\ content \in [Name -> [1..FileLength -> Chunk \cup {NoChunk}]]
      /\ toServer \in [Client -> Seq(Messages)]
      /\ \A c \in Client : Stream(c)
  BY DEF TypeInv, StreamInv
<1>2. \A c \in Client : name[c] \in Wanted[c] \cup {Truncated} /\ Wanted[c] \subseteq Name
  BY <1>1, NamesAssumption DEF Stream
\* A child that has a file keeps it.
<1>3. ASSUME UNCHANGED <<name, offset, content>>,
             \A c \in Client : child[c] \in Stores => child'[c] \in Stores
      PROVE  FileInv'
  BY <1>3 DEF FileInv
<1>4. ASSUME UNCHANGED child, UNCHANGED <<name, offset, content>>
      PROVE  FileInv'
  BY <1>3, <1>4
<1>5. ASSUME NEW c \in Client, child[c] \notin Stores \/ child'[c] \in Stores,
             \A d \in Client \ {c} : child'[d] = child[d],
             UNCHANGED <<name, offset, content>>
      PROVE  FileInv'
  BY <1>3, <1>5
<1>6. ASSUME NEW c \in Client,
             Connect(c) \/ TypePasswd(c) \/ SendName(c) \/ ClientKilled(c) \/ ClientWork(c)
      PROVE  FileInv'
  BY <1>4, <1>6 DEF Connect, TypePasswd, SendName, ClientKilled, ClientWork, PasswdAnswer,
                    NameAnswer, SendChunk, SendDone
<1>7. ASSUME Accept \/ Handler \/ AcceptFails PROVE FileInv'
  <2>1. UNCHANGED <<name, offset, content>>
    BY <1>7 DEF Accept, Handler, EnterHandler, WaitPid, AcceptFails
  <2>2. \A c \in Client : child[c] \in Stores => child'[c] \in Stores
    BY <1>1, <1>7
       DEF Accept, Handler, EnterHandler, WaitPid, AcceptFails, Zombies, Stores, Exited
  <2> QED
    BY <1>3, <2>1, <2>2
<1>8. ASSUME NEW c \in Client, Fork(c) PROVE FileInv'
  <2>1. child[c] = "none"
    BY <1>8 DEF Fork, FreshInv
  <2>2. child[c] \notin Stores /\ \A d \in Client \ {c} : child'[d] = child[d]
    BY <1>1, <1>8, <2>1 DEF Fork, Stores, Exited
  <2> QED
    BY <1>5, <1>8, <2>2 DEF Fork
<1>9. ASSUME NEW c \in Client, CheckPasswd(c) \/ SetWorkDir(c) \/ OpenFile(c) PROVE FileInv'
  <2>1. child[c] \notin Stores /\ \A d \in Client \ {c} : child'[d] = child[d]
    BY <1>1, <1>9 DEF CheckPasswd, SetWorkDir, OpenFile, ChildGoto, Stores, Exited
  <2> QED
    BY <1>5, <1>9, <2>1 DEF CheckPasswd, SetWorkDir, OpenFile
<1>10. ASSUME NEW c \in Client,
              ClientGone(c) \/ CloseConnection(c) \/ WriteFails(c) \/ ReceiveDone(c)
       PROVE  FileInv'
  <2>1. child'[c] \in Stores /\ \A d \in Client \ {c} : child'[d] = child[d]
    BY <1>1, <1>10 DEF ClientGone, CloseConnection, WriteFails, ReceiveDone, ChildExit,
                       ChildGoto, Stores, Exited
  <2> QED
    BY <1>5, <1>10, <2>1 DEF ClientGone, CloseConnection, WriteFails, ReceiveDone
\* Under the name a child has read there is nothing yet: nobody else has it.
<1>11. ASSUME NEW c \in Client, CheckName(c) PROVE FileInv'
  <2>1. /\ child[c] = "name" /\ name' = [name EXCEPT ![c] = LineRead(c)]
        /\ child' = child \/ child' = [child EXCEPT ![c] = "open"]
        /\ UNCHANGED <<offset, content>>
    BY <1>11 DEF CheckName, ChildGoto
  <2>2. /\ name'[c] = LineRead(c)
        /\ \A d \in Client \ {c} : child'[d] = child[d] /\ name'[d] = name[d]
    BY <1>1, <2>1
  <2>3. child[c] \notin Stores /\ offset[c] = 0
    BY <1>1, <2>1 DEF Stream, Stores, Exited
  <2>4. LineRead(c) \in Wanted[c] \cup {Truncated}
    <3>1. PICK q \in Seq(Messages) : q = toServer[c]
      BY <1>1
    <3>2. HasLine(c) => q # <<>>
      BY <3>1 DEF HasLine, From
    <3>3. HasLine(c) => Head(q) = q[1] /\ 1 \in 1..Len(q)
      BY <3>2, ReadAhead
    <3> QED
      BY <1>1, <2>1, <3>1, <3>3 DEF HasLine, LineRead, From, Stream, Names
  <2>5. LineRead(c) \in Name
    BY <1>2, <2>4, NamesAssumption
  <2>6. \A n \in Name, i \in 1..FileLength :
          content[n][i] # NoChunk =>
            \E d \in Client \ {c} : name[d] = n /\ n \in Wanted[d] /\ child[d] \in Stores
    BY <2>3 DEF FileInv
  <2>7. \A i \in 1..FileLength : content[LineRead(c)][i] = NoChunk
    BY <2>4, <2>5, <2>6 DEF NamesApart
  <2>8. ASSUME NEW d \in Client, NEW i \in 1..FileLength
        PROVE  content[name'[d]][i] = (IF i <= offset[d] THEN <<d, i>> ELSE NoChunk)
    <3>1. CASE d = c
      <4>1. ~(i <= offset[c])
        BY <2>3
      <4> QED
        BY <2>2, <2>7, <3>1, <4>1
    <3>2. CASE d # c
      BY <2>2, <3>2 DEF FileInv
    <3> QED
      BY <3>1, <3>2
  <2> QED
    BY <2>1, <2>2, <2>6, <2>8 DEF FileInv
\* The chunk that is written follows the ones there are, and the file is the
\* child's own.
<1>12. ASSUME NEW c \in Client, ReceiveChunk(c) PROVE FileInv'
  <2>1. /\ child[c] = "receive" /\ toServer[c] # <<>> /\ Head(toServer[c]).kind = "data"
        /\ offset' = [offset EXCEPT ![c] = @ + 1]
        /\ content' = [content EXCEPT ![name[c]][offset[c] + 1] = <<c, Head(toServer[c]).val>>]
        /\ UNCHANGED <<child, name>>
    BY <1>12 DEF ReceiveChunk, From
  <2>2. PICK q \in Seq(Messages) : q = toServer[c]
    BY <1>1
  <2>3. Head(q) = q[1] /\ 1 \in 1..Len(q) /\ q[1] \in Messages
    BY <2>1, <2>2, ReadAhead
  <2>4. q[1] = Data(offset[c] + 1) /\ name[c] \in Wanted[c]
    BY <1>1, <2>1, <2>2, <2>3 DEF Stream, Chunks, Eof
  <2>5. PICK o : o = offset[c] + 1
    OBVIOUS
  <2>6. /\ Head(toServer[c]).val = o /\ o \in 1..FileLength
    BY <2>1, <2>2, <2>3, <2>4, <2>5, MessageTypes DEF Data
  <2>7. PICK n \in Name : n = name[c]
    BY <1>2, <2>4
  <2>8. /\ content'[n][o] = <<c, o>>
        /\ \A i \in 1..FileLength \ {o} : content'[n][i] = content[n][i]
        /\ \A m \in Name \ {n} : content'[m] = content[m]
    BY <1>1, <2>1, <2>5, <2>6, <2>7
  <2>9. ASSUME NEW m \in Name, NEW i \in 1..FileLength, content'[m][i] # NoChunk
        PROVE  \E d \in Client : name[d] = m /\ m \in Wanted[d] /\ child[d] \in Stores
    <3>1. CASE m = n
      BY <2>1, <2>4, <2>7, <3>1 DEF Stores
    <3>2. CASE m # n
      BY <2>8, <2>9, <3>2 DEF FileInv
    <3> QED
      BY <3>1, <3>2
  <2>10. ASSUME NEW d \in Client, NEW i \in 1..FileLength
         PROVE  content'[name[d]][i] = (IF i <= offset'[d] THEN <<d, i>> ELSE NoChunk)
    <3>1. content[name[d]][i] = (IF i <= offset[d] THEN <<d, i>> ELSE NoChunk)
      BY DEF FileInv
    <3>2. CASE d = c
      <4>1. offset'[c] = o /\ offset[c] \in Nat
        BY <1>1, <2>1, <2>5
      <4>2. CASE i = o
        BY <2>7, <2>8, <3>2, <4>1, <4>2
      <4>3. CASE i # o
        <5>1. content'[n][i] = content[n][i]
          BY <2>8, <4>3
        <5>2. i <= o <=> i <= offset[c]
          BY <2>5, <4>1, <4>3
        <5> QED
          BY <2>7, <3>1, <3>2, <4>1, <5>1, <5>2
      <4> QED
        BY <4>2, <4>3
    <3>3. CASE d # c
      <4>1. name[d] # n /\ name[d] \in Name
        BY <1>2, <2>4, <2>7, <3>3, NamesAssumption DEF NamesApart
      <4>2. offset'[d] = offset[d] /\ content'[name[d]] = content[name[d]]
        BY <1>1, <2>1, <2>8, <3>3, <4>1
      <4> QED
        BY <3>1, <4>2
    <3> QED
      BY <3>2, <3>3
  <2>11. \A m \in Name, i \in 1..FileLength :
           content'[m][i] # NoChunk =>
             \E d \in Client : name'[d] = m /\ m \in Wanted[d] /\ child'[d] \in Stores
    BY <2>1, <2>9
  <2>12. \A d \in Client, i \in 1..FileLength :
           content'[name'[d]][i] = (IF i <= offset'[d] THEN <<d, i>> ELSE NoChunk)
    BY <2>1, <2>10
  <2> QED
    BY <2>11, <2>12 DEF FileInv
<1>13. ASSUME UNCHANGED vars PROVE FileInv'
  BY <1>4, <1>13 DEF vars
<1> QED
  BY <1>6, <1>7, <1>8, <1>9, <1>10, <1>11, <1>12, <1>13 DEF Next, ParentWork, ChildWork

\* Whatever dies or fails: what a child has written is the beginning of its
\* client's file, without holes, if nobody else uses the name (transfile.c:53-57).
THEOREM PrefixSafe ==
  ASSUME NamesApart
  PROVE  Spec => []StoredIsPrefix
<1>1. FileInv => StoredIsPrefix
  BY DEF FileInv, StoredIsPrefix
<1>2. TypeInv /\ FreshInv /\ StreamInv /\ FileInv /\ [Next]_vars => FileInv'
  BY FileStep
<1> QED
  BY <1>1, <1>2, Reachable, StreamInit, StreamStep, FileInit, PTL DEF Spec
===============================================================================
