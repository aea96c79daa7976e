----------------------------- MODULE FileTransfer -----------------------------
(***************************************************************************)
(* The file transfer programs of src/filetransfer: clients that verify a   *)
(* password, negotiate a file name and send a file, and the server, a      *)
(* parent that accepts connections and one forked child per connection.    *)
(*                                                                         *)
(* A connection is named by its client.  Each direction is a FIFO of lines *)
(* and data chunks; an unterminated line (more than fgets or Readline take *)
(* at once) is a message of its own.  Files are arrays of chunks, and      *)
(* chunk <<c, i>> is the i-th one of the file of client c.                 *)
(***************************************************************************)
EXTENDS Naturals, Sequences, FiniteSets

CONSTANTS
  Client,       \* the clients, each running once
  Name,         \* file names in the server's work directory
  Secret,       \* conf.passwd
  Wrong,        \* any other password
  LongInput,    \* typed text that fills the buffer of fgets: no '\n' in it
  Truncated,    \* the name Readline leaves of a LongInput
  OldFiles,     \* names of files that are there when the server starts
  Wanted,       \* names a client may try, the name of its own file or typed
  FileLength,   \* chunks of a client's file
  Window,       \* chunks a connection holds before write blocks
  NumVerify,    \* NUM_VERIFY_PASSWD
  Backlog,      \* connections the kernel queues for accept
  LongTyped,    \* the clients whose users may type a LongInput
  ServerFails,  \* accept, fork, set_work_dir, open and write may fail
  NoChunk       \* a chunk nobody has written

ASSUME NumbersAssumption ==
  FileLength \in Nat /\ {Window, NumVerify, Backlog} \subseteq Nat \ {0}
ASSUME NamesAssumption ==
  /\ Truncated \in Name /\ OldFiles \subseteq Name /\ LongInput \notin Name
  /\ Wanted \in [Client -> SUBSET Name]
ASSUME PasswordAssumption == Secret \notin {Wrong, LongInput, Truncated}
ASSUME SwitchesAssumption == LongTyped \subseteq Client /\ ServerFails \in BOOLEAN
ASSUME ChunkAssumption == NoChunk \notin Client \X (1..FileLength)

VARIABLES
  server,    \* the parent: accepting, between accept and Close, or gone
  backlog,   \* connections waiting for accept
  accepted,  \* the connection the parent holds
  sigchld,   \* SIGCHLD is pending for the parent
  handling,  \* the parent is in sig_chld
  conn,      \* the server's end of a connection
  toServer, toClient, \* bytes under way
  client,    \* where each client is
  typed,     \* the name a client sent last
  sent,      \* chunks a client has sent
  child,     \* where the child serving a connection is
  tries,     \* count in check_passwd_inserver
  verified,  \* check_passwd_inserver returned 0 (history)
  name,      \* the name a child has been sent last
  offset,    \* chunks a child has written
  logged,    \* what a child has logged of its file (history)
  exists,    \* names for which a file exists
  content    \* the files

serverVars == <<server, backlog, accepted, sigchld, handling>>
channels   == <<toServer, toClient>>
clientVars == <<client, typed, sent>>
childVars  == <<child, tries, verified, name, offset, logged>>
files      == <<exists, content>>
vars == <<serverVars, conn, channels, clientVars, childVars, files>>

Line(v) == [kind |-> "line", val |-> v]
Part(v) == [kind |-> "part", val |-> v]
Data(i) == [kind |-> "data", val |-> i]
Eof == [kind |-> "eof", val |-> 0]
Error == [kind |-> "---", val |-> 0]
Right == [kind |-> "+++", val |-> 0]

Over == {"done", "failed"}      \* the client has exited
Exited == {"zombie", "reaped"}  \* the child has exited

Init ==
  /\ server = "accept" /\ backlog = <<>> /\ accepted = {}
  /\ sigchld = FALSE /\ handling = FALSE
  /\ conn = [c \in Client |-> "none"]
  /\ toServer = [c \in Client |-> <<>>] /\ toClient = [c \in Client |-> <<>>]
  /\ client = [c \in Client |-> "start"]
  /\ typed = [c \in Client |-> Truncated]
  /\ sent = [c \in Client |-> 0]
  /\ child = [c \in Client |-> "none"]
  /\ tries = [c \in Client |-> 0]
  /\ verified = [c \in Client |-> FALSE]
  /\ name = [c \in Client |-> Truncated]
  /\ offset = [c \in Client |-> 0]
  /\ logged = [c \in Client |-> "nothing"]
  /\ exists = OldFiles
  /\ content = [n \in Name |-> [i \in 1..FileLength |-> NoChunk]]

\* What a write to a socket does: the bytes arrive unless the peer has closed.
ToServer(c, m) ==
  toServer' = IF conn[c] = "closed" THEN toServer
              ELSE [toServer EXCEPT ![c] = Append(@, m)]
ToClient(c, m) ==
  toClient' = IF client[c] \in Over THEN toClient
              ELSE [toClient EXCEPT ![c] = Append(@, m)]

From(queue, c, kind) == queue[c] # <<>> /\ Head(queue[c]).kind = kind

-------------------------------------------------------------------------------
(* The client. *)

\* The client's process ends; the server reads end-of-file behind what was sent.
ClientExit(c, how) ==
  /\ client' = [client EXCEPT ![c] = how]
  /\ ToServer(c, Eof)

ClientGoto(c, to) == client' = [client EXCEPT ![c] = to]

\* connect: the kernel queues the connection as long as the parent lives.
Connect(c) ==
  /\ client[c] = "start"
  /\ \/ /\ server # "gone" /\ Len(backlog) < Backlog
        /\ backlog' = Append(backlog, c)
        /\ conn' = [conn EXCEPT ![c] = "queued"]
        /\ ClientGoto(c, "passwd")
     \/ /\ server = "gone"
        /\ ClientGoto(c, "failed")
        /\ UNCHANGED <<backlog, conn>>
  /\ UNCHANGED <<server, accepted, sigchld, handling, channels, typed, sent, childVars, files>>

\* What fgets returns of a typed text: a line, or a full buffer without '\n'.
Typed(v) == IF v = LongInput THEN Part(v) ELSE Line(v)
Typable(c) == {LongInput : d \in LongTyped \cap {c}}

\* check_passwd_inclient up to Writen.
TypePasswd(c) ==
  /\ client[c] = "passwd"
  /\ \E p \in {Secret, Wrong} \cup Typable(c) : ToServer(c, Typed(p))
  /\ ClientGoto(c, "passwdWait")
  /\ UNCHANGED <<serverVars, conn, toClient, typed, sent, childVars, files>>

\* The answer: retry, go on to dealsendfile, or give up when there is none.
PasswdAnswer(c) ==
  /\ client[c] = "passwdWait" /\ toClient[c] # <<>>
  /\ toClient' = [toClient EXCEPT ![c] = Tail(@)]
  /\ \/ Head(toClient[c]) = Error /\ ClientGoto(c, "passwd") /\ UNCHANGED toServer
     \/ Head(toClient[c]) = Right /\ ClientGoto(c, "name") /\ UNCHANGED toServer
     \/ Head(toClient[c]) = Eof /\ ClientExit(c, "failed")
  /\ UNCHANGED <<serverVars, conn, typed, sent, childVars, files>>

\* dealsendfile sends the name of its file or, after "---", a typed one.
SendName(c) ==
  /\ client[c] \in {"name", "rename"}
  /\ \E n \in Wanted[c] \cup (IF client[c] = "rename" THEN Typable(c) ELSE {}) :
       /\ ToServer(c, Typed(n))
       /\ typed' = [typed EXCEPT ![c] = n]
  /\ ClientGoto(c, "nameWait")
  /\ UNCHANGED <<serverVars, conn, toClient, sent, childVars, files>>

NameAnswer(c) ==
  /\ client[c] = "nameWait" /\ toClient[c] # <<>>
  /\ toClient' = [toClient EXCEPT ![c] = Tail(@)]
  /\ \/ Head(toClient[c]) = Error /\ ClientGoto(c, "rename") /\ UNCHANGED toServer
     \/ Head(toClient[c]) = Right /\ ClientGoto(c, "send") /\ UNCHANGED toServer
     \/ Head(toClient[c]) = Eof /\ ClientExit(c, "failed")
  /\ UNCHANGED <<serverVars, conn, typed, sent, childVars, files>>

\* sendfile: one turn of its loop; write blocks while the window is full.
SendChunk(c) ==
  /\ client[c] = "send" /\ sent[c] < FileLength
  /\ Len(toServer[c]) < Window \/ conn[c] = "closed"
  /\ sent' = [sent EXCEPT ![c] = @ + 1]
  /\ ToServer(c, Data(sent[c] + 1))
  /\ UNCHANGED <<serverVars, conn, toClient, client, typed, childVars, files>>

\* "send file complete".
SendDone(c) ==
  /\ client[c] = "send" /\ sent[c] = FileLength
  /\ ClientExit(c, "done")
  /\ UNCHANGED <<serverVars, conn, toClient, typed, sent, childVars, files>>

\* The user or the system kills the client, SIGPIPE when the server has closed
\* the connection.
ClientKilled(c) ==
  /\ client[c] \notin Over \cup {"start"}
  /\ ClientExit(c, "failed")
  /\ UNCHANGED <<serverVars, conn, toClient, typed, sent, childVars, files>>

-------------------------------------------------------------------------------
(* The parent. *)

Accept ==
  /\ server = "accept" /\ ~handling /\ backlog # <<>>
  /\ server' = "fork"
  /\ accepted' = {Head(backlog)}
  /\ backlog' = Tail(backlog)
  /\ conn' = [conn EXCEPT ![Head(backlog)] = "open"]
  /\ UNCHANGED <<sigchld, handling, channels, clientVars, childVars, files>>

\* fork, and the parent's Close(connfd): the connection stays open in the
\* child, if there is one.
Fork(c) ==
  /\ server = "fork" /\ ~handling /\ c \in accepted
  /\ server' = "accept" /\ accepted' = {}
  /\ \/ /\ child' = [child EXCEPT ![c] = "passwd"]
        /\ UNCHANGED <<conn, toClient>>
     \/ /\ ServerFails
        /\ conn' = [conn EXCEPT ![c] = "closed"]
        /\ ToClient(c, Eof)
        /\ UNCHANGED child
  /\ UNCHANGED <<backlog, sigchld, handling, toServer, clientVars, tries, verified, name, offset, logged, files>>

\* Accept exits the parent when accept fails: queued connections are reset and
\* its zombies pass to init, which reaps them.
AcceptFails ==
  /\ ServerFails /\ server = "accept" /\ ~handling
  /\ server' = "gone" /\ backlog' = <<>>
  /\ conn' = [c \in Client |-> IF conn[c] = "queued" THEN "closed" ELSE conn[c]]
  /\ toClient' = [c \in Client |->
       IF conn[c] = "queued" /\ client[c] \notin Over
         THEN Append(toClient[c], Eof) ELSE toClient[c]]
  /\ sigchld' = FALSE
  /\ child' = [c \in Client |-> IF child[c] = "zombie" THEN "reaped" ELSE child[c]]
  /\ UNCHANGED <<accepted, handling, toServer, clientVars, tries, verified, name,
                 offset, logged, files>>

\* sig_chld interrupts the parent wherever it is, and SIGCHLD is blocked in it.
EnterHandler ==
  /\ server # "gone" /\ sigchld /\ ~handling
  /\ sigchld' = FALSE /\ handling' = TRUE
  /\ UNCHANGED <<server, backlog, accepted, conn, channels, clientVars, childVars, files>>

Zombies == {c \in Client : child[c] = "zombie"}

\* MUTANT: sig_chld calls waitpid once.
WaitPidOnce ==
  /\ handling
  /\ handling' = FALSE
  /\ \/ Zombies = {} /\ UNCHANGED child
     \/ \E c \in Zombies : child' = [child EXCEPT ![c] = "reaped"]
  /\ UNCHANGED <<server, backlog, accepted, sigchld, conn, channels, clientVars,
                 tries, verified, name, offset, logged, files>>

\* One waitpid(-1, &stat, WNOHANG): a zombie is reaped, or there is none left
\* and the handler returns.
WaitPid ==
  /\ handling
  /\ \/ \E c \in Zombies : child' = [child EXCEPT ![c] = "reaped"] /\ UNCHANGED handling
     \/ Zombies = {} /\ handling' = FALSE /\ UNCHANGED child
  /\ UNCHANGED <<server, backlog, accepted, sigchld, conn, channels, clientVars,
                 tries, verified, name, offset, logged, files>>

-------------------------------------------------------------------------------
(* A child. *)

ChildGoto(c, to) == child' = [child EXCEPT ![c] = to]

\* MUTANT: the parent did not close its copy of connfd.
ChildExitParentHolds(c) ==
  /\ ChildGoto(c, IF server = "gone" THEN "reaped" ELSE "zombie")
  /\ sigchld' = (server # "gone")
  /\ UNCHANGED <<conn, toClient>>

\* The child's process ends: its end of the connection is closed, it stays a
\* zombie and the parent, if it lives, is sent SIGCHLD.
ChildExit(c) ==
  /\ ChildGoto(c, IF server = "gone" THEN "reaped" ELSE "zombie")
  /\ sigchld' = (server # "gone")
  /\ conn' = [conn EXCEPT ![c] = "closed"]
  /\ ToClient(c, Eof)

Consume(c) == toServer' = [toServer EXCEPT ![c] = Tail(@)]

\* Readline returns a line, what end-of-file leaves of an unterminated one, or
\* nothing at end-of-file.  It blocks on an unterminated line.
HasLine(c) == From(toServer, c, "line")
HasCutLine(c) ==
  From(toServer, c, "part") /\ Len(toServer[c]) > 1 /\ toServer[c][2] = Eof
LineRead(c) == IF HasLine(c) THEN Head(toServer[c]).val ELSE Truncated

\* MUTANT: when the attempts are used up the loop falls through as if verified,
\* or an attempt is not counted.
CheckPasswdThen(c, count, after) ==
  /\ child[c] = "passwd" /\ (HasLine(c) \/ HasCutLine(c))
  /\ Consume(c)
  /\ tries' = [tries EXCEPT ![c] = @ + 1]
  /\ ToClient(c, IF LineRead(c) = Secret THEN Right ELSE Error)
  /\ verified' = [verified EXCEPT ![c] = LineRead(c) = Secret]
  /\ ChildGoto(c, IF LineRead(c) = Secret THEN "workdir"
                  ELSE IF count < NumVerify THEN "passwd" ELSE after)
  /\ UNCHANGED <<serverVars, conn, clientVars, name, offset, logged, files>>
CheckPasswdFallsThrough(c) == CheckPasswdThen(c, tries[c] + 1, "workdir")
CheckPasswdOneMore(c) == CheckPasswdThen(c, tries[c], "close")

\* check_passwd_inserver: one attempt.  After the last one the child leaves.
CheckPasswd(c) ==
  /\ child[c] = "passwd" /\ (HasLine(c) \/ HasCutLine(c))
  /\ Consume(c)
  /\ tries' = [tries EXCEPT ![c] = @ + 1]
  /\ \/ /\ LineRead(c) = Secret
        /\ ToClient(c, Right)
        /\ verified' = [verified EXCEPT ![c] = TRUE]
        /\ ChildGoto(c, "workdir")
     \/ /\ LineRead(c) # Secret
        /\ ToClient(c, Error)
        /\ ChildGoto(c, IF tries[c] + 1 < NumVerify THEN "passwd" ELSE "close")
        /\ UNCHANGED verified
  /\ UNCHANGED <<serverVars, conn, clientVars, name, offset, logged, files>>

\* Readline returns 0, or a write to a client that is gone kills the child.
ClientGone(c) ==
  /\ \/ child[c] \in {"passwd", "name"} /\ From(toServer, c, "eof")
     \/ child[c] \in {"passwd", "name"} /\ client[c] \in Over /\ (HasLine(c) \/ HasCutLine(c))
  /\ ChildExit(c)
  /\ UNCHANGED <<server, backlog, accepted, handling, toServer, clientVars,
                 tries, verified, name, offset, logged, files>>

\* Close(connfd) and exit, or the return from main.
CloseConnection(c) ==
  /\ child[c] = "close"
  /\ ChildExit(c)
  /\ UNCHANGED <<server, backlog, accepted, handling, toServer, clientVars,
                 tries, verified, name, offset, logged, files>>

\* The second set_work_dir; the directory may be gone and not come back.
SetWorkDir(c) ==
  /\ child[c] = "workdir"
  /\ \/ ChildGoto(c, "name")
     \/ ServerFails /\ ChildGoto(c, "close")
  /\ UNCHANGED <<serverVars, conn, channels, clientVars, tries, verified, name, offset, logged, files>>

\* MUTANT: a refused name is kept as the name of the file.
CheckNameFirst(c) ==
  /\ child[c] = "name" /\ (HasLine(c) \/ HasCutLine(c))
  /\ Consume(c)
  /\ name' = IF name[c] = Truncated THEN [name EXCEPT ![c] = LineRead(c)] ELSE name
  /\ ToClient(c, IF LineRead(c) \in exists THEN Error ELSE Right)
  /\ ChildGoto(c, IF LineRead(c) \in exists THEN "name" ELSE "open")
  /\ UNCHANGED <<serverVars, conn, clientVars, tries, verified, offset, logged, files>>

\* dealrecvfile from again to its answer: access finds the name taken, or not.
CheckName(c) ==
  /\ child[c] = "name" /\ (HasLine(c) \/ HasCutLine(c))
  /\ Consume(c)
  /\ name' = [name EXCEPT ![c] = LineRead(c)]
  /\ \/ /\ LineRead(c) \in exists
        /\ ToClient(c, Error)
        /\ UNCHANGED child
     \/ /\ LineRead(c) \notin exists
        /\ ToClient(c, Right)
        /\ ChildGoto(c, "open")
  /\ UNCHANGED <<serverVars, conn, clientVars, tries, verified, offset, logged, files>>

\* open(name, O_CREAT | O_WRONLY): a file that has come into being meanwhile is
\* opened as it is.
OpenFile(c) ==
  /\ child[c] = "open"
  /\ \/ /\ exists' = exists \cup {name[c]}
        /\ ChildGoto(c, "receive")
        /\ UNCHANGED logged
     \/ /\ ServerFails
        /\ ChildGoto(c, "close")
        /\ logged' = [logged EXCEPT ![c] = "failed"]
        /\ UNCHANGED exists
  /\ UNCHANGED <<serverVars, conn, channels, clientVars, tries, verified, name, offset, content>>

\* MUTANT: every chunk is written to the start of the file.
ReceiveChunkAtStart(c) ==
  /\ child[c] = "receive" /\ From(toServer, c, "data")
  /\ Consume(c)
  /\ offset' = [offset EXCEPT ![c] = @ + 1]
  /\ content' = [content EXCEPT ![name[c]][1] = <<c, Head(toServer[c]).val>>]
  /\ UNCHANGED <<serverVars, conn, toClient, clientVars, child, tries, verified, name, logged, exists>>

\* recvfile: a chunk goes to the child's own offset of the file.
ReceiveChunk(c) ==
  /\ child[c] = "receive" /\ From(toServer, c, "data")
  /\ Consume(c)
  /\ offset' = [offset EXCEPT ![c] = @ + 1]
  /\ content' = [content EXCEPT ![name[c]][offset[c] + 1] = <<c, Head(toServer[c]).val>>]
  /\ UNCHANGED <<serverVars, conn, toClient, clientVars, child, tries, verified, name, logged, exists>>

\* A write to the file fails, which ends the child.
WriteFails(c) ==
  /\ ServerFails /\ child[c] = "receive" /\ From(toServer, c, "data")
  /\ ChildExit(c)
  /\ UNCHANGED <<server, backlog, accepted, handling, toServer, clientVars,
                 tries, verified, name, offset, logged, files>>

\* End-of-file, whatever the client has sent: "receive file completed".
ReceiveDone(c) ==
  /\ child[c] = "receive" /\ From(toServer, c, "eof")
  /\ ChildGoto(c, "close")
  /\ logged' = [logged EXCEPT ![c] = "completed"]
  /\ UNCHANGED <<serverVars, conn, channels, clientVars, tries, verified, name, offset, files>>

-------------------------------------------------------------------------------
ClientWork(c) == PasswdAnswer(c) \/ NameAnswer(c) \/ SendChunk(c) \/ SendDone(c)
ChildWork(c) ==
  \/ CheckPasswd(c) \/ ClientGone(c) \/ CloseConnection(c) \/ SetWorkDir(c)
  \/ CheckName(c) \/ OpenFile(c) \/ ReceiveChunk(c) \/ WriteFails(c) \/ ReceiveDone(c)
ParentWork == Accept \/ \E c \in Client : Fork(c)
Handler == EnterHandler \/ WaitPid

Next ==
  \/ \E c \in Client :
       \/ Connect(c) \/ TypePasswd(c) \/ SendName(c) \/ ClientKilled(c)
       \/ ClientWork(c) \/ ChildWork(c)
  \/ ParentWork \/ Handler \/ AcceptFails

Spec == Init /\ [][Next]_vars

\* Processes are scheduled and signals delivered.  Nothing is assumed of users:
\* they may never type, and their client may live for ever.
FairSpec ==
  /\ Spec
  /\ \A c \in Client : WF_vars(ClientWork(c)) /\ WF_vars(ChildWork(c))
  /\ WF_vars(ParentWork) /\ WF_vars(Handler)

-------------------------------------------------------------------------------
(* Properties. *)

\* "The user must verify the password before a file can be sent"
\* (filetransfer.conf:28): whatever is stored was sent over a connection on
\* which the right password came within NUM_VERIFY_PASSWD attempts; and a file
\* that was there before is never written to, however its name is asked for.
StoredIsVerified ==
  /\ \A n \in Name, i \in 1..FileLength :
       content[n][i] # NoChunk => verified[content[n][i][1]]
  /\ exists \subseteq OldFiles \cup {name[c] : c \in {d \in Client : verified[d]}}
  /\ \A n \in OldFiles, i \in 1..FileLength : content[n][i] = NoChunk

\* After NUM_VERIFY_PASSWD wrong passwords the connection is on its way to being
\* closed: no further attempt is looked at and nothing else is served on it.
AttemptsLimited ==
  \A c \in Client :
    /\ tries[c] <= NumVerify
    /\ tries[c] = NumVerify /\ ~verified[c] => child[c] \in {"close"} \cup Exited

\* Both ends agree: a client that went on was verified by the server, and the
\* file it sends goes to the name it sent last, not to one that was refused.
EndsAgree ==
  \A c \in Client :
    /\ client[c] \in {"name", "rename", "nameWait", "send", "done"} => verified[c]
    /\ client[c] \in {"send", "done"} => name[c] = typed[c]

\* What a child has written is the beginning of the file its client sends, in
\* order and without holes, when no other client uses the name: also when the
\* client dies, the disk is full or a name was refused before.
StoredIsPrefix ==
  \A c \in Client : verified[c] =>
    \A i \in 1..FileLength :
      content[name[c]][i] = (IF i <= offset[c] THEN <<c, i>> ELSE NoChunk)

\* Child processes that have exited are noticed, although signals that arrive
\* while SIGCHLD is blocked or pending are merged into one (transfile.c:27-33).
ZombieNoticed == Zombies # {} => sigchld \/ handling

\* The comment at transfile.c:128 on the answer "+++": the file name does not
\* exist.  So nobody else's child stores under the name a client was granted.
GrantedIsNew ==
  \A c, d \in Client :
    child[c] = "receive" /\ child[d] = "receive" /\ c # d => name[c] # name[d]

\* Children that have nothing left to do: their client is gone, or they have
\* exited and wait to be reaped.
Leftover ==
  {c \in Client : \/ child[c] = "zombie"
                  \/ child[c] \notin {"none", "reaped"} /\ client[c] \in Over}

\* No such child stays: wherever its client left it, it ends, and although the
\* SIGCHLDs of several may merge into one, every zombie is reaped.
ChildLeaves == Leftover # {} ~> Leftover = {}

\* A client that waits for an answer gets one, or sees the connection closed,
\* unless it typed more than fgets takes: then it and the server wait for each
\* other for ever, until the client is killed.
ClientAnswered ==
  \A c \in Client :
    client[c] \in {"passwdWait", "nameWait"} ~>
      \/ client[c] \notin {"passwdWait", "nameWait"}
      \/ From(toServer, c, "part")
===============================================================================
