-------------------------------- MODULE Server --------------------------------
(***************************************************************************)
(* The file transfer server of src/filetransfer/transfileserver.c around   *)
(* the sessions of module FileTransfer: main from the configuration file   *)
(* over set_work_dir and daemon_init to the accept loop, and each child up *)
(* to the file it stores.  What matters here is what the kernel keeps for  *)
(* them: the directories, each process's own one and its descriptors, and  *)
(* where its log messages go.                                              *)
(***************************************************************************)
EXTENDS ConfFile

CONSTANTS
  Child,       \* the clients that connect, each with the child that serves it
  Start,       \* the directory the server is started in, as a path
  MaxRemovals, \* bound: how often someone removes the working directory
  SystemMayFail \* mkdir and chdir can fail although the path is fine, and so can
               \* the forks of daemon_init, socket, bind, listen and accept

ASSUME ServerAssumption ==
  /\ Child \cap {"server", "tty", "null", "log", "listen", "file"} = {}
  /\ Start \in Seq(STRING)
  /\ "workdir" \in DOMAIN Default
  /\ MaxRemovals \in Nat
  /\ SystemMayFail \in BOOLEAN

VARIABLES
  pc,       \* where each process is
  tree,     \* the directories there are: the identity behind each path
  made,     \* how many were ever made: the next identity
  cwd,      \* the identity of each process's working directory
  entered,  \* the path by which it got there last (history)
  fds,      \* the open descriptors of each process and what they stand for
  removals, \* removals of the working directory so far
  log_to_stderr, \* errorlog.c: messages go to descriptor 2 and not to syslog
  logged    \* what stood behind the descriptors messages were written to (history)

Process == {"server"} \cup Child
dirVars == <<tree, made, cwd, entered, removals>>
logVars == <<log_to_stderr, logged>>
serverVars == <<pc, dirVars, fds, logVars>>
vars == <<confVars, serverVars>>

Init ==
  /\ ConfInit
  /\ pc = [p \in Process |-> IF p = "server" THEN "configure" ELSE "absent"]
  /\ tree = [path \in {SubSeq(Start, 1, n) : n \in 0..Len(Start)} |-> Len(path)]
  /\ made = Len(Start) + 1
  /\ cwd = [p \in Process |-> Len(Start)]
  /\ entered = [p \in Process |-> Start]
  /\ fds = [p \in Process |-> IF p = "server" THEN [i \in 0..2 |-> "tty"] ELSE <<>>]
  /\ removals = 0
  /\ log_to_stderr = TRUE /\ logged = {}

\* A table with one entry more.
With(table, key, what) ==
  [k \in DOMAIN table \cup {key} |-> IF k = key THEN what ELSE table[k]]

Goto(p, from, to) == pc[p] = from /\ pc' = [pc EXCEPT ![p] = to]

ReadConf == ConfNext /\ UNCHANGED serverVars

-------------------------------------------------------------------------------
(* Descriptors. *)

\* The kernel gives out the lowest number that is free.
Lowest(table) == Min({i \in 0..Cardinality(DOMAIN table) : i \notin DOMAIN table})
Opened(table, what) == With(table, Lowest(table), what)
Closed(table, what) == Restrict(table, {i \in DOMAIN table : table[i] # what})

\* syslog connects to the log when it is first used.
Logged(table) == IF "log" \in Range(table) THEN table ELSE Opened(table, "log")

\* MUTANT: a message that goes to syslog goes to the standard error as well.
LogToBoth(p) == {fds[p][i] : i \in {2} \cap DOMAIN fds[p]} \cup (IF log_to_stderr THEN {} ELSE {"log"})

\* log_doit: a message goes to what descriptor 2 is, or to syslog.
LogTo(p) == IF log_to_stderr THEN {fds[p][i] : i \in {2} \cap DOMAIN fds[p]} ELSE {"log"}
Says(p) == logged' = logged \cup LogTo(p) /\ UNCHANGED log_to_stderr

\* ... after which the process goes on, connected to the log.
Log(p) == Says(p) /\ fds' = [fds EXCEPT ![p] = IF log_to_stderr THEN @ ELSE Logged(@)]

\* A process is through: all its descriptors are closed.
Ends(p, from, how) ==
  /\ Goto(p, from, how)
  /\ fds' = [fds EXCEPT ![p] = <<>>]
  /\ UNCHANGED dirVars

\* main prints the options and goes on when the file was read, and quits otherwise.
Configured ==
  /\ reading \in {"read", "failed"}
  /\ Goto("server", "configure", IF reading = "read" THEN "check" ELSE "quit")
  /\ Says("server") /\ UNCHANGED <<confVars, dirVars, fds>>

-------------------------------------------------------------------------------
(* set_work_dir, by main and again by every child. *)

\* The names along a path, of one character each.
PathOf(text) == Picked(text, {i \in DOMAIN text : text[i] # "/"})

Absolute == conf["workdir"] # <<>> /\ conf["workdir"][1] = "/"
WorkDir == PathOf(conf["workdir"])

\* The path a directory has, if nobody has removed it.
PathsOf(identity) == {path \in DOMAIN tree : tree[path] = identity}

\* The path conf.workdir names for a process: none when it is empty, and none for
\* a relative one from inside a removed directory.
Named(p) ==
  IF Absolute THEN {WorkDir}
  ELSE {path \o WorkDir : path \in {q \in PathsOf(cwd[p]) : WorkDir # <<>>}}
Exists(p) == Named(p) # {} /\ Named(p) \subseteq DOMAIN tree

\* set_work_dir has failed: main quits, a child closes the connection and exits.
Fails(p, from, how) == Ends(p, from, IF p = "server" THEN "quit" ELSE how) /\ Says(p)

\* MUTANT: the directory is made whether it is there or not.
CheckDirNot(p) == Goto(p, "check", "make") /\ UNCHANGED <<fds, dirVars, logVars>>

\* access: whether it is there, and then whether it may be used.
CheckDir(p) ==
  \/ Exists(p) /\ Goto(p, "check", "enter") /\ UNCHANGED <<fds, dirVars, logVars>>
  \/ Exists(p) /\ Fails(p, "check", "denied")
  \/ ~Exists(p) /\ Goto(p, "check", "make") /\ Log(p) /\ UNCHANGED dirVars

\* A directory can be made for a path below one that is there.
Place(p) == {path \in Named(p) : Front(path) \in DOMAIN tree}

\* mkdir: it fails when another process has made the directory since the check,
\* when there is no directory to make it in, and for want of permission or space.
MakeDir(p) ==
  \/ /\ ~Exists(p)
     /\ \E path \in Place(p) : tree' = With(tree, path, made)
     /\ made' = made + 1
     /\ Goto(p, "make", "enter") /\ Log(p)
     /\ UNCHANGED <<cwd, entered, removals>>
  \/ Exists(p) /\ Fails(p, "make", "beaten")
  \/ Place(p) = {} /\ Fails(p, "make", "nowhere")
  \/ SystemMayFail /\ Fails(p, "make", "unmade")

AfterDir(p) == IF p = "server" THEN "daemon" ELSE "store"

ChangeDir(p) ==
  /\ Exists(p)
  /\ \E path \in Named(p) :
       /\ cwd' = [cwd EXCEPT ![p] = tree[path]]
       /\ entered' = [entered EXCEPT ![p] = path]
  /\ Goto(p, "enter", AfterDir(p))
  /\ UNCHANGED <<fds, tree, made, removals, logVars>>

\* MUTANT: a failure of chdir is ignored.
EnterDirIgnores(p) ==
  \/ ChangeDir(p)
  \/ SystemMayFail /\ Goto(p, "enter", AfterDir(p)) /\ UNCHANGED <<fds, dirVars, logVars>>

\* chdir: it fails when the directory has been removed since, or may not be entered.
EnterDir(p) ==
  \/ ChangeDir(p)
  \/ ~Exists(p) /\ Fails(p, "enter", "vanished")
  \/ SystemMayFail /\ Fails(p, "enter", "shut")

SetWorkDir(p) == CheckDir(p) \/ MakeDir(p) \/ EnterDir(p)

\* Someone removes the working directory, and what lies in it.
RemoveDir ==
  /\ removals < MaxRemovals /\ removals' = removals + 1
  /\ pc["server"] = "accept" \/ pc["server"] = "fork"
  /\ LET dir == entered["server"] IN
       /\ dir # <<>>
       /\ tree' = Restrict(tree, {path \in DOMAIN tree : ~IsPrefix(dir, path)})
  /\ UNCHANGED <<confVars, pc, made, cwd, entered, fds, logVars>>

-------------------------------------------------------------------------------
(* main after the configuration. *)

NullOpened(table) == IF PathsOf(cwd["server"]) = {<<>>} THEN Opened(table, "null") ELSE table

\* socket, bind, listen, accept or a fork of daemon_init has failed.
ServerQuits(from) == SystemMayFail /\ Ends("server", from, "quit") /\ Says("server")

\* MUTANT: the descriptors of the terminal stay open.
DaemonInitKeeps ==
  /\ Goto("server", "daemon", "listen")
  /\ fds' = [fds EXCEPT !["server"] = NullOpened(NullOpened(NullOpened(@)))]
  /\ log_to_stderr' = FALSE
  /\ UNCHANGED <<dirVars, logged>>

\* daemon_init: two forks, every descriptor closed, "dev/null" opened three times,
\* a path that exists only for a working directory of "/", and syslog from now on.
DaemonInit ==
  \/ /\ Goto("server", "daemon", "listen")
     /\ fds' = [fds EXCEPT !["server"] = NullOpened(NullOpened(NullOpened(<<>>)))]
     /\ log_to_stderr' = FALSE
     /\ UNCHANGED <<dirVars, logged>>
  \/ ServerQuits("daemon")

\* Socket, Bind and Listen
StartListening ==
  \/ /\ Goto("server", "listen", "accept")
     /\ fds' = [fds EXCEPT !["server"] = Opened(@, "listen")]
     /\ UNCHANGED <<dirVars, logVars>>
  \/ ServerQuits("listen")

\* Accept
AcceptClient(c) ==
  /\ pc["server"] = "accept" /\ pc[c] = "absent"
  /\ pc' = [pc EXCEPT !["server"] = "fork", ![c] = "accepted"]
  /\ fds' = [fds EXCEPT !["server"] = Opened(@, c)]
  /\ UNCHANGED <<dirVars, logVars>>

\* MUTANT: the parent keeps its copy of the connection.
ForkKeeps(c) ==
  /\ pc["server"] = "fork" /\ pc[c] = "accepted"
  /\ pc' = [pc EXCEPT !["server"] = "accept", ![c] = "password"]
  /\ fds' = [fds EXCEPT ![c] = Closed(fds["server"], "listen")]
  /\ cwd' = [cwd EXCEPT ![c] = cwd["server"]]
  /\ entered' = [entered EXCEPT ![c] = entered["server"]]
  /\ UNCHANGED <<tree, made, removals, logVars>>

\* fork: the child gets copies of everything and closes the listening socket,
\* the parent closes the connection, also when there is no child.
Fork(c) ==
  /\ pc["server"] = "fork" /\ pc[c] = "accepted"
  /\ \/ /\ pc' = [pc EXCEPT !["server"] = "accept", ![c] = "password"]
        /\ fds' = [fds EXCEPT !["server"] = Closed(@, c),
                              ![c] = Closed(fds["server"], "listen")]
     \/ /\ pc' = [pc EXCEPT !["server"] = "accept", ![c] = "dropped"]
        /\ fds' = [fds EXCEPT !["server"] = Closed(@, c)]
  /\ cwd' = [cwd EXCEPT ![c] = cwd["server"]]
  /\ entered' = [entered EXCEPT ![c] = entered["server"]]
  /\ UNCHANGED <<tree, made, removals, logVars>>

\* A child is through with its client, with a last message unless it was killed.
Leaves(c, from, how) == Ends(c, from, how) /\ (Says(c) \/ UNCHANGED logVars)

\* check_passwd_inserver: its dialogue is in FileTransfer.
CheckPassword(c) ==
  \/ Goto(c, "password", "check") /\ UNCHANGED <<fds, dirVars, logVars>>
  \/ Leaves(c, "password", "refused")

FileOpened(c, where) ==
  /\ Goto(c, "store", where)
  /\ fds' = [fds EXCEPT ![c] = Opened(@, "file")]
  /\ UNCHANGED <<dirVars, logVars>>

\* dealrecvfile, as far as it concerns descriptors: open, then the end.  In a
\* directory that was removed nothing can be opened by a plain name; a name with
\* a '/' leads elsewhere, to any directory that is there.
StoreFile(c) ==
  \/ PathsOf(cwd[c]) # {} /\ FileOpened(c, "storing")
  \/ FileOpened(c, "astray")
  \/ pc[c] \in {"store", "storing", "astray"} /\ Leaves(c, pc[c], "done")

Main ==
  \/ SetWorkDir("server") \/ DaemonInit \/ StartListening \/ ServerQuits("accept")
  \/ \E c \in Child : AcceptClient(c) \/ Fork(c)

Serve(c) == CheckPassword(c) \/ SetWorkDir(c) \/ StoreFile(c)

Final == {"quit", "done", "refused", "dropped",
          "denied", "beaten", "nowhere", "unmade", "vanished", "shut"}
Finished == pc["server"] \in {"quit", "accept"}
            /\ (\A c \in Child : pc[c] \in Final \cup {"absent"}) /\ UNCHANGED vars

Next ==
  \/ ReadConf \/ Configured \/ RemoveDir
  \/ (Main \/ \E c \in Child : Serve(c)) /\ UNCHANGED confVars
  \/ Finished

Spec == Init /\ [][Next]_vars

-------------------------------------------------------------------------------
(* Properties. *)

\* Where the configuration names an absolute directory, whatever is stored under a
\* plain name is stored in the directory that has this path at that moment, whoever
\* made it and however often it was removed and made again: never in the one the
\* server was started in, nor in one that is no longer there.
StoresWhereNamed ==
  [][\A c \in Child : Absolute /\ pc[c] = "store" /\ pc'[c] = "storing" =>
       WorkDir \in DOMAIN tree /\ tree[WorkDir] = cwd[c]]_vars

\* The check that every child makes again restores an absolute directory that was
\* removed, as far as the system lets it: there is always a place to make it in,
\* and of the children that find it gone once, none is turned away because it is
\* there again unless another one has made it and goes on to use it.  (A relative
\* path cannot be restored: it is looked up in the removed directory itself.)
Restored ==
  Absolute =>
    /\ \A c \in Child : pc[c] # "nowhere"
    /\ removals <= 1 => \A c \in Child : pc[c] = "beaten" =>
         \E d \in Child \ {c} : pc[d] \in {"enter", "shut", "store", "storing", "astray", "done"}

\* The connection belongs to the child alone once both have gone on, and the
\* listening socket to the server: the end of a child ends its connection, and
\* the server gains no descriptor by serving.
DescriptorsApart ==
  /\ \A c \in Child : pc[c] \notin {"absent", "accepted"} =>
       c \notin Range(fds["server"]) /\ Range(fds[c]) \cap (Child \cup {"listen"}) \subseteq {c}
  /\ pc["server"] = "accept" => Range(fds["server"]) \subseteq {"null", "listen"}
  /\ \A c \in Child : pc[c] \in {"store", "storing", "astray"} => c \in Range(fds[c])

\* No message of the log ever goes to a client, to the listening socket or into a
\* stored file.  This needs the switch of log_doit: unless the working directory
\* is "/", daemon_init leaves the descriptors 0, 1 and 2 closed, and the sockets,
\* the log and the file take these numbers.
LogsApart == logged \cap (Child \cup {"listen", "file"}) = {}
===============================================================================
