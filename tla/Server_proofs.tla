----------------------------- MODULE Server_proofs -----------------------------
(***************************************************************************)
(* Theorems about Server, for any number of clients, any configuration     *)
(* file, any buffer and list to read it with, and any number of removals.  *)
(***************************************************************************)
EXTENDS Server, ConfFile_proofs

-------------------------------------------------------------------------------
(* Tables of descriptors. *)

\* The kernel gives out a number that is free.
LEMMA LowestIsFree ==
  ASSUME NEW table, IsFiniteSet(DOMAIN table)
  PROVE  Lowest(table) \notin DOMAIN table
<1>. DEFINE n == Cardinality(DOMAIN table)
            free == {i \in 0..n : i \notin DOMAIN table}
<1>1. n \in Nat
  BY FS_CardinalityType
<1>2. free # {}
  <2>. SUFFICES ASSUME free = {} PROVE FALSE
    OBVIOUS
  <2>1. 0..n \subseteq DOMAIN table
    OBVIOUS
  <2>2. Cardinality(0..n) <= n
    BY <2>1, FS_Subset
  <2>3. Cardinality(0..n) = n + 1
    BY <1>1, FS_Interval
  <2>. QED
    BY <1>1, <2>2, <2>3
<1>3. free \subseteq Nat
  BY <1>1
<1>4. Min(free) \in free
  BY <1>2, <1>3, LeastOf
<1>. QED
  BY <1>4 DEF Lowest

\* What stands in a table after an opening.
LEMMA OpenedRange ==
  ASSUME NEW table, NEW what, IsFiniteSet(DOMAIN table)
  PROVE  /\ Range(Opened(table, what)) = Range(table) \cup {what}
         /\ IsFiniteSet(DOMAIN Opened(table, what))
<1>. DEFINE free == Lowest(table)
<1>1. free \notin DOMAIN table
  BY LowestIsFree
<1>2. Opened(table, what) = [k \in DOMAIN table \cup {free} |-> IF k = free THEN what ELSE table[k]]
  BY DEF Opened, With
<1>. HIDE DEF free
<1>3. Range(Opened(table, what)) = Range(table) \cup {what}
  BY <1>1, <1>2 DEF Range
<1>4. IsFiniteSet(DOMAIN table \cup {free})
  BY FS_AddElement
<1>. QED
  BY <1>2, <1>3, <1>4

\* ... after a closing.
LEMMA ClosedRange ==
  ASSUME NEW table, NEW what, IsFiniteSet(DOMAIN table)
  PROVE  /\ Range(Closed(table, what)) = Range(table) \ {what}
         /\ IsFiniteSet(DOMAIN Closed(table, what))
<1>. DEFINE kept == {i \in DOMAIN table : table[i] # what}
<1>1. Closed(table, what) = [i \in kept |-> table[i]]
  BY DEF Closed, Restrict
<1>2. IsFiniteSet(kept)
  BY FS_Subset
<1>. QED
  BY <1>1, <1>2 DEF Range

\* ... and in one that is empty.
LEMMA EmptyRange == Range(<<>>) = {} /\ IsFiniteSet(DOMAIN <<>>)
  BY FS_EmptySet DEF Range

-------------------------------------------------------------------------------
(* Where the processes are. *)

\* Every process has a place, a working directory and a table of descriptors.
PlaceTypes ==
  /\ pc = [p \in Process |-> pc[p]]
  /\ entered = [p \in Process |-> entered[p]]
  /\ cwd \in [Process -> Nat]
  /\ fds = [p \in Process |-> fds[p]]
  /\ made \in Nat
  /\ \A path \in DOMAIN tree : tree[path] \in Nat

\* main is through with the configuration, and nobody connects before it accepts;
\* the connection it has accepted last is the only one that was not forked.
PlaceInv ==
  /\ pc["server"] # "configure" => reading \in {"read", "failed"}
  /\ pc["server"] \in {"configure", "check", "make", "enter", "daemon", "listen"} =>
       \A c \in Child : pc[c] = "absent"
  /\ \A c \in Child : pc[c] = "accepted" => pc["server"] = "fork"
  /\ \A c, d \in Child : pc[c] = "accepted" /\ pc[d] = "accepted" => c = d

LEMMA ChildrenAreOthers ==
  /\ "server" \in Process
  /\ \A c \in Child : c \in Process /\ c # "server"
BY ServerAssumption DEF Process

LEMMA TypesInit == Init => PlaceTypes
<1>. SUFFICES ASSUME Init PROVE PlaceTypes
  OBVIOUS
<1>1. Len(Start) \in Nat
  BY ServerAssumption
<1>2. cwd \in [Process -> Nat] /\ made \in Nat
  BY <1>1 DEF Init
<1>3. pc = [p \in Process |-> pc[p]] /\ entered = [p \in Process |-> entered[p]] /\ fds = [p \in Process |-> fds[p]]
  BY DEF Init
<1>4. \A path \in DOMAIN tree : tree[path] \in Nat
  <2>1. \A n \in 0..Len(Start) : Len(SubSeq(Start, 1, n)) = n
    BY ServerAssumption, <1>1
  <2>2. tree = [path \in {SubSeq(Start, 1, n) : n \in 0..Len(Start)} |-> Len(path)]
    BY DEF Init
  <2>. QED
    BY <1>1, <2>1, <2>2
<1>. QED
  BY <1>2, <1>3, <1>4 DEF PlaceTypes

\* A step of set_work_dir, as far as it does not concern directories.
LEMMA SetWorkDirMoves ==
  ASSUME PlaceTypes, NEW p \in Process, SetWorkDir(p)
  PROVE  /\ pc[p] \in {"check", "make", "enter"}
         /\ \E to \in {"make", "enter", AfterDir(p), "quit", "denied", "beaten", "nowhere", "unmade", "vanished", "shut"} :
              /\ pc' = [pc EXCEPT ![p] = to]
              /\ to = "quit" => p = "server"
              /\ to \in {"denied", "beaten", "nowhere", "unmade", "vanished", "shut"} => p # "server"
         /\ \E table : fds' = [fds EXCEPT ![p] = table]
         /\ removals' = removals
<1>1. fds = [fds EXCEPT ![p] = fds[p]]
  BY DEF PlaceTypes
<1>2. ASSUME Log(p) PROVE \E table : fds' = [fds EXCEPT ![p] = table]
  BY <1>2 DEF Log
<1>3. CASE CheckDir(p)
  BY <1>1, <1>2, <1>3 DEF CheckDir, Goto, Fails, Ends, dirVars
<1>4. CASE MakeDir(p)
  BY <1>1, <1>2, <1>4 DEF MakeDir, Goto, Fails, Ends, dirVars
<1>5. CASE EnterDir(p)
  BY <1>1, <1>5 DEF EnterDir, ChangeDir, Goto, Fails, Ends, dirVars, AfterDir
<1>. QED
  BY <1>3, <1>4, <1>5 DEF SetWorkDir

\* ... and as far as it does.
LEMMA SetWorkDirDirs ==
  ASSUME NEW p \in Process, SetWorkDir(p)
  PROVE  \/ UNCHANGED <<tree, made, cwd, entered>>
         \/ /\ \E path \in Named(p) : tree' = With(tree, path, made)
            /\ made' = made + 1
            /\ UNCHANGED <<cwd, entered>>
            /\ pc[p] = "make" /\ pc' = [pc EXCEPT ![p] = "enter"]
         \/ /\ \E path \in Named(p) : 
                 /\ path \in DOMAIN tree
                 /\ cwd' = [cwd EXCEPT ![p] = tree[path]]
                 /\ entered' = [entered EXCEPT ![p] = path]
            /\ UNCHANGED <<tree, made>>
            /\ pc[p] = "enter" /\ pc' = [pc EXCEPT ![p] = AfterDir(p)]
<1>1. CASE CheckDir(p)
  BY <1>1 DEF CheckDir, Fails, Ends, dirVars
<1>2. CASE MakeDir(p)
  BY <1>2 DEF MakeDir, Goto, Fails, Ends, dirVars, Place, Exists, Named
<1>3. CASE EnterDir(p)
  BY <1>3 DEF EnterDir, ChangeDir, Goto, Fails, Ends, dirVars, Exists
<1>. QED
  BY <1>1, <1>2, <1>3 DEF SetWorkDir

\* Only chdir leads out of set_work_dir.
LEMMA SetWorkDirEnters ==
  ASSUME NEW p \in Process, SetWorkDir(p), PlaceTypes, pc' = [pc EXCEPT ![p] = AfterDir(p)]
  PROVE  \E path \in Named(p) : entered' = [entered EXCEPT ![p] = path]
<1>1. pc'[p] \in {"daemon", "store"}
  BY DEF PlaceTypes, AfterDir
<1>2. CASE CheckDir(p)
  BY <1>1, <1>2 DEF CheckDir, Goto, Fails, Ends, PlaceTypes
<1>3. CASE MakeDir(p)
  BY <1>1, <1>3 DEF MakeDir, Goto, Fails, Ends, PlaceTypes
<1>4. CASE EnterDir(p)
  BY <1>1, <1>4 DEF EnterDir, ChangeDir, Goto, Fails, Ends, PlaceTypes
<1>. QED
  BY <1>2, <1>3, <1>4 DEF SetWorkDir

\* Each process keeps a place, a directory and a table.
LEMMA TypesStep ==
  ASSUME PlaceTypes, [Next]_vars
  PROVE  PlaceTypes'
<1>1. CASE ReadConf
  BY <1>1 DEF ReadConf, serverVars, dirVars, PlaceTypes
<1>2. CASE Configured
  BY <1>2 DEF Configured, Goto, dirVars, PlaceTypes
<1>3. CASE RemoveDir
  BY <1>3 DEF RemoveDir, PlaceTypes, Restrict
<1>4. ASSUME NEW p \in Process, SetWorkDir(p)
      PROVE  PlaceTypes'
  <2>2. pc' = [q \in Process |-> pc'[q]]
    BY <1>4, SetWorkDirMoves DEF PlaceTypes
  <2>3. fds' = [q \in Process |-> fds'[q]]
    BY <1>4, SetWorkDirMoves DEF PlaceTypes
  <2>4. entered' = [q \in Process |-> entered'[q]] /\ cwd' \in [Process -> Nat] /\ made' \in Nat
    BY <1>4, SetWorkDirDirs DEF PlaceTypes
  <2>5. \A path \in DOMAIN tree' : tree'[path] \in Nat
    <3>1. CASE UNCHANGED tree
      BY <3>1 DEF PlaceTypes
    <3>2. CASE \E path \in Named(p) : tree' = With(tree, path, made)
      BY <3>2 DEF PlaceTypes, With
    <3>. QED
      BY <1>4, <3>1, <3>2, SetWorkDirDirs
  <2>. QED
    BY <2>2, <2>3, <2>4, <2>5 DEF PlaceTypes
<1>5. CASE DaemonInit
  BY <1>5 DEF DaemonInit, ServerQuits, Ends, Goto, dirVars, PlaceTypes
<1>6. CASE StartListening
  BY <1>6 DEF StartListening, ServerQuits, Ends, Goto, dirVars, PlaceTypes
<1>7. CASE ServerQuits("accept")
  BY <1>7 DEF ServerQuits, Ends, Goto, dirVars, PlaceTypes
<1>8. ASSUME NEW c \in Child, AcceptClient(c)
      PROVE  PlaceTypes'
  BY <1>8 DEF AcceptClient, dirVars, PlaceTypes
<1>9. ASSUME NEW c \in Child, Fork(c)
      PROVE  PlaceTypes'
  BY <1>9, ChildrenAreOthers DEF Fork, PlaceTypes
<1>10. ASSUME NEW c \in Child, CheckPassword(c)
       PROVE  PlaceTypes'
  BY <1>10 DEF CheckPassword, Leaves, Ends, Goto, dirVars, PlaceTypes
<1>11. ASSUME NEW c \in Child, StoreFile(c)
       PROVE  PlaceTypes'
  BY <1>11 DEF StoreFile, FileOpened, Leaves, Ends, Goto, dirVars, PlaceTypes
<1>12. CASE UNCHANGED vars
  BY <1>12 DEF vars, serverVars, dirVars, PlaceTypes
<1>. QED
  BY <1>1, <1>2, <1>3, <1>4, <1>5, <1>6, <1>7, <1>8, <1>9, <1>10, <1>11, <1>12, ChildrenAreOthers
  DEF Next, Main, Serve, Finished

LEMMA PlaceInit == Init => PlaceInv
BY ChildrenAreOthers DEF Init, ConfInit, PlaceInv, Process

\* A child that runs goes on to another place.
LEMMA ChildMoves ==
  ASSUME PlaceTypes, PlaceInv, NEW c \in Child, NEW to,
         pc[c] \notin {"absent", "accepted"}, to # "accepted",
         pc' = [pc EXCEPT ![c] = to], reading' = reading
  PROVE  PlaceInv'
<1>1. pc'["server"] = pc["server"] /\ \A d \in Child : pc'[d] = IF d = c THEN to ELSE pc[d]
  BY ChildrenAreOthers DEF PlaceTypes
<1>. QED
  BY <1>1 DEF PlaceInv

LEMMA PlaceStep ==
  ASSUME PlaceTypes, PlaceInv, [Next]_vars
  PROVE  PlaceInv'
<1>. USE ChildrenAreOthers
<1>1. CASE ReadConf
  <2>1. reading \notin {"read", "failed"}
    BY <1>1 DEF ReadConf, ConfNext, OpenFile, ReadLine, AddEntry, AddFails, Configure
  <2>. QED
    BY <1>1, <2>1 DEF ReadConf, serverVars, PlaceInv
<1>2. CASE Configured
  BY <1>2 DEF Configured, Goto, confVars, PlaceTypes, PlaceInv
<1>3. CASE RemoveDir
  BY <1>3 DEF RemoveDir, confVars, PlaceInv
<1>4. ASSUME NEW p \in Process, SetWorkDir(p), UNCHANGED confVars
      PROVE  PlaceInv'
  <2>. PICK to \in {"make", "enter", AfterDir(p), "quit", "denied", "beaten", "nowhere", "unmade", "vanished", "shut"} :
         pc' = [pc EXCEPT ![p] = to]
    BY <1>4, SetWorkDirMoves
  <2>1. pc[p] \in {"check", "make", "enter"} /\ reading' = reading
    BY <1>4, SetWorkDirMoves DEF confVars
  <2>2. to \notin {"configure", "accepted"}
    BY DEF AfterDir
  <2>3. CASE p = "server"
    <3>1. pc["server"] \in {"check", "make", "enter"} /\ pc' = [pc EXCEPT !["server"] = to]
      BY <2>1, <2>3
    <3>2. pc["server"] # "accept"
      BY <3>1
    <3>. QED
      BY <2>1, <2>2, <3>1, <3>2 DEF PlaceTypes, PlaceInv
  <2>4. CASE p \in Child
    BY <2>1, <2>2, <2>4, ChildMoves
  <2>. QED
    BY <2>3, <2>4 DEF Process
<1>5. CASE DaemonInit /\ UNCHANGED confVars
  BY <1>5 DEF DaemonInit, ServerQuits, Ends, Goto, confVars, PlaceTypes, PlaceInv
<1>6. CASE StartListening /\ UNCHANGED confVars
  BY <1>6 DEF StartListening, ServerQuits, Ends, Goto, confVars, PlaceTypes, PlaceInv
<1>7. CASE ServerQuits("accept") /\ UNCHANGED confVars
  <2>1. pc["server"] = "accept" /\ pc' = [pc EXCEPT !["server"] = "quit"] /\ reading' = reading
    BY <1>7 DEF ServerQuits, Ends, Goto, confVars
  <2>2. pc'["server"] = "quit" /\ \A c \in Child : pc'[c] = pc[c]
    BY <2>1 DEF PlaceTypes
  <2>. QED
    BY <2>1, <2>2 DEF PlaceInv
<1>8. ASSUME NEW c \in Child, AcceptClient(c), UNCHANGED confVars
      PROVE  PlaceInv'
  BY <1>8 DEF AcceptClient, confVars, PlaceTypes, PlaceInv
<1>9. ASSUME NEW c \in Child, Fork(c), UNCHANGED confVars
      PROVE  PlaceInv'
  BY <1>9 DEF Fork, confVars, PlaceTypes, PlaceInv
<1>10. ASSUME NEW c \in Child, CheckPassword(c), UNCHANGED confVars
       PROVE  PlaceInv'
  BY <1>10, ChildMoves DEF CheckPassword, Leaves, Ends, Goto, confVars
<1>11. ASSUME NEW c \in Child, StoreFile(c), UNCHANGED confVars
       PROVE  PlaceInv'
  BY <1>11, ChildMoves DEF StoreFile, FileOpened, Leaves, Ends, Goto, confVars
<1>12. CASE UNCHANGED vars
  BY <1>12 DEF vars, confVars, serverVars, PlaceInv
<1>. QED
  BY <1>1, <1>2, <1>3, <1>4, <1>5, <1>6, <1>7, <1>8, <1>9, <1>10, <1>11, <1>12
  DEF Next, Main, Serve, Finished

-------------------------------------------------------------------------------
(* Which directories they are in. *)

\* A directory has one path, and a process whose directory is still there entered
\* it by that path: this is what a relative workdir is added to.
TreeInv ==
  /\ \A path \in DOMAIN tree : tree[path] < made
  /\ \A p \in Process : cwd[p] < made
  /\ \A path1, path2 \in DOMAIN tree : tree[path1] = tree[path2] => path1 = path2
  /\ \A p \in Process : \A path \in DOMAIN tree : tree[path] = cwd[p] => path = entered[p]

\* At first there are the directories from the root to Start, one below the other.
LEMMA StartPaths ==
  ASSUME Init
  PROVE  /\ DOMAIN tree = {SubSeq(Start, 1, n) : n \in 0..Len(Start)}
         /\ \A path \in DOMAIN tree : tree[path] = Len(path)
         /\ \A n \in 0..Len(Start) : Len(SubSeq(Start, 1, n)) = n /\ SubSeq(Start, 1, n) \in Seq(STRING)
         /\ Len(Start) \in Nat /\ SubSeq(Start, 1, Len(Start)) = Start
<1>1. Start \in Seq(STRING) /\ Len(Start) \in Nat
  BY ServerAssumption
<1>2. tree = [path \in {SubSeq(Start, 1, n) : n \in 0..Len(Start)} |-> Len(path)]
  BY DEF Init
<1>3. \A n \in 0..Len(Start) : Len(SubSeq(Start, 1, n)) = n /\ SubSeq(Start, 1, n) \in Seq(STRING)
  BY <1>1
<1>4. SubSeq(Start, 1, Len(Start)) = Start
  BY <1>1
<1>. QED
  BY <1>1, <1>2, <1>3, <1>4

LEMMA TreeInit == Init => TreeInv
<1>. SUFFICES ASSUME Init PROVE TreeInv
  OBVIOUS
<1>1. Len(Start) \in Nat /\ \A path \in DOMAIN tree : tree[path] \in 0..Len(Start)
  BY StartPaths
<1>2. \A path \in DOMAIN tree : path = SubSeq(Start, 1, tree[path])
  BY StartPaths
<1>3. \A p \in Process : cwd[p] = Len(Start) /\ entered[p] = Start
  BY DEF Init
<1>4. made = Len(Start) + 1
  BY DEF Init
<1>5. SubSeq(Start, 1, Len(Start)) = Start
  BY StartPaths
<1>6. \A path \in DOMAIN tree : tree[path] < made
  BY <1>1, <1>4
<1>7. \A p \in Process : cwd[p] < made
  BY <1>1, <1>3, <1>4
<1>8. \A path1, path2 \in DOMAIN tree : tree[path1] = tree[path2] => path1 = path2
  BY <1>2, Zenon
<1>9. \A p \in Process : \A path \in DOMAIN tree : tree[path] = cwd[p] => path = entered[p]
  BY <1>2, <1>3, <1>5, Zenon
<1>. QED
  BY <1>6, <1>7, <1>8, <1>9, Zenon DEF TreeInv

\* Directories that go leave what is said of the others.
LEMMA TreeShrinks ==
  ASSUME TreeInv, NEW kept, kept \subseteq DOMAIN tree, tree' = Restrict(tree, kept),
         UNCHANGED <<made, cwd, entered>>
  PROVE  TreeInv'
<1>1. DOMAIN tree' = kept /\ \A path \in kept : tree'[path] = tree[path]
  BY DEF Restrict
<1>. QED
  BY <1>1 DEF TreeInv

\* A new directory has an identity that no process is in.
LEMMA TreeGrows ==
  ASSUME PlaceTypes, TreeInv, NEW path, tree' = With(tree, path, made), made' = made + 1,
         UNCHANGED <<cwd, entered>>
  PROVE  TreeInv'
<1>1. DOMAIN tree' = DOMAIN tree \cup {path}
  BY DEF With
<1>2. \A q \in DOMAIN tree' : tree'[q] = IF q = path THEN made ELSE tree[q]
  BY <1>1 DEF With
<1>3. \A q \in DOMAIN tree' : q # path => q \in DOMAIN tree /\ tree[q] \in Nat /\ tree[q] < made
  BY <1>1 DEF TreeInv, PlaceTypes
<1>4. made \in Nat /\ \A p \in Process : cwd[p] \in Nat /\ cwd[p] < made
  BY DEF TreeInv, PlaceTypes
<1>5. \A q \in DOMAIN tree' : tree'[q] < made'
  BY <1>2, <1>3, <1>4
<1>6. \A p \in Process : cwd'[p] < made'
  BY <1>4
<1>7. \A q, r \in DOMAIN tree' : tree'[q] = tree'[r] => q = r
  BY <1>2, <1>3, <1>4 DEF TreeInv
<1>8. \A p \in Process : \A q \in DOMAIN tree' : tree'[q] = cwd'[p] => q = entered'[p]
  BY <1>2, <1>3, <1>4 DEF TreeInv
<1>. QED
  BY <1>5, <1>6, <1>7, <1>8 DEF TreeInv

LEMMA TreeStep ==
  ASSUME PlaceTypes, TreeInv, [Next]_vars
  PROVE  TreeInv'
<1>1. CASE UNCHANGED <<tree, made, cwd, entered>>
  BY <1>1 DEF TreeInv
<1>2. CASE RemoveDir
  <2>. PICK dir : tree' = Restrict(tree, {path \in DOMAIN tree : ~IsPrefix(dir, path)})
    BY <1>2 DEF RemoveDir
  <2>. DEFINE kept == {path \in DOMAIN tree : ~IsPrefix(dir, path)}
  <2>1. kept \subseteq DOMAIN tree /\ tree' = Restrict(tree, kept)
    OBVIOUS
  <2>. HIDE DEF kept
  <2>. QED
    BY <1>2, <2>1, TreeShrinks DEF RemoveDir
<1>3. ASSUME NEW p \in Process, SetWorkDir(p)
      PROVE  TreeInv'
  <2>1. CASE \E path \in Named(p) : tree' = With(tree, path, made) /\ made' = made + 1
                                      /\ UNCHANGED <<cwd, entered>>
    BY <2>1, TreeGrows
  <2>2. CASE \E path \in DOMAIN tree :
                 /\ cwd' = [cwd EXCEPT ![p] = tree[path]]
                 /\ entered' = [entered EXCEPT ![p] = path]
                 /\ UNCHANGED <<tree, made>>
    <3>. PICK path \in DOMAIN tree : /\ cwd' = [cwd EXCEPT ![p] = tree[path]]
                                     /\ entered' = [entered EXCEPT ![p] = path]
                                     /\ UNCHANGED <<tree, made>>
      BY <2>2
    <3>1. \A q \in Process : /\ cwd'[q] = IF q = p THEN tree[path] ELSE cwd[q]
                             /\ entered'[q] = IF q = p THEN path ELSE entered[q]
      BY DEF PlaceTypes
    <3>. QED
      BY <3>1 DEF TreeInv
  <2>. QED
    BY <1>1, <1>3, <2>1, <2>2, SetWorkDirDirs
<1>4. ASSUME NEW c \in Child, Fork(c)
      PROVE  TreeInv'
  <2>1. "server" \in Process /\ UNCHANGED <<tree, made>>
    BY <1>4, ChildrenAreOthers DEF Fork
  <2>2. \A q \in Process : /\ cwd'[q] = IF q = c THEN cwd["server"] ELSE cwd[q]
                           /\ entered'[q] = IF q = c THEN entered["server"] ELSE entered[q]
    BY <1>4, ChildrenAreOthers DEF Fork, PlaceTypes
  <2>. QED
    BY <2>1, <2>2 DEF TreeInv
<1>5. ASSUME ReadConf \/ Configured \/ DaemonInit \/ StartListening \/ ServerQuits("accept") \/ UNCHANGED vars
      PROVE  UNCHANGED <<tree, made, cwd, entered>>
  BY <1>5 DEF ReadConf, Configured, DaemonInit, StartListening, ServerQuits, Ends, vars, serverVars, dirVars
<1>6. ASSUME NEW c \in Child, AcceptClient(c) \/ CheckPassword(c) \/ StoreFile(c)
      PROVE  UNCHANGED <<tree, made, cwd, entered>>
  BY <1>6 DEF AcceptClient, CheckPassword, StoreFile, FileOpened, Leaves, Ends, dirVars
<1>. QED
  BY <1>1, <1>2, <1>3, <1>4, <1>5, <1>6, ChildrenAreOthers DEF Next, Main, Serve, Finished

\* An absolute directory is the one main enters, and each child again.
EnteredInv ==
  /\ Absolute /\ pc["server"] \in {"daemon", "listen", "accept", "fork"} => entered["server"] = WorkDir
  /\ \A c \in Child : Absolute /\ pc[c] = "store" => entered[c] = WorkDir

LEMMA EnteredInit == Init => EnteredInv
BY ChildrenAreOthers DEF Init, EnteredInv

\* The path a process enters.
LEMMA NamedPath ==
  ASSUME NEW p \in Process, NEW path \in Named(p), Absolute
  PROVE  path = WorkDir
BY DEF Named

\* The configured path stays the same once main has read it.
LEMMA DirStays ==
  ASSUME UNCHANGED confVars
  PROVE  Absolute' = Absolute /\ WorkDir' = WorkDir
<1>1. conf' = conf
  BY DEF confVars
<1>2. WorkDir' = WorkDir
  BY <1>1 DEF WorkDir
<1>3. Absolute' = Absolute
  BY <1>1 DEF Absolute
<1>. QED
  BY <1>2, <1>3

\* A step that moves one process and leaves where they all are.
LEMMA EnteredStays ==
  ASSUME PlaceTypes, EnteredInv, NEW p \in Process, NEW to,
         UNCHANGED confVars, entered' = entered, pc' = [pc EXCEPT ![p] = to],
         to \in {"daemon", "listen", "accept", "fork"} => pc[p] \in {"daemon", "listen", "accept"},
         to # "store"
  PROVE  EnteredInv'
<1>1. \A q \in Process : pc'[q] = IF q = p THEN to ELSE pc[q]
  BY DEF PlaceTypes
<1>2. Absolute' = Absolute /\ WorkDir' = WorkDir
  BY DirStays
<1>. QED
  BY <1>1, <1>2, ChildrenAreOthers DEF EnteredInv

LEMMA EnteredStep ==
  ASSUME PlaceTypes, PlaceInv, TreeInv, EnteredInv, [Next]_vars
  PROVE  EnteredInv'
<1>. USE ChildrenAreOthers
<1>1. CASE ReadConf
  <2>1. pc["server"] = "configure"
    BY <1>1 DEF ReadConf, ConfNext, OpenFile, ReadLine, AddEntry, AddFails, Configure, PlaceInv
  <2>2. pc' = pc /\ \A c \in Child : pc[c] = "absent"
    BY <1>1, <2>1 DEF ReadConf, serverVars, PlaceInv
  <2>. QED
    BY <2>1, <2>2 DEF EnteredInv
<1>2. CASE Configured
  <2>1. pc'["server"] \in {"check", "quit"} /\ \A c \in Child : pc'[c] = "absent"
    BY <1>2 DEF Configured, Goto, PlaceTypes, PlaceInv
  <2>. QED
    BY <2>1 DEF EnteredInv
<1>3. CASE RemoveDir
  <2>1. UNCHANGED <<confVars, pc, entered>>
    BY <1>3 DEF RemoveDir
  <2>. QED
    BY <2>1, DirStays DEF EnteredInv
<1>4. ASSUME NEW p \in Process, SetWorkDir(p), UNCHANGED confVars
      PROVE  EnteredInv'
  <2>1. CASE entered' = entered /\ pc' # [pc EXCEPT ![p] = AfterDir(p)]
    <3>. PICK to \in {"make", "enter", "quit", "denied", "beaten", "nowhere", "unmade", "vanished", "shut"} :
           pc' = [pc EXCEPT ![p] = to]
      BY <1>4, <2>1, SetWorkDirMoves
    <3>. QED
      BY <1>4, <2>1, EnteredStays
  <2>2. CASE pc' = [pc EXCEPT ![p] = AfterDir(p)]
    <3>1. PICK path \in Named(p) : entered' = [entered EXCEPT ![p] = path]
      BY <1>4, <2>2, SetWorkDirEnters
    <3>2. Absolute => path = WorkDir
      BY NamedPath
    <3>3. Absolute' = Absolute /\ WorkDir' = WorkDir
      BY <1>4, DirStays
    <3>4. \A q \in Process : /\ pc'[q] = IF q = p THEN AfterDir(p) ELSE pc[q]
                             /\ entered'[q] = IF q = p THEN path ELSE entered[q]
      BY <2>2, <3>1 DEF PlaceTypes
    <3>. QED
      BY <3>2, <3>3, <3>4 DEF EnteredInv
  <2>. QED
    BY <1>4, <2>1, <2>2, SetWorkDirDirs
<1>5. CASE DaemonInit /\ UNCHANGED confVars
  <2>1. pc["server"] = "daemon" /\ entered' = entered
    BY <1>5 DEF DaemonInit, ServerQuits, Ends, Goto, dirVars
  <2>2. \E to \in {"listen", "quit"} : pc' = [pc EXCEPT !["server"] = to]
    BY <1>5 DEF DaemonInit, ServerQuits, Ends, Goto
  <2>. QED
    BY <1>5, <2>1, <2>2, EnteredStays
<1>6. CASE StartListening /\ UNCHANGED confVars
  <2>1. pc["server"] = "listen" /\ entered' = entered
    BY <1>6 DEF StartListening, ServerQuits, Ends, Goto, dirVars
  <2>2. \E to \in {"accept", "quit"} : pc' = [pc EXCEPT !["server"] = to]
    BY <1>6 DEF StartListening, ServerQuits, Ends, Goto
  <2>. QED
    BY <1>6, <2>1, <2>2, EnteredStays
<1>7. CASE ServerQuits("accept") /\ UNCHANGED confVars
  <2>1. pc' = [pc EXCEPT !["server"] = "quit"] /\ entered' = entered
    BY <1>7 DEF ServerQuits, Ends, Goto, dirVars
  <2>2. "server" \in Process /\ UNCHANGED confVars
    BY <1>7 DEF Process
  <2>3. "quit" \notin {"daemon", "listen", "accept", "fork"} /\ "quit" # "store"
    OBVIOUS
  <2>. QED
    BY <2>1, <2>2, <2>3, EnteredStays
<1>8. ASSUME NEW c \in Child, AcceptClient(c), UNCHANGED confVars
      PROVE  EnteredInv'
  <2>1. pc["server"] = "accept" /\ entered' = entered
    BY <1>8 DEF AcceptClient, dirVars
  <2>2. pc'["server"] = "fork" /\ \A d \in Child : pc'[d] = IF d = c THEN "accepted" ELSE pc[d]
    BY <1>8 DEF AcceptClient, PlaceTypes
  <2>. QED
    BY <1>8, <2>1, <2>2, DirStays DEF EnteredInv
<1>9. ASSUME NEW c \in Child, Fork(c), UNCHANGED confVars
      PROVE  EnteredInv'
  <2>1. pc["server"] = "fork" /\ pc'["server"] = "accept" /\ pc'[c] \in {"password", "dropped"}
    BY <1>9 DEF Fork, PlaceTypes
  <2>2. \A q \in Process : /\ q \notin {"server", c} => pc'[q] = pc[q]
                           /\ entered'[q] = IF q = c THEN entered["server"] ELSE entered[q]
    BY <1>9 DEF Fork, PlaceTypes
  <2>. QED
    BY <1>9, <2>1, <2>2, DirStays DEF EnteredInv
<1>10. ASSUME NEW c \in Child, CheckPassword(c), UNCHANGED confVars
       PROVE  EnteredInv'
  <2>1. pc[c] = "password" /\ entered' = entered
    BY <1>10 DEF CheckPassword, Leaves, Ends, Goto, dirVars
  <2>2. \E to \in {"check", "refused"} : pc' = [pc EXCEPT ![c] = to]
    BY <1>10 DEF CheckPassword, Leaves, Ends, Goto
  <2>. QED
    BY <1>10, <2>1, <2>2, EnteredStays
<1>11. ASSUME NEW c \in Child, StoreFile(c), UNCHANGED confVars
       PROVE  EnteredInv'
  <2>1. entered' = entered
    BY <1>11 DEF StoreFile, FileOpened, Leaves, Ends, dirVars
  <2>2. \E to \in {"storing", "astray", "done"} : pc' = [pc EXCEPT ![c] = to]
    BY <1>11 DEF StoreFile, FileOpened, Leaves, Ends, Goto
  <2>. QED
    BY <1>11, <2>1, <2>2, EnteredStays
<1>12. CASE UNCHANGED vars
  <2>1. UNCHANGED <<confVars, pc, entered>>
    BY <1>12 DEF vars, serverVars, dirVars
  <2>. QED
    BY <2>1, DirStays DEF EnteredInv
<1>. QED
  BY <1>1, <1>2, <1>3, <1>4, <1>5, <1>6, <1>7, <1>8, <1>9, <1>10, <1>11, <1>12
  DEF Next, Main, Serve, Finished

\* A directory that is still there has the path by which it was entered.
LEMMA StoredThere ==
  ASSUME PlaceTypes, TreeInv, EnteredInv, [Next]_vars
  PROVE  \A c \in Child : Absolute /\ pc[c] = "store" /\ pc'[c] = "storing" =>
           WorkDir \in DOMAIN tree /\ tree[WorkDir] = cwd[c]
<1>. SUFFICES ASSUME NEW c \in Child, Absolute, pc[c] = "store", pc'[c] = "storing"
              PROVE  WorkDir \in DOMAIN tree /\ tree[WorkDir] = cwd[c]
  OBVIOUS
<1>. USE ChildrenAreOthers
<1>1. PathsOf(cwd[c]) # {}
  <2>1. ASSUME NEW p \in Process, NEW to, pc' = [pc EXCEPT ![p] = to]
        PROVE  p = c /\ to = "storing"
    BY <2>1 DEF PlaceTypes
  <2>2. ~(UNCHANGED pc)
    OBVIOUS
  <2>3. ASSUME NEW p \in Process, SetWorkDir(p) PROVE FALSE
    BY <2>1, <2>3, SetWorkDirMoves
  <2>4. ~(Configured \/ DaemonInit \/ StartListening \/ ServerQuits("accept"))
    BY <2>1 DEF Configured, DaemonInit, StartListening, ServerQuits, Ends, Goto
  <2>5. ASSUME NEW d \in Child, AcceptClient(d) \/ Fork(d) PROVE FALSE
    BY <2>5 DEF AcceptClient, Fork, PlaceTypes
  <2>6. ASSUME NEW d \in Child, CheckPassword(d) PROVE FALSE
    BY <2>1, <2>6 DEF CheckPassword, Leaves, Ends, Goto
  <2>7. ASSUME NEW d \in Child, StoreFile(d) PROVE PathsOf(cwd[c]) # {}
    <3>1. CASE PathsOf(cwd[d]) # {} /\ FileOpened(d, "storing")
      BY <2>1, <3>1 DEF FileOpened, Goto
    <3>2. CASE FileOpened(d, "astray") \/ Leaves(d, pc[d], "done")
      BY <2>1, <3>2 DEF FileOpened, Leaves, Ends, Goto
    <3>. QED
      BY <2>7, <3>1, <3>2 DEF StoreFile
  <2>8. ReadConf \/ RemoveDir \/ UNCHANGED vars => UNCHANGED pc
    BY DEF ReadConf, RemoveDir, vars, serverVars
  <2>. QED
    BY <2>2, <2>3, <2>4, <2>5, <2>6, <2>7, <2>8 DEF Next, Main, Serve, Finished
<1>2. PICK path \in DOMAIN tree : tree[path] = cwd[c]
  BY <1>1 DEF PathsOf
<1>3. path = entered[c] /\ entered[c] = WorkDir
  BY <1>2 DEF TreeInv, EnteredInv
<1>. QED
  BY <1>2, <1>3

-------------------------------------------------------------------------------
(* Where the messages go. *)

\* The messages go to the terminal as long as main is alone and has its descriptors
\* from it, and to the log from the moment on when it closes them.
LogInv ==
  /\ log_to_stderr \in BOOLEAN
  /\ logged \subseteq {"tty", "log"}
  /\ log_to_stderr => /\ Range(fds["server"]) \subseteq {"tty"}
                      /\ \A c \in Child : pc[c] = "absent"
  /\ log_to_stderr => pc["server"] \in {"configure", "check", "make", "enter", "daemon", "quit"}
  /\ pc["server"] \in {"configure", "check", "make", "enter", "daemon"} => log_to_stderr

LEMMA LogInit == Init => LogInv
<1>. SUFFICES ASSUME Init PROVE LogInv
  OBVIOUS
<1>1. /\ fds["server"] = [i \in 0..2 |-> "tty"] /\ pc["server"] = "configure"
      /\ \A c \in Child : pc[c] = "absent"
  BY ChildrenAreOthers DEF Init
<1>2. Range(fds["server"]) \subseteq {"tty"}
  BY <1>1 DEF Range
<1>. QED
  BY <1>1, <1>2 DEF Init, LogInv

\* A message of main or of a child that runs.
LEMMA Said ==
  ASSUME LogInv, NEW p \in Process, p \in Child => pc[p] # "absent", Says(p)
  PROVE  logged' \subseteq {"tty", "log"} /\ log_to_stderr' = log_to_stderr
<1>1. CASE log_to_stderr
  <2>1. p = "server"
    BY <1>1 DEF LogInv, Process
  <2>2. LogTo(p) \subseteq {"tty"}
    BY <1>1, <2>1 DEF LogTo, LogInv, Range
  <2>. QED
    BY <2>2 DEF Says, LogInv
<1>2. CASE ~log_to_stderr
  BY <1>2 DEF LogTo, Says, LogInv
<1>. QED
  BY <1>1, <1>2

\* What a step of one process does to its table while messages go to the terminal.
LEMMA LogMoves ==
  ASSUME PlaceTypes, LogInv, NEW p \in Process, NEW to, NEW table,
         pc' = [pc EXCEPT ![p] = to], fds' = [fds EXCEPT ![p] = table],
         logged' \subseteq {"tty", "log"}, log_to_stderr' = log_to_stderr,
         p # "server" => pc[p] # "absent",
         p = "server" /\ log_to_stderr =>
           /\ Range(table) \subseteq {"tty"}
           /\ to \in {"configure", "check", "make", "enter", "daemon", "quit"},
         p = "server" /\ ~log_to_stderr => to \notin {"configure", "check", "make", "enter", "daemon"}
  PROVE  LogInv'
<1>1. \A q \in Process : /\ pc'[q] = IF q = p THEN to ELSE pc[q]
                         /\ fds'[q] = IF q = p THEN table ELSE fds[q]
  BY DEF PlaceTypes
<1>2. CASE p = "server"
  BY <1>1, <1>2, ChildrenAreOthers DEF LogInv
<1>3. CASE p \in Child
  BY <1>1, <1>3, ChildrenAreOthers DEF LogInv
<1>. QED
  BY <1>2, <1>3 DEF Process

LEMMA LogStep ==
  ASSUME PlaceTypes, PlaceInv, LogInv, [Next]_vars
  PROVE  LogInv'
<1>. USE ChildrenAreOthers
<1>1. ASSUME NEW p \in Process, SetWorkDir(p)
      PROVE  LogInv'
  <2>1. pc[p] \in {"check", "make", "enter"} /\ (p = "server" => log_to_stderr)
    BY <1>1, SetWorkDirMoves DEF LogInv
  <2>2. p \in Child => pc[p] # "absent" /\ ~log_to_stderr
    BY <2>1 DEF LogInv
  <2>3. /\ logged' \subseteq {"tty", "log"} /\ log_to_stderr' = log_to_stderr
    <3>1. Says(p) \/ UNCHANGED logVars
      BY <1>1 DEF SetWorkDir, CheckDir, MakeDir, EnterDir, ChangeDir, Fails, Log
    <3>. QED
      BY <2>2, <3>1, Said DEF logVars, LogInv
  <2>4. \E to \in {"make", "enter", AfterDir(p), "quit", "denied", "beaten", "nowhere", "unmade", "vanished", "shut"} :
          pc' = [pc EXCEPT ![p] = to] /\ (to \notin {"make", "enter", AfterDir(p), "quit"} => p # "server")
    BY <1>1, SetWorkDirMoves
  <2>5. \E table : fds' = [fds EXCEPT ![p] = table]
    BY <1>1, SetWorkDirMoves
  <2>6. p = "server" => Range(fds'["server"]) \subseteq {"tty"}
    <3>1. ASSUME p = "server" PROVE fds'["server"] \in {fds["server"], <<>>}
      BY <1>1, <2>1, <3>1 DEF SetWorkDir, CheckDir, MakeDir, EnterDir, ChangeDir, Fails, Ends, Log, PlaceTypes
    <3>. QED
      BY <2>1, <3>1, EmptyRange DEF LogInv
  <2>7. PICK to, table : /\ pc' = [pc EXCEPT ![p] = to] /\ fds' = [fds EXCEPT ![p] = table]
                         /\ p = "server" => to \in {"make", "enter", "daemon", "quit"}
    BY <2>4, <2>5 DEF AfterDir
  <2>8. fds'[p] = table
    BY <2>7 DEF PlaceTypes
  <2>. QED
    BY <2>1, <2>2, <2>3, <2>6, <2>7, <2>8, LogMoves
<1>2. CASE DaemonInit
  <2>1. CASE ServerQuits("daemon")
    BY <2>1, Said, EmptyRange, LogMoves DEF ServerQuits, Ends, Goto
  <2>2. CASE /\ Goto("server", "daemon", "listen") /\ log_to_stderr' = FALSE /\ UNCHANGED logged
    BY <2>2 DEF Goto, LogInv, PlaceTypes
  <2>. QED
    BY <1>2, <2>1, <2>2 DEF DaemonInit
<1>3. CASE StartListening
  <2>1. pc["server"] = "listen"
    BY <1>3 DEF StartListening, ServerQuits, Ends, Goto
  <2>2. ~log_to_stderr
    BY <2>1 DEF LogInv
  <2>3. logged' \subseteq {"tty", "log"} /\ log_to_stderr' = log_to_stderr
    BY <1>3, Said DEF StartListening, ServerQuits, logVars, LogInv
  <2>4. pc'["server"] \in {"accept", "quit"}
    BY <1>3 DEF StartListening, ServerQuits, Ends, Goto, PlaceTypes
  <2>. QED
    BY <2>2, <2>3, <2>4 DEF LogInv
<1>4. CASE ServerQuits("accept")
  <2>1. pc["server"] = "accept" /\ pc'["server"] = "quit"
    BY <1>4 DEF ServerQuits, Ends, Goto, PlaceTypes
  <2>2. logged' \subseteq {"tty", "log"} /\ log_to_stderr' = log_to_stderr /\ ~log_to_stderr
    BY <1>4, <2>1, Said DEF ServerQuits, LogInv
  <2>. QED
    BY <2>1, <2>2 DEF LogInv
<1>5. ASSUME NEW c \in Child, AcceptClient(c) \/ Fork(c)
      PROVE  LogInv'
  <2>1. pc["server"] \in {"accept", "fork"} /\ pc'["server"] \in {"accept", "fork"} /\ UNCHANGED logVars
    BY <1>5 DEF AcceptClient, Fork, PlaceTypes
  <2>. QED
    BY <2>1 DEF LogInv, logVars
<1>6. ASSUME NEW c \in Child, CheckPassword(c) \/ StoreFile(c)
      PROVE  LogInv'
  <2>1. pc[c] # "absent" /\ pc'["server"] = pc["server"]
    BY <1>6 DEF CheckPassword, StoreFile, FileOpened, Leaves, Ends, Goto, PlaceTypes
  <2>2. Says(c) \/ UNCHANGED logVars
    BY <1>6 DEF CheckPassword, StoreFile, FileOpened, Leaves
  <2>3. logged' \subseteq {"tty", "log"} /\ log_to_stderr' = log_to_stderr /\ ~log_to_stderr
    BY <2>1, <2>2, Said DEF LogInv, logVars
  <2>. QED
    BY <2>1, <2>3 DEF LogInv
<1>7. CASE Configured
  <2>1. /\ pc["server"] = "configure" /\ UNCHANGED fds /\ pc'["server"] \in {"check", "quit"}
        /\ \A c \in Child : pc'[c] = pc[c]
    BY <1>7 DEF Configured, Goto, PlaceTypes
  <2>2. logged' \subseteq {"tty", "log"} /\ log_to_stderr' = log_to_stderr
    BY <1>7, Said DEF Configured
  <2>. QED
    BY <2>1, <2>2 DEF LogInv
<1>8. CASE UNCHANGED <<pc, fds, logVars>>
  BY <1>8 DEF LogInv, logVars
<1>9. ASSUME ReadConf \/ RemoveDir \/ UNCHANGED vars
      PROVE  UNCHANGED <<pc, fds, logVars>>
  BY <1>9 DEF ReadConf, RemoveDir, vars, serverVars
<1>. QED
  BY <1>1, <1>2, <1>3, <1>4, <1>5, <1>6, <1>7, <1>8, <1>9
  DEF Next, Main, Serve, Finished

\* None of the places where messages go is a client or a file.
LEMMA LogMeans == LogInv => LogsApart
BY ServerAssumption DEF LogInv, LogsApart

-------------------------------------------------------------------------------
(* Which descriptors they have. *)

Running == {"password", "check", "make", "enter", "store", "storing", "astray"}

\* The server holds a connection only between accept and the end of fork, a child
\* only its own, from its first step to its last.
TableInv ==
  /\ \A p \in Process : IsFiniteSet(DOMAIN fds[p])
  /\ Range(fds["server"]) \subseteq {"tty", "null", "listen"} \cup {c \in Child : pc[c] = "accepted"}
  /\ pc["server"] \in {"listen", "accept", "fork"} => "tty" \notin Range(fds["server"])
  /\ \A c \in Child : pc[c] = "accepted" => c \in Range(fds["server"])
  /\ \A c \in Child : Range(fds[c]) \subseteq {c, "null", "log", "file"}
  /\ \A c \in Child : pc[c] \in Running => c \in Range(fds[c])

LEMMA TableInit == Init => TableInv
<1>. SUFFICES ASSUME Init PROVE TableInv
  OBVIOUS
<1>1. /\ fds["server"] = [i \in 0..2 |-> "tty"] /\ pc["server"] = "configure"
      /\ \A c \in Child : fds[c] = <<>> /\ pc[c] = "absent"
  BY ChildrenAreOthers DEF Init
<1>2. IsFiniteSet(DOMAIN fds["server"])
  <2>1. DOMAIN fds["server"] = 0..2
    BY <1>1
  <2>2. IsFiniteSet(0..2)
    BY 0 \in Int, 2 \in Int, FS_Interval
  <2>. QED
    BY <2>1, <2>2
<1>3. \A p \in Process : IsFiniteSet(DOMAIN fds[p])
  BY <1>1, <1>2, EmptyRange DEF Process
<1>4. Range(fds["server"]) \subseteq {"tty"}
  BY <1>1 DEF Range
<1>. QED
  BY <1>1, <1>3, <1>4, EmptyRange DEF TableInv, Running

\* Everything that a step must respect to preserve it.
LEMMA TableMoves ==
  ASSUME PlaceTypes, TableInv, NEW p \in Process, NEW table, NEW to,
         pc' = [pc EXCEPT ![p] = to], fds' = [fds EXCEPT ![p] = table],
         IsFiniteSet(DOMAIN table), to # "accepted", pc[p] # "accepted",
         p = "server" =>
           /\ Range(table) \subseteq {"tty", "null", "listen"} \cup {c \in Child : pc[c] = "accepted"}
           /\ to \in {"listen", "accept", "fork"} => "tty" \notin Range(table)
           /\ \A c \in Child : pc[c] = "accepted" => c \in Range(table),
         p # "server" =>
           /\ Range(table) \subseteq {p, "null", "log", "file"}
           /\ to \in Running => p \in Range(table)
  PROVE  TableInv'
<1>1. \A q \in Process : /\ pc'[q] = IF q = p THEN to ELSE pc[q]
                         /\ fds'[q] = IF q = p THEN table ELSE fds[q]
  BY DEF PlaceTypes
<1>2. \A q \in Process : IsFiniteSet(DOMAIN fds'[q])
  BY <1>1 DEF TableInv
<1>3. \A c \in Child : pc'[c] = "accepted" <=> pc[c] = "accepted"
  BY <1>1, ChildrenAreOthers
<1>4. CASE p = "server"
  <2>1. fds'["server"] = table /\ pc'["server"] = to
    BY <1>1, <1>4
  <2>2. \A c \in Child : fds'[c] = fds[c] /\ pc'[c] = pc[c]
    BY <1>1, <1>4, ChildrenAreOthers
  <2>. QED
    BY <1>2, <1>4, <2>1, <2>2 DEF TableInv
<1>5. CASE p \in Child
  <2>1. fds'["server"] = fds["server"] /\ pc'["server"] = pc["server"]
    BY <1>1, <1>5, ChildrenAreOthers
  <2>2. \A c \in Child : /\ Range(fds'[c]) \subseteq {c, "null", "log", "file"}
                         /\ pc'[c] \in Running => c \in Range(fds'[c])
    BY <1>1, <1>5, ChildrenAreOthers DEF TableInv
  <2>. QED
    BY <1>2, <1>3, <2>1, <2>2 DEF TableInv
<1>. QED
  BY <1>4, <1>5 DEF Process

LEMMA LoggedRange ==
  ASSUME NEW table, IsFiniteSet(DOMAIN table)
  PROVE  /\ Range(Logged(table)) = Range(table) \cup {"log"}
         /\ IsFiniteSet(DOMAIN Logged(table))
BY OpenedRange DEF Logged

\* What a step of set_work_dir does to the descriptors.
LEMMA SetWorkDirTables ==
  ASSUME PlaceTypes, LogInv, NEW p \in Process, SetWorkDir(p)
  PROVE  \E table, to :
           /\ pc' = [pc EXCEPT ![p] = to] /\ fds' = [fds EXCEPT ![p] = table]
           /\ to \notin {"accepted", "listen", "accept", "fork"}
           /\ \/ table = fds[p] /\ to \in {"make", "enter", AfterDir(p)}
              \/ table = <<>> /\ to \notin Running
              \/ p # "server" /\ table = Logged(fds[p]) /\ to \in {"make", "enter"}
<1>. DEFINE Result(table, to) ==
       /\ pc' = [pc EXCEPT ![p] = to] /\ fds' = [fds EXCEPT ![p] = table]
       /\ to \notin {"accepted", "listen", "accept", "fork"}
       /\ \/ table = fds[p] /\ to \in {"make", "enter", AfterDir(p)}
          \/ table = <<>> /\ to \notin Running
          \/ p # "server" /\ table = Logged(fds[p]) /\ to \in {"make", "enter"}
<1>0. p = "server" <=> log_to_stderr
  BY SetWorkDirMoves, ChildrenAreOthers DEF LogInv, Process
<1>1. ASSUME NEW from, NEW to \in {"make", "enter", AfterDir(p)}, Goto(p, from, to), fds' = fds
      PROVE  \E table, next : Result(table, next)
  <2>1. Result(fds[p], to)
    BY <1>1 DEF Goto, PlaceTypes, AfterDir
  <2>. QED
    BY <2>1
<1>2. ASSUME NEW from, NEW to \in {"make", "enter"}, Goto(p, from, to), Log(p)
      PROVE  \E table, next : Result(table, next)
  <2>1. CASE p = "server"
    <3>1. fds' = fds
      BY <1>2, <2>1, <1>0 DEF Log, PlaceTypes
    <3>. QED
      BY <1>1, <1>2, <3>1
  <2>2. CASE p # "server"
    <3>1. Result(Logged(fds[p]), to)
      BY <1>0, <1>2, <2>2 DEF Log, Goto
    <3>. QED
      BY <3>1
  <2>. QED
    BY <2>1, <2>2
<1>3. ASSUME NEW from, NEW how \in {"denied", "beaten", "nowhere", "unmade", "vanished", "shut"}, Fails(p, from, how)
      PROVE  \E table, next : Result(table, next)
  <2>. DEFINE next == IF p = "server" THEN "quit" ELSE how
  <2>1. next \notin {"accepted", "listen", "accept", "fork"} \cup Running
    BY DEF Running
  <2>2. pc' = [pc EXCEPT ![p] = next] /\ fds' = [fds EXCEPT ![p] = <<>>]
    BY <1>3 DEF Fails, Ends, Goto
  <2>. HIDE DEF next
  <2>3. Result(<<>>, next)
    BY <2>1, <2>2
  <2>. QED
    BY <2>3
<1>. HIDE DEF Result
<1>4. ASSUME CheckDir(p) PROVE \E table, to : Result(table, to)
  BY <1>1, <1>2, <1>3, <1>4 DEF CheckDir
<1>5. ASSUME MakeDir(p) PROVE \E table, to : Result(table, to)
  BY <1>1, <1>2, <1>3, <1>5 DEF MakeDir
<1>6. ASSUME EnterDir(p) PROVE \E table, to : Result(table, to)
  BY <1>1, <1>2, <1>3, <1>6 DEF EnterDir, ChangeDir
<1>7. \E table, to : Result(table, to)
  BY <1>4, <1>5, <1>6 DEF SetWorkDir
<1>. QED
  BY <1>7 DEF Result

\* daemon_init opens the same file up to three times.
LEMMA NullRange ==
  ASSUME NEW table, IsFiniteSet(DOMAIN table)
  PROVE  /\ Range(NullOpened(table)) \subseteq Range(table) \cup {"null"}
         /\ IsFiniteSet(DOMAIN NullOpened(table))
BY OpenedRange DEF NullOpened

LEMMA TableStep ==
  ASSUME PlaceTypes, PlaceInv, LogInv, TableInv, [Next]_vars
  PROVE  TableInv'
<1>. USE ChildrenAreOthers
<1>1. ASSUME NEW p \in Process, SetWorkDir(p)
      PROVE  TableInv'
  <2>. PICK table, to :
           /\ pc' = [pc EXCEPT ![p] = to] /\ fds' = [fds EXCEPT ![p] = table]
           /\ to \notin {"accepted", "listen", "accept", "fork"}
           /\ \/ table = fds[p]
              \/ table = <<>> /\ to \notin Running
              \/ p # "server" /\ table = Logged(fds[p])
    BY <1>1, SetWorkDirTables
  <2>1. pc[p] \in {"check", "make", "enter"}
    BY <1>1, SetWorkDirMoves
  <2>2. IsFiniteSet(DOMAIN table)
    BY EmptyRange, LoggedRange DEF TableInv
  <2>3. pc[p] # "accepted" /\ pc[p] \in Running
    BY <2>1 DEF Running
  <2>4. ASSUME p = "server"
        PROVE  /\ Range(table) \subseteq {"tty", "null", "listen"} \cup {c \in Child : pc[c] = "accepted"}
               /\ \A c \in Child : pc[c] # "accepted"
    <3>1. table = fds["server"] \/ table = <<>>
      BY <2>4
    <3>. QED
      BY <2>1, <2>4, <3>1, EmptyRange DEF TableInv, PlaceInv
  <2>5. ASSUME p \in Child
        PROVE  /\ Range(table) \subseteq {p, "null", "log", "file"}
               /\ to \in Running => p \in Range(table)
    <3>1. Range(fds[p]) \subseteq {p, "null", "log", "file"} /\ p \in Range(fds[p])
      BY <2>3, <2>5 DEF TableInv
    <3>2. Range(Logged(fds[p])) = Range(fds[p]) \cup {"log"}
      BY LoggedRange DEF TableInv
    <3>. QED
      BY <3>1, <3>2, EmptyRange
  <2>6. p \in Child \/ p = "server"
    BY DEF Process
  <2>. QED
    BY <2>2, <2>3, <2>4, <2>5, <2>6, TableMoves
<1>2. CASE DaemonInit
  <2>. DEFINE first == NullOpened(<<>>)
              second == NullOpened(first)
              third == NullOpened(second)
  <2>1. Range(first) \subseteq {"null"} /\ IsFiniteSet(DOMAIN first)
    BY EmptyRange, NullRange
  <2>. HIDE DEF first
  <2>2. Range(second) \subseteq {"null"} /\ IsFiniteSet(DOMAIN second)
    BY <2>1, NullRange
  <2>. HIDE DEF second
  <2>3. Range(third) \subseteq {"null"} /\ IsFiniteSet(DOMAIN third)
    BY <2>2, NullRange
  <2>. HIDE DEF third
  <2>4. pc["server"] = "daemon"
    BY <1>2 DEF DaemonInit, ServerQuits, Ends, Goto
  <2>5. \A c \in Child : pc[c] # "accepted"
    BY <2>4 DEF PlaceInv
  <2>6. CASE ServerQuits("daemon")
    <3>1. pc' = [pc EXCEPT !["server"] = "quit"] /\ fds' = [fds EXCEPT !["server"] = <<>>]
      BY <2>6 DEF ServerQuits, Ends, Goto
    <3>. QED
      BY <2>4, <2>5, <3>1, EmptyRange, TableMoves
  <2>7. CASE pc' = [pc EXCEPT !["server"] = "listen"] /\ fds' = [fds EXCEPT !["server"] = third]
    BY <2>3, <2>4, <2>5, <2>7, TableMoves
  <2>. QED
    BY <1>2, <2>6, <2>7 DEF DaemonInit, Goto, first, second, third
<1>3. CASE StartListening
  <2>1. pc["server"] = "listen" /\ \A c \in Child : pc[c] # "accepted"
    BY <1>3 DEF StartListening, ServerQuits, Ends, Goto, PlaceInv
  <2>2. CASE ServerQuits("listen")
    <3>1. pc' = [pc EXCEPT !["server"] = "quit"] /\ fds' = [fds EXCEPT !["server"] = <<>>]
      BY <2>2 DEF ServerQuits, Ends, Goto
    <3>. QED
      BY <2>1, <3>1, EmptyRange, TableMoves
  <2>3. CASE pc' = [pc EXCEPT !["server"] = "accept"]
             /\ fds' = [fds EXCEPT !["server"] = Opened(fds["server"], "listen")]
    <3>. DEFINE table == Opened(fds["server"], "listen")
    <3>1. IsFiniteSet(DOMAIN table) /\ Range(table) = Range(fds["server"]) \cup {"listen"}
      BY OpenedRange DEF TableInv
    <3>2. Range(table) \subseteq {"null", "listen"}
      BY <2>1, <3>1 DEF TableInv
    <3>. HIDE DEF table
    <3>3. fds' = [fds EXCEPT !["server"] = table]
      BY <2>3 DEF table
    <3>. QED
      BY <2>1, <2>3, <3>1, <3>2, <3>3, TableMoves
  <2>. QED
    BY <1>3, <2>2, <2>3 DEF StartListening, Goto
<1>4. CASE ServerQuits("accept")
  <2>1. pc["server"] = "accept" /\ pc' = [pc EXCEPT !["server"] = "quit"]
        /\ fds' = [fds EXCEPT !["server"] = <<>>]
    BY <1>4 DEF ServerQuits, Ends, Goto
  <2>2. \A c \in Child : pc[c] # "accepted"
    BY <2>1 DEF PlaceInv
  <2>. QED
    BY <2>1, <2>2, EmptyRange, TableMoves
<1>5. ASSUME NEW c \in Child, AcceptClient(c)
      PROVE  TableInv'
  <2>. DEFINE table == Opened(fds["server"], c)
  <2>1. IsFiniteSet(DOMAIN table) /\ Range(table) = Range(fds["server"]) \cup {c}
    BY OpenedRange DEF TableInv
  <2>. HIDE DEF table
  <2>2. \A q \in Process : fds'[q] = IF q = "server" THEN table ELSE fds[q]
    BY <1>5 DEF AcceptClient, PlaceTypes, table
  <2>3. /\ pc["server"] = "accept" /\ pc'["server"] = "fork" /\ pc'[c] = "accepted"
        /\ \A d \in Child \ {c} : pc'[d] = pc[d] 
    BY <1>5 DEF AcceptClient, PlaceTypes
  <2>4. Range(fds'["server"]) \subseteq {"tty", "null", "listen"} \cup {d \in Child : pc'[d] = "accepted"}
    BY <2>1, <2>2, <2>3 DEF TableInv, PlaceInv
  <2>5. c # "tty"
    BY ServerAssumption
  <2>6. "tty" \notin Range(fds'["server"])
    BY <2>1, <2>2, <2>3, <2>5 DEF TableInv
  <2>7. \A d \in Child : pc'[d] = "accepted" => d \in Range(fds'["server"])
    BY <2>1, <2>2, <2>3 DEF TableInv
  <2>8. \A d \in Child : /\ Range(fds'[d]) \subseteq {d, "null", "log", "file"}
                         /\ pc'[d] \in Running => d \in Range(fds'[d])
    BY <2>2, <2>3 DEF TableInv, Running
  <2>9. \A q \in Process : IsFiniteSet(DOMAIN fds'[q])
    BY <2>1, <2>2 DEF TableInv
  <2>. QED
    BY <2>4, <2>6, <2>7, <2>8, <2>9 DEF TableInv
<1>6. ASSUME NEW c \in Child, Fork(c)
      PROVE  TableInv'
  <2>. DEFINE kept == Closed(fds["server"], c)
              taken == Closed(fds["server"], "listen")
  <2>1. IsFiniteSet(DOMAIN fds["server"])
    BY DEF TableInv
  <2>2. IsFiniteSet(DOMAIN kept) /\ Range(kept) = Range(fds["server"]) \ {c}
    BY <2>1, ClosedRange
  <2>3. IsFiniteSet(DOMAIN taken) /\ Range(taken) = Range(fds["server"]) \ {"listen"}
    BY <2>1, ClosedRange
  <2>4. pc["server"] = "fork" /\ pc[c] = "accepted" /\ \A d \in Child : pc[d] = "accepted" => d = c
    BY <1>6 DEF Fork, PlaceInv
  <2>5. Range(fds["server"]) \subseteq {"null", "listen", c} /\ c \in Range(fds["server"]) /\ c # "listen"
    BY <2>4, ServerAssumption DEF TableInv
  <2>6. /\ pc'["server"] = "accept" /\ pc'[c] \in {"password", "dropped"}
        /\ \A d \in Child \ {c} : pc'[d] = pc[d]
    BY <1>6 DEF Fork, PlaceTypes
  <2>7. /\ fds'["server"] = kept
        /\ \A d \in Child \ {c} : fds'[d] = fds[d]
        /\ \/ fds'[c] = taken
           \/ fds'[c] = fds[c] /\ pc'[c] = "dropped"
    <3>1. CASE /\ pc' = [pc EXCEPT !["server"] = "accept", ![c] = "password"]
               /\ fds' = [fds EXCEPT !["server"] = kept, ![c] = taken]
      BY <3>1 DEF PlaceTypes
    <3>2. CASE /\ pc' = [pc EXCEPT !["server"] = "accept", ![c] = "dropped"]
               /\ fds' = [fds EXCEPT !["server"] = kept]
      BY <3>2 DEF PlaceTypes
    <3>. QED
      BY <1>6, <3>1, <3>2 DEF Fork
  <2>. HIDE DEF kept, taken
  <2>8. \A q \in Process : IsFiniteSet(DOMAIN fds'[q])
    BY <2>2, <2>3, <2>7 DEF TableInv, Process
  <2>9. /\ Range(fds'["server"]) \subseteq {"null", "listen"}
        /\ \A d \in Child : pc'[d] # "accepted"
    BY <2>2, <2>4, <2>5, <2>6, <2>7
  <2>10. Range(fds'[c]) \subseteq {c, "null", "log", "file"} /\ (pc'[c] \in Running => c \in Range(fds'[c]))
    BY <2>3, <2>5, <2>7 DEF TableInv, Running
  <2>11. \A d \in Child : /\ Range(fds'[d]) \subseteq {d, "null", "log", "file"}
                          /\ pc'[d] \in Running => d \in Range(fds'[d])
    BY <2>6, <2>7, <2>10 DEF TableInv
  <2>. QED
    BY <2>8, <2>9, <2>11 DEF TableInv
<1>7. ASSUME NEW c \in Child, CheckPassword(c)
      PROVE  TableInv'
  <2>1. pc[c] = "password" /\ c \in Range(fds[c]) /\ fds = [fds EXCEPT ![c] = fds[c]]
    BY <1>7 DEF CheckPassword, Leaves, Ends, Goto, TableInv, Running, PlaceTypes
  <2>2. \/ pc' = [pc EXCEPT ![c] = "check"] /\ fds' = [fds EXCEPT ![c] = fds[c]]
        \/ pc' = [pc EXCEPT ![c] = "refused"] /\ fds' = [fds EXCEPT ![c] = <<>>]
    BY <1>7, <2>1 DEF CheckPassword, Leaves, Ends, Goto
  <2>3. IsFiniteSet(DOMAIN fds[c]) /\ Range(fds[c]) \subseteq {c, "null", "log", "file"}
    BY DEF TableInv
  <2>4. "refused" \notin Running
    BY DEF Running
  <2>. QED
    BY <2>1, <2>2, <2>3, <2>4, EmptyRange, TableMoves
<1>8. ASSUME NEW c \in Child, StoreFile(c)
      PROVE  TableInv'
  <2>. DEFINE table == Opened(fds[c], "file")
  <2>1. pc[c] \in {"store", "storing", "astray"} /\ c \in Range(fds[c])
    BY <1>8 DEF StoreFile, FileOpened, Leaves, Ends, Goto, TableInv, Running
  <2>2. IsFiniteSet(DOMAIN fds[c]) /\ Range(fds[c]) \subseteq {c, "null", "log", "file"}
    BY DEF TableInv
  <2>3. IsFiniteSet(DOMAIN table) /\ Range(table) = Range(fds[c]) \cup {"file"}
    BY <2>2, OpenedRange
  <2>4. \/ (\E to \in {"storing", "astray"} : pc' = [pc EXCEPT ![c] = to]) /\ fds' = [fds EXCEPT ![c] = table]
        \/ pc' = [pc EXCEPT ![c] = "done"] /\ fds' = [fds EXCEPT ![c] = <<>>]
    BY <1>8 DEF StoreFile, FileOpened, Leaves, Ends, Goto
  <2>5. "done" \notin Running
    BY DEF Running
  <2>. HIDE DEF table
  <2>. QED
    BY <2>1, <2>2, <2>3, <2>4, <2>5, EmptyRange, TableMoves
<1>9. CASE Configured
  <2>1. pc["server"] = "configure" /\ UNCHANGED fds
    BY <1>9 DEF Configured, Goto
  <2>2. pc'["server"] \in {"check", "quit"} /\ \A c \in Child : pc'[c] = pc[c]
    BY <1>9 DEF Configured, Goto, PlaceTypes
  <2>. QED
    BY <2>1, <2>2 DEF TableInv
<1>10. CASE UNCHANGED <<pc, fds>>
  BY <1>10 DEF TableInv
<1>11. ASSUME ReadConf \/ RemoveDir \/ UNCHANGED vars
       PROVE  UNCHANGED <<pc, fds>>
  BY <1>11 DEF ReadConf, RemoveDir, vars, serverVars
<1>. QED
  BY <1>1, <1>2, <1>3, <1>4, <1>5, <1>6, <1>7, <1>8, <1>9, <1>10, <1>11
  DEF Next, Main, Serve, Finished

LEMMA TableMeans ==
  ASSUME PlaceInv, TableInv
  PROVE  DescriptorsApart
<1>1. ASSUME NEW c \in Child, pc[c] \notin {"absent", "accepted"}
      PROVE  c \notin Range(fds["server"]) /\ Range(fds[c]) \cap (Child \cup {"listen"}) \subseteq {c}
  BY <1>1, ServerAssumption DEF TableInv
<1>2. pc["server"] = "accept" => Range(fds["server"]) \subseteq {"null", "listen"}
  BY DEF TableInv, PlaceInv
<1>3. \A c \in Child : pc[c] \in {"store", "storing", "astray"} => c \in Range(fds[c])
  BY DEF TableInv, Running
<1>. QED
  BY <1>1, <1>2, <1>3 DEF DescriptorsApart

-------------------------------------------------------------------------------
(* Who restores the directory. *)

\* The configured path is a sequence of names.
LEMMA WorkDirSequence ==
  ASSUME TextInv
  PROVE  IsSequence(WorkDir)
<1>1. PICK S : conf["workdir"] \in Seq(S)
  BY ServerAssumption DEF TextInv, IsSequence
<1>2. IsFiniteSet(DOMAIN conf["workdir"])
  BY <1>1, FS_Interval
<1>3. IsFiniteSet({i \in DOMAIN conf["workdir"] : conf["workdir"][i] # "/"})
  BY <1>2, FS_Subset
<1>. QED
  BY <1>3, PickedSequence DEF WorkDir, PathOf

\* main has found or made its directory, and with it there is someone to lose it.
Past ==
  \/ pc["server"] \in {"enter", "daemon", "listen", "accept", "fork"}
  \/ \E c \in Child : pc[c] # "absent"

There == WorkDir \in DOMAIN tree

\* What must be there for the directory to be made: the root itself, or the
\* directory it lies in.
Below == IF WorkDir = <<>> THEN <<>> ELSE Front(WorkDir)

Restoring == {"enter", "shut", "store", "storing", "astray", "done"}

\* Until main has a directory the tree is as it was.  From then on the place for an
\* absolute one is never lost; whoever waits to make it although it is there
\* has been overtaken by a child that made it.
RestoreInv ==
  /\ removals \in Nat
  /\ pc["server"] \in {"configure", "check", "make", "enter"} => removals = 0
  /\ pc["server"] \in {"configure", "check", "make"} =>
       /\ <<>> \in DOMAIN tree
       /\ \A path \in DOMAIN tree : path # <<>> => Front(path) \in DOMAIN tree
  /\ Absolute /\ Past =>
       /\ Below \in DOMAIN tree
       /\ \A c \in Child : pc[c] # "nowhere"
       /\ \A c \in Child : pc[c] = "make" => WorkDir # <<>>
       /\ removals = 0 => There /\ \A c \in Child : pc[c] \notin {"make", "beaten"}
       /\ removals = 1 /\ ~There => \A c \in Child : pc[c] # "beaten"
       /\ removals = 1 /\ There /\ (\E c \in Child : pc[c] \in {"make", "beaten"}) =>
            \E d \in Child : pc[d] \in Restoring

\* The directories the server is started among are closed towards the root.
LEMMA RestoreInit == Init => RestoreInv
<1>. SUFFICES ASSUME Init PROVE RestoreInv
  OBVIOUS
<1>1. removals = 0 /\ pc["server"] = "configure" /\ \A c \in Child : pc[c] = "absent"
  BY ChildrenAreOthers DEF Init
<1>2. ~Past
  BY <1>1 DEF Past
<1>3. <<>> \in DOMAIN tree
  <2>1. 0 \in 0..Len(Start) /\ SubSeq(Start, 1, 0) = <<>>
    BY StartPaths
  <2>. QED
    BY <2>1, StartPaths
<1>4. ASSUME NEW path \in DOMAIN tree, path # <<>> PROVE Front(path) \in DOMAIN tree
  <2>. PICK n \in 0..Len(Start) : path = SubSeq(Start, 1, n)
    BY StartPaths
  <2>1. Start \in Seq(STRING) /\ Len(Start) \in Nat
    BY ServerAssumption
  <2>2. Len(path) = n /\ path \in Seq(STRING)
    BY StartPaths
  <2>3. n # 0 /\ n - 1 \in 0..Len(Start)
    BY <1>4, <2>1, <2>2
  <2>4. Front(path) \in Seq(STRING) /\ Len(Front(path)) = n - 1 /\ \A i \in 1..(n - 1) : Front(path)[i] = path[i]
    BY <2>2, <2>3, FrontElements
  <2>5. \A i \in 1..n : path[i] = Start[i]
    BY <2>1
  <2>6. Len(SubSeq(Start, 1, n - 1)) = n - 1 /\ SubSeq(Start, 1, n - 1) \in Seq(STRING)
    BY <2>3, StartPaths
  <2>7. \A i \in 1..(n - 1) : SubSeq(Start, 1, n - 1)[i] = Start[i]
    BY <2>1, <2>3
  <2>8. Front(path) = SubSeq(Start, 1, n - 1)
    BY <2>3, <2>4, <2>5, <2>6, <2>7, SeqEqual
  <2>. QED
    BY <2>3, <2>8, StartPaths
<1>. QED
  BY <1>1, <1>2, <1>3, <1>4 DEF RestoreInv

\* A step that leaves the directories, and brings nobody to where one is made.
LEMMA RestoreStays ==
  ASSUME RestoreInv, UNCHANGED confVars, UNCHANGED <<tree, removals>>,
         Past' => Past,
         pc'["server"] \in {"configure", "check", "make", "enter"} => pc["server"] \in {"configure", "check", "make", "enter"},
         pc'["server"] \in {"configure", "check", "make"} => pc["server"] \in {"configure", "check", "make"},
         \A c \in Child : pc'[c] \in {"make", "nowhere", "beaten"} => pc[c] = pc'[c],
         \A c \in Child : pc[c] \in Restoring => pc'[c] \in Restoring
  PROVE  RestoreInv'
<1>1. Absolute' = Absolute /\ WorkDir' = WorkDir
  BY DirStays
<1>2. There' = There /\ Below' = Below
  BY <1>1 DEF There, Below
<1>3. ASSUME Absolute', Past'
      PROVE  /\ Below' \in DOMAIN tree'
             /\ \A c \in Child : pc'[c] # "nowhere"
             /\ \A c \in Child : pc'[c] = "make" => WorkDir' # <<>>
             /\ removals' = 0 => There' /\ \A c \in Child : pc'[c] \notin {"make", "beaten"}
             /\ removals' = 1 /\ ~There' => \A c \in Child : pc'[c] # "beaten"
             /\ removals' = 1 /\ There' /\ (\E c \in Child : pc'[c] \in {"make", "beaten"}) =>
                  \E d \in Child : pc'[d] \in Restoring
  <2>1. Absolute /\ Past
    BY <1>1, <1>3
  <2>. QED
    BY <1>1, <1>2, <2>1 DEF RestoreInv
<1>. QED
  BY <1>3 DEF RestoreInv

\* set_work_dir by main, before there is anyone else.
LEMMA RestoreMain ==
  ASSUME PlaceTypes, PlaceInv, TextInv, RestoreInv, SetWorkDir("server"), UNCHANGED confVars
  PROVE  RestoreInv'
<1>. USE ChildrenAreOthers
<1>1. pc["server"] \in {"check", "make", "enter"} /\ \A c \in Child : pc[c] = "absent"
  BY SetWorkDirMoves DEF PlaceInv
<1>2. removals' = removals /\ removals = 0
  BY <1>1, SetWorkDirMoves DEF RestoreInv
<1>3. \A c \in Child : pc'[c] = "absent"
  BY <1>1, SetWorkDirMoves DEF PlaceTypes
<1>4. Absolute' = Absolute /\ WorkDir' = WorkDir /\ Below' = Below
  <2>1. Absolute' = Absolute /\ WorkDir' = WorkDir
    BY DirStays
  <2>. QED
    BY <2>1 DEF Below
<1>5. CASE pc'["server"] = "quit"
  BY <1>2, <1>3, <1>5 DEF RestoreInv, Past
<1>6. CASE pc'["server"] = "make"
  <2>1. CheckDir("server") /\ UNCHANGED tree
    <3>1. CASE CheckDir("server")
      BY <1>6, <3>1 DEF CheckDir, dirVars, Fails, Ends
    <3>2. CASE MakeDir("server")
      BY <1>6, <3>2 DEF MakeDir, Goto, Fails, Ends, PlaceTypes
    <3>3. CASE EnterDir("server")
      BY <1>6, <3>3 DEF EnterDir, ChangeDir, Goto, Fails, Ends, PlaceTypes, AfterDir
    <3>. QED
      BY <3>1, <3>2, <3>3 DEF SetWorkDir
  <2>2. pc["server"] = "check"
    BY <2>1 DEF CheckDir, Goto, Fails, Ends
  <2>. QED
    BY <1>2, <1>3, <1>6, <2>1, <2>2 DEF RestoreInv, Past
<1>7. CASE pc'["server"] = "enter"
  <2>1. pc["server"] \in {"check", "make"} /\ (CheckDir("server") \/ MakeDir("server"))
    <3>1. CASE CheckDir("server")
      BY <3>1 DEF CheckDir, Goto, Fails, Ends
    <3>2. CASE MakeDir("server")
      BY <3>2 DEF MakeDir, Goto, Fails, Ends
    <3>3. CASE EnterDir("server")
      BY <1>7, <3>3 DEF EnterDir, ChangeDir, Goto, Fails, Ends, PlaceTypes, AfterDir
    <3>. QED
      BY <3>1, <3>2, <3>3 DEF SetWorkDir
  <2>2. ASSUME Absolute PROVE There' /\ Below' \in DOMAIN tree'
    <3>1. Named("server") = {WorkDir}
      BY <2>2 DEF Named
    <3>2. CASE CheckDir("server")
      <4>1. Exists("server") /\ UNCHANGED tree
        BY <1>7, <3>2 DEF CheckDir, Goto, Fails, Ends, PlaceTypes, dirVars
      <4>2. There
        BY <3>1, <4>1 DEF Exists, There
      <4>3. Below \in DOMAIN tree
        BY <2>1, <4>2 DEF RestoreInv, There, Below
      <4>. QED
        BY <1>4, <4>1, <4>2, <4>3 DEF There
    <3>3. CASE MakeDir("server")
      <4>1. \E path \in Place("server") : tree' = With(tree, path, made)
        BY <1>7, <3>3 DEF MakeDir, Goto, Fails, Ends, PlaceTypes
      <4>2. tree' = With(tree, WorkDir, made) /\ Front(WorkDir) \in DOMAIN tree
        BY <3>1, <4>1 DEF Place
      <4>3. DOMAIN tree' = DOMAIN tree \cup {WorkDir}
        BY <4>2 DEF With
      <4>. QED
        BY <1>4, <2>1, <4>2, <4>3 DEF There, Below
    <3>. QED
      BY <2>1, <3>2, <3>3
  <2>. QED
    BY <1>2, <1>3, <1>4, <1>7, <2>2 DEF RestoreInv
<1>8. CASE pc'["server"] = "daemon"
  <2>1. pc["server"] = "enter" /\ UNCHANGED tree
    <3>1. CASE CheckDir("server")
      BY <1>8, <3>1 DEF CheckDir, Goto, Fails, Ends, PlaceTypes
    <3>2. CASE MakeDir("server")
      BY <1>8, <3>2 DEF MakeDir, Goto, Fails, Ends, PlaceTypes
    <3>3. CASE EnterDir("server")
      BY <1>8, <3>3 DEF EnterDir, ChangeDir, Goto, Fails, Ends, PlaceTypes, AfterDir, dirVars
    <3>. QED
      BY <3>1, <3>2, <3>3 DEF SetWorkDir
  <2>2. Past
    BY <2>1 DEF Past
  <2>3. There' = There
    BY <1>4, <2>1 DEF There
  <2>. QED
    BY <1>2, <1>3, <1>4, <1>8, <2>1, <2>2, <2>3 DEF RestoreInv
<1>9. pc'["server"] \in {"make", "enter", "daemon", "quit"}
  BY SetWorkDirMoves DEF PlaceTypes, AfterDir
<1>. QED
  BY <1>5, <1>6, <1>7, <1>8, <1>9

\* set_work_dir by a child.
LEMMA RestoreChild ==
  ASSUME PlaceTypes, PlaceInv, TextInv, RestoreInv, NEW c \in Child, SetWorkDir(c), UNCHANGED confVars
  PROVE  RestoreInv'
<1>. USE ChildrenAreOthers
<1>. PICK to : pc' = [pc EXCEPT ![c] = to]
  BY SetWorkDirMoves
<1>1. \A q \in Process : pc'[q] = IF q = c THEN to ELSE pc[q]
  BY DEF PlaceTypes
<1>2. removals' = removals /\ pc'["server"] = pc["server"] /\ pc'[c] = to
  BY <1>1, SetWorkDirMoves
<1>3. pc[c] \in {"check", "make", "enter"} /\ Past
  BY SetWorkDirMoves DEF Past
<1>4. pc["server"] \notin {"configure", "check", "make", "enter"}
  BY <1>3 DEF PlaceInv
<1>5. Absolute' = Absolute /\ WorkDir' = WorkDir /\ Below' = Below
  <2>1. Absolute' = Absolute /\ WorkDir' = WorkDir
    BY DirStays
  <2>. QED
    BY <2>1 DEF Below
<1>. SUFFICES ASSUME Absolute
     PROVE  /\ Below' \in DOMAIN tree'
            /\ \A d \in Child : pc'[d] # "nowhere"
            /\ \A d \in Child : pc'[d] = "make" => WorkDir' # <<>>
            /\ removals' = 0 => There' /\ \A d \in Child : pc'[d] \notin {"make", "beaten"}
            /\ removals' = 1 /\ ~There' => \A d \in Child : pc'[d] # "beaten"
            /\ removals' = 1 /\ There' /\ (\E d \in Child : pc'[d] \in {"make", "beaten"}) =>
                 \E d \in Child : pc'[d] \in Restoring
  BY <1>2, <1>4, <1>5 DEF RestoreInv
<1>6. Named(c) = {WorkDir} /\ (Exists(c) <=> There)
  BY DEF Named, Exists, There
<1>7. CASE CheckDir(c)
  <2>1. UNCHANGED tree /\ pc[c] = "check"
    BY <1>7 DEF CheckDir, Goto, Fails, Ends, dirVars
  <2>2. There' = There
    BY <1>5, <2>1 DEF There
  <2>3. to \in {"enter", "denied"} \/ (to = "make" /\ ~There)
    BY <1>2, <1>6, <1>7 DEF CheckDir, Goto, Fails, Ends, PlaceTypes
  <2>4. to = "make" => WorkDir # <<>>
    BY <1>3, <2>3 DEF RestoreInv, There, Below
  <2>. QED
    BY <1>1, <1>2, <1>3, <1>5, <2>1, <2>2, <2>3, <2>4 DEF RestoreInv, Restoring
<1>8. CASE MakeDir(c)
  <2>1. pc[c] = "make"
    BY <1>8 DEF MakeDir, Goto, Fails, Ends
  <2>2. WorkDir # <<>> /\ Front(WorkDir) \in DOMAIN tree /\ removals # 0
    BY <1>3, <2>1 DEF RestoreInv, Below
  <2>3. Place(c) = {WorkDir}
    BY <1>6, <2>2 DEF Place
  <2>4. CASE There
    <3>1. to \in {"beaten", "unmade"} /\ UNCHANGED tree
      BY <1>2, <1>6, <1>8, <2>3, <2>4 DEF MakeDir, Goto, Fails, Ends, PlaceTypes, dirVars
    <3>2. There'
      BY <1>5, <2>4, <3>1 DEF There
    <3>. QED
      BY <1>1, <1>2, <1>3, <1>5, <2>1, <2>2, <2>4, <3>1, <3>2 DEF RestoreInv, Restoring
  <2>5. CASE ~There
    <3>1. CASE tree' = With(tree, WorkDir, made) /\ to = "enter"
      <4>1. DOMAIN tree' = DOMAIN tree \cup {WorkDir}
        BY <3>1 DEF With
      <4>2. There' /\ pc'[c] \in Restoring
        BY <1>2, <1>5, <3>1, <4>1 DEF There, Restoring
      <4>. QED
        BY <1>1, <1>2, <1>3, <1>5, <2>1, <2>2, <3>1, <4>1, <4>2 DEF RestoreInv
    <3>2. CASE UNCHANGED tree /\ to = "unmade"
      <4>1. There' = There
        BY <1>5, <3>2 DEF There
      <4>. QED
        BY <1>1, <1>2, <1>3, <1>5, <2>1, <2>2, <2>5, <3>2, <4>1 DEF RestoreInv
    <3>3. \/ \E path \in Place(c) : tree' = With(tree, path, made) /\ Goto(c, "make", "enter")
          \/ UNCHANGED tree /\ Goto(c, "make", "unmade")
      BY <1>6, <1>8, <2>3, <2>5, ChildrenAreOthers DEF MakeDir, Fails, Ends, dirVars
    <3>. QED
      BY <1>2, <2>3, <3>1, <3>2, <3>3 DEF Goto, PlaceTypes
  <2>. QED
    BY <2>4, <2>5
<1>9. CASE EnterDir(c)
  <2>1. pc[c] = "enter" /\ UNCHANGED tree
    BY <1>9 DEF EnterDir, ChangeDir, Goto, Fails, Ends, dirVars
  <2>2. There' = There
    BY <1>5, <2>1 DEF There
  <2>3. to \in {"store", "shut"} \/ (to = "vanished" /\ ~There)
    BY <1>2, <1>6, <1>9 DEF EnterDir, ChangeDir, Goto, Fails, Ends, PlaceTypes, AfterDir
  <2>. QED
    BY <1>1, <1>2, <1>3, <1>5, <2>1, <2>2, <2>3 DEF RestoreInv, Restoring
<1>. QED
  BY <1>7, <1>8, <1>9 DEF SetWorkDir

\* The removal takes the directory away, and leaves the place for it.
LEMMA RestoreRemoved ==
  ASSUME PlaceTypes, PlaceInv, EnteredInv, TextInv, RestoreInv, RemoveDir
  PROVE  RestoreInv'
<1>1. /\ pc["server"] \in {"accept", "fork"} /\ UNCHANGED <<confVars, pc>>
      /\ removals' = removals + 1
      /\ entered["server"] # <<>>
      /\ DOMAIN tree' = {path \in DOMAIN tree : ~IsPrefix(entered["server"], path)}
  BY DEF RemoveDir, Restrict
<1>2. Past /\ Past' = Past
  BY <1>1 DEF Past
<1>3. Absolute' = Absolute /\ WorkDir' = WorkDir /\ Below' = Below
  <2>1. Absolute' = Absolute /\ WorkDir' = WorkDir
    BY <1>1, DirStays
  <2>. QED
    BY <2>1 DEF Below
<1>4. ASSUME Absolute
      PROVE  Below \in DOMAIN tree' /\ WorkDir \notin DOMAIN tree'
  <2>1. entered["server"] = WorkDir /\ WorkDir # <<>>
    BY <1>1, <1>4 DEF EnteredInv
  <2>. PICK S : WorkDir \in Seq(S)
    BY WorkDirSequence DEF IsSequence
  <2>2. Len(WorkDir) \in Nat \ {0}
    BY <2>1
  <2>3. Len(Front(WorkDir)) = Len(WorkDir) - 1
    BY <2>2, FrontElements
  <2>4. ~IsPrefix(WorkDir, Front(WorkDir))
    BY <2>2, <2>3 DEF IsPrefix
  <2>5. IsPrefix(WorkDir, WorkDir)
    BY <2>2 DEF IsPrefix
  <2>6. Below = Front(WorkDir) /\ Below \in DOMAIN tree
    BY <1>2, <1>4, <2>1 DEF Below, RestoreInv
  <2>. QED
    BY <1>1, <2>1, <2>4, <2>5, <2>6
<1>5. ASSUME Absolute PROVE ~There'
  BY <1>3, <1>4, <1>5 DEF There
<1>6. removals \in Nat /\ removals' \in Nat /\ removals' # 0
  BY <1>1 DEF RestoreInv
<1>7. removals' = 1 => removals = 0
  BY <1>1, <1>6
<1>. QED
  BY <1>1, <1>2, <1>3, <1>4, <1>5, <1>6, <1>7 DEF RestoreInv

\* No step loses the place, or the child that has made the directory.
LEMMA RestoreStep ==
  ASSUME PlaceTypes, PlaceInv, EnteredInv, TextInv, RestoreInv, [Next]_vars
  PROVE  RestoreInv'
<1>. USE ChildrenAreOthers
<1>1. ASSUME NEW p \in Process, SetWorkDir(p), UNCHANGED confVars
      PROVE  RestoreInv'
  BY <1>1, RestoreMain, RestoreChild DEF Process
<1>2. CASE RemoveDir
  BY <1>2, RestoreRemoved
<1>3. CASE ReadConf
  <2>1. pc["server"] = "configure"
    BY <1>3 DEF ReadConf, ConfNext, OpenFile, ReadLine, AddEntry, AddFails, Configure, PlaceInv
  <2>2. UNCHANGED <<pc, tree, removals>> /\ \A c \in Child : pc[c] = "absent"
    BY <1>3, <2>1 DEF ReadConf, serverVars, dirVars, PlaceInv
  <2>3. ~Past'
    BY <2>1, <2>2 DEF Past
  <2>. QED
    BY <2>2, <2>3 DEF RestoreInv
<1>4. CASE Configured
  <2>1. pc["server"] = "configure" /\ UNCHANGED <<confVars, tree, removals>>
    BY <1>4 DEF Configured, Goto, dirVars
  <2>2. pc'["server"] \in {"check", "quit"} /\ \A c \in Child : pc'[c] = "absent"
    BY <1>4 DEF Configured, Goto, PlaceTypes, PlaceInv
  <2>3. ~Past'
    BY <2>2 DEF Past
  <2>. QED
    BY <2>1, <2>2, <2>3 DEF RestoreInv
<1>5. ASSUME DaemonInit \/ StartListening \/ ServerQuits("accept"), UNCHANGED confVars
      PROVE  RestoreInv'
  <2>1. /\ pc["server"] \in {"daemon", "listen", "accept"} /\ UNCHANGED <<tree, removals>>
        /\ \A c \in Child : pc'[c] = pc[c]
        /\ pc'["server"] \in {"listen", "accept", "quit"}
    BY <1>5 DEF DaemonInit, StartListening, ServerQuits, Ends, Goto, dirVars, PlaceTypes
  <2>2. Past' => Past
    BY <2>1 DEF Past
  <2>. QED
    BY <1>5, <2>1, <2>2, RestoreStays
<1>6. ASSUME NEW c \in Child, AcceptClient(c), UNCHANGED confVars
      PROVE  RestoreInv'
  <2>1. /\ pc["server"] = "accept" /\ pc[c] = "absent" /\ UNCHANGED <<tree, removals>>
        /\ \A d \in Child : pc'[d] = IF d = c THEN "accepted" ELSE pc[d]
        /\ pc'["server"] = "fork"
    BY <1>6 DEF AcceptClient, dirVars, PlaceTypes
  <2>2. Past' => Past
    BY <2>1 DEF Past
  <2>3. "absent" \notin Restoring
    BY DEF Restoring
  <2>. QED
    BY <1>6, <2>1, <2>2, <2>3, RestoreStays
<1>7. ASSUME NEW c \in Child, Fork(c), UNCHANGED confVars
      PROVE  RestoreInv'
  <2>1. /\ pc["server"] = "fork" /\ pc[c] = "accepted" /\ UNCHANGED <<tree, removals>>
        /\ pc'["server"] = "accept"
        /\ \A d \in Child : pc'[d] = pc[d] \/ (d = c /\ pc'[d] \in {"password", "dropped"})
    BY <1>7 DEF Fork, PlaceTypes
  <2>2. Past' => Past
    BY <2>1 DEF Past
  <2>3. "accepted" \notin Restoring
    BY DEF Restoring
  <2>. QED
    BY <1>7, <2>1, <2>2, <2>3, RestoreStays
<1>8. ASSUME NEW c \in Child, CheckPassword(c), UNCHANGED confVars
      PROVE  RestoreInv'
  <2>1. /\ pc[c] = "password" /\ UNCHANGED <<tree, removals>>
        /\ pc'["server"] = pc["server"]
        /\ \A d \in Child : pc'[d] = pc[d] \/ (d = c /\ pc'[d] \in {"check", "refused"})
    BY <1>8 DEF CheckPassword, Leaves, Ends, Goto, dirVars, PlaceTypes
  <2>2. Past
    BY <2>1 DEF Past
  <2>3. "password" \notin Restoring
    BY DEF Restoring
  <2>. QED
    BY <1>8, <2>1, <2>2, <2>3, RestoreStays
<1>9. ASSUME NEW c \in Child, StoreFile(c), UNCHANGED confVars
      PROVE  RestoreInv'
  <2>1. /\ pc[c] \in {"store", "storing", "astray"} /\ UNCHANGED <<tree, removals>>
        /\ pc'["server"] = pc["server"]
        /\ \A d \in Child : pc'[d] = pc[d] \/ (d = c /\ pc'[d] \in {"storing", "astray", "done"})
    BY <1>9 DEF StoreFile, FileOpened, Leaves, Ends, Goto, dirVars, PlaceTypes
  <2>2. Past
    BY <2>1 DEF Past
  <2>. QED
    BY <1>9, <2>1, <2>2, RestoreStays DEF Restoring
<1>10. CASE UNCHANGED vars
  <2>1. UNCHANGED confVars /\ UNCHANGED <<pc, tree, removals>>
    BY <1>10 DEF vars, serverVars, dirVars
  <2>. QED
    BY <2>1, RestoreStays DEF Past
<1>. QED
  BY <1>1, <1>2, <1>3, <1>4, <1>5, <1>6, <1>7, <1>8, <1>9, <1>10 DEF Next, Main, Serve, Finished

\* A child that was turned away is not the one that has restored the directory.
LEMMA RestoreMeans ==
  ASSUME RestoreInv
  PROVE  Restored
<1>. SUFFICES ASSUME Absolute PROVE
       /\ \A c \in Child : pc[c] # "nowhere"
       /\ removals <= 1 => \A c \in Child : pc[c] = "beaten" =>
            \E d \in Child \ {c} : pc[d] \in {"enter", "shut", "store", "storing", "astray", "done"}
  BY DEF Restored
<1>1. CASE ~Past
  BY <1>1 DEF Past
<1>2. CASE Past
  <2>1. ASSUME removals <= 1, NEW c \in Child, pc[c] = "beaten"
        PROVE  \E d \in Child \ {c} : pc[d] \in {"enter", "shut", "store", "storing", "astray", "done"}
    <3>1. removals = 1 /\ There
      BY <1>2, <2>1 DEF RestoreInv
    <3>2. PICK d \in Child : pc[d] \in Restoring
      BY <1>2, <2>1, <3>1 DEF RestoreInv
    <3>. QED
      BY <2>1, <3>2 DEF Restoring
  <2>. QED
    BY <1>2, <2>1 DEF RestoreInv
<1>. QED
  BY <1>1, <1>2

-------------------------------------------------------------------------------
(* The theorems. *)

\* Once the reading of the configuration is over no copy of a name or a value is
\* left on the heap, and when it fails no option is set, whatever the file, the
\* buffer, the list's size and malloc do.  The stream is left open only where the
\* reading was given up in the middle of the file.
THEOREM ReadingSafe == Spec => []OnlyStreamLeft
<1>1. Init => ReadingInv
  BY ReadingInit DEF Init
<1>2. [Next]_vars => ConfNext \/ UNCHANGED confVars
  BY DEF Next, ReadConf, Configured, RemoveDir, Finished, vars
<1>3. ReadingInv /\ [Next]_vars => ReadingInv'
  BY <1>2, ReadingStep
<1>. QED
  BY <1>1, <1>3, ReadingMeans, PTL DEF Spec

\* Whatever absolute directory the configuration names, and however many children
\* make, lose and restore it at once, a plain name is stored in no other directory.
THEOREM DirsSafe == Spec => StoresWhereNamed
<1>. DEFINE Inv == PlaceTypes /\ PlaceInv /\ TreeInv /\ EnteredInv
            Where == \A c \in Child : Absolute /\ pc[c] = "store" /\ pc'[c] = "storing" =>
                       WorkDir \in DOMAIN tree /\ tree[WorkDir] = cwd[c]
<1>1. Init => Inv
  BY TypesInit, PlaceInit, TreeInit, EnteredInit
<1>2. Inv /\ [Next]_vars => Inv'
  BY TypesStep, PlaceStep, TreeStep, EnteredStep
<1>3. Inv /\ [Next]_vars => [Where]_vars
  BY StoredThere
<1>. HIDE DEF Inv, Where
<1>4. Spec => [][Where]_vars
  BY <1>1, <1>2, <1>3, PTL DEF Spec
<1>. QED
  BY <1>4 DEF StoresWhereNamed, Where

\* However many clients there are, no process holds the connection of another and
\* no child the listening socket, and a child that stores still holds its own.
THEOREM TablesSafe == Spec => []DescriptorsApart
<1>. DEFINE Inv == PlaceTypes /\ PlaceInv /\ LogInv /\ TableInv
<1>1. Init => Inv
  BY TypesInit, PlaceInit, LogInit, TableInit
<1>2. Inv /\ [Next]_vars => Inv'
  BY TypesStep, PlaceStep, LogStep, TableStep
<1>3. Inv => DescriptorsApart
  BY TableMeans
<1>. QED
  BY <1>1, <1>2, <1>3, PTL DEF Spec

\* What the configuration file declares is what the server goes by, as far as the
\* values fit their arrays, however its lines divide the file and of whatever
\* length the list is.
THEOREM ReadsDeclared == Spec => []ConfiguredAsDeclared
<1>1. Init => DeclaredInv
  BY DeclaredInit DEF Init
<1>2. [Next]_vars => ConfNext \/ UNCHANGED confVars
  BY DEF Next, ReadConf, Configured, RemoveDir, Finished, vars
<1>3. DeclaredInv /\ [Next]_vars => DeclaredInv'
  BY <1>2, DeclaredStep
<1>4. DeclaredInv => ConfiguredAsDeclared
  BY DEF DeclaredInv
<1>. QED
  BY <1>1, <1>3, <1>4, PTL DEF Spec

\* Whatever the configuration and however many clients and removals there are, no
\* message of the log goes to a client, to the listening socket or into a file.
THEOREM LogsSafe == Spec => []LogsApart
<1>. DEFINE Inv == PlaceTypes /\ PlaceInv /\ LogInv
<1>1. Init => Inv
  BY TypesInit, PlaceInit, LogInit
<1>2. Inv /\ [Next]_vars => Inv'
  BY TypesStep, PlaceStep, LogStep
<1>3. Inv => LogsApart
  BY LogMeans
<1>. QED
  BY <1>1, <1>2, <1>3, PTL DEF Spec

\* Whatever number of children find an absolute directory gone, there is always a
\* place to make it in, and after one removal none is turned away for its being
\* there before another one has made it.
THEOREM DirRestored == Spec => []Restored
<1>. DEFINE Inv == PlaceTypes /\ PlaceInv /\ TreeInv /\ EnteredInv /\ TextInv /\ RestoreInv
<1>1. Init => Inv
  BY TypesInit, PlaceInit, TreeInit, EnteredInit, TextInit, RestoreInit DEF Init
<1>2. [Next]_vars => ConfNext \/ UNCHANGED confVars
  BY DEF Next, ReadConf, Configured, RemoveDir, Finished, vars
<1>3. Inv /\ [Next]_vars => Inv'
  BY <1>2, TypesStep, PlaceStep, TreeStep, EnteredStep, TextStep, RestoreStep
<1>4. Inv => Restored
  BY RestoreMeans
<1>. QED
  BY <1>1, <1>3, <1>4, PTL DEF Spec
===============================================================================
