------------------------ MODULE ClangTidyCacheProofs ------------------------
(***************************************************************************)
(* ClangTidyCache for every project, and any number of invocations,        *)
(* threads, edits, signals and tools that fail: work is exclusive, what is *)
(* in the store is whole and never changes, and reports are as current as  *)
(* a hash of a file and its own includes can have them.                    *)
(***************************************************************************)
EXTENDS ClangTidyCache, FiniteSetTheorems, SequenceTheorems, TLAPS

-----------------------------------------------------------------------------
(* The inductive invariant.                                                *)

IsJob(t) == t[1] \in DOMAIN project.jobs /\ t[2] \in project.jobs[t[1]]

(* The thread works on its item, whether its invocation still runs or not. *)
AtWork(t) == pc[t] \notin {"ready", "ended"}

(* It has opened its temporary file and not yet renamed or removed it.     *)
HasTmp(t) == pc[t] \in {"tool", "interrupted", "read", "open", "write", "rename"}

Queued(r, f) == \E i \in queue[r] : Listing[i] = f
WorkedOn(r, f) == \E t \in Threads : t[1] = r /\ AtWork(t) /\ item[t] = f

Labels == {"ready", "ended", "start", "tool", "interrupted", "read", "open",
           "write", "rename"}

Elements(s) == {s[i] : i \in DOMAIN s}

(* What the variables are, apart from what TypeOK says of them.            *)
Types ==
  /\ project \in Projects
  /\ undisturbed \in BOOLEAN
  /\ interrupted \in [Runs -> BOOLEAN]
  /\ snapshot \in [Runs -> [Files -> Versions]]
  /\ DOMAIN key = Runs /\ DOMAIN report = Runs
  /\ queue \in [Runs -> SUBSET DOMAIN Listing]
  /\ \A r \in Runs : report[r] \in Seq(Elements(report[r]))
  /\ pc \in [Threads -> Labels]
  /\ DOMAIN fd = Threads /\ DOMAIN buffer = Threads

(* An invocation begins with idle threads, and ends so if it gets to its   *)
(* report.                                                                 *)
Staged ==
  /\ \A t \in Threads : ~ IsJob(t) => pc[t] = "ended"
  /\ \A t \in Threads : stage[t[1]] = "new" /\ IsJob(t) => pc[t] = "ready"
  /\ \A t \in Threads : AtWork(t) => stage[t[1]] \notin {"reporting", "done"}
  /\ \A t \in Threads : pc[t] = "interrupted" => interrupted[t[1]]
  /\ \A r \in Runs : stage[r] \in {"new", "working"} => report[r] = <<>>
  /\ \A r \in Runs : stage[r] # "new" => r \in DOMAIN project.jobs

(* A file is queued or worked on by one thread.                            *)
Exclusive ==
  \A t \in Threads : AtWork(t) =>
    /\ ~ Queued(t[1], item[t])
    /\ \A u \in Threads : u[1] = t[1] /\ AtWork(u) /\ item[u] = item[t] => u = t

(* Temporary files are those of threads that have one.                     *)
TmpOfThreads ==
  \A name \in DOMAIN directory :
    name.tmp = {} \/ \E t \in Threads : HasTmp(t) /\ name = Tmp(t)

(* The thread's part of an invocation that nobody interrupted: what is     *)
(* neither queued nor worked on has a result.                              *)
Uninterrupted(r) == ~ interrupted[r] /\ project.jobs[r] # {}

Covered ==
  \A r \in Runs :
    /\ stage[r] = "working" /\ Uninterrupted(r) =>
         /\ \A f \in Files : Exists(PathFor(f, key[r][f])) \/ Queued(r, f) \/ WorkedOn(r, f)
         /\ \A t \in Threads : t[1] = r /\ IsJob(t) /\ pc[t] = "ended" => queue[r] = {}
    /\ stage[r] \in {"reporting", "done"} /\ Uninterrupted(r) =>
         \A f \in Files : Exists(PathFor(f, key[r][f]))

(* Keys are hashes of what was there when the invocation began, which      *)
(* nobody has edited since.                                                *)
Hashes ==
  \A r \in Runs : stage[r] # "new" =>
    /\ key[r] = [f \in Files |-> HashIn(snapshot[r], f)]
    /\ undisturbed /\ Active(r) => version = snapshot[r]

Threaded == Staged /\ Exclusive /\ TmpOfThreads /\ Covered /\ Hashes

-----------------------------------------------------------------------------
(* What is in the store, if names are apart.                               *)

Inode(t) == <<t[1], item[t], "shell">>

(* The text is what clang-tidy has written of the thread's item.           *)
IsOutput(t, text) ==
  \/ \E v \in [Files -> Versions] :
       /\ text = Tidy(item[t], v)
       /\ undisturbed /\ stage[t[1]] = "working" => v = snapshot[t[1]]
  \/ text = Unfinished(item[t])

IsRepaired(t, text) ==
  \/ \E v \in [Files -> Versions] :
       /\ text = Repair(Tidy(item[t], v))
       /\ undisturbed /\ stage[t[1]] = "working" => v = snapshot[t[1]]
  \/ text = Repair(Unfinished(item[t]))

(* The temporary file of the thread is its own, and what the step says.    *)
HoldsTmp(t) ==
  /\ Exists(Tmp(t)) /\ directory[Tmp(t)] = Inode(t)
  /\ Inode(t) \in DOMAIN bytes
  /\ pc[t] \in {"tool", "write"} => fd[t] = Inode(t) /\ bytes[Inode(t)] = Empty
  /\ pc[t] = "read" => IsOutput(t, bytes[Inode(t)])
  /\ pc[t] \in {"open", "write"} => IsOutput(t, buffer[t])
  /\ pc[t] = "rename" => IsRepaired(t, bytes[Inode(t)])

(* The result is that of an invocation that is through with the file.      *)
IsResult(name, r, f) ==
  /\ stage[r] # "new"
  /\ name = PathFor(f, key[r][f])
  /\ directory[name] = <<r, f, "shell">>
  /\ <<r, f, "shell">> \in DOMAIN bytes
  /\ ~ Queued(r, f) /\ ~ WorkedOn(r, f)
  /\ \/ \E v \in [Files -> Versions] :
          /\ bytes[<<r, f, "shell">>] = Repair(Tidy(f, v))
          /\ undisturbed => v = snapshot[r]
     \/ bytes[<<r, f, "shell">>] = Repair(Unfinished(f))

Stored ==
  /\ \A t \in Threads : HasTmp(t) => HoldsTmp(t)
  /\ \A name \in Results : \E r \in Runs, f \in Files : IsResult(name, r, f)

(* What an invocation still has to do, another one may have done since it  *)
(* looked: of the same texts then.                                         *)
SaidOf(f) == {Repair(Tidy(f, version)), Repair(Unfinished(f))}

ToDo(r, f) == stage[r] = "working" /\ (Queued(r, f) \/ WorkedOn(r, f))

Agreed ==
  undisturbed /\ HashesWhole => \A r \in Runs, f \in Files :
    ToDo(r, f) /\ Exists(PathFor(f, key[r][f])) =>
      ContentOf(PathFor(f, key[r][f])) \in SaidOf(f)

IInv ==
  /\ TypeOK /\ Types /\ Threaded
  /\ NamesApart => Stored
  /\ Agreed
  /\ ReportCurrent

-----------------------------------------------------------------------------
LEMMA ProjectType ==
  ASSUME project \in Projects
  PROVE  /\ Len(Listing) \in Nat /\ DOMAIN Listing = 1 .. Len(Listing)
         /\ Files = {Listing[i] : i \in DOMAIN Listing}
         /\ \A i \in DOMAIN Listing : Listing[i] \in Files
         /\ \A i, j \in DOMAIN Listing : Listing[i] = Listing[j] => i = j
         /\ 1 \in DOMAIN Listing
         /\ Headers \subseteq Files
         /\ \A f \in Files : \A i \in DOMAIN Includes[f] : Includes[f][i] \in Files
         /\ DOMAIN project.jobs \subseteq Runs
         /\ project.max_edits \in Nat /\ project.max_signals \in Nat
<1>1. /\ Listing \in Seq(Files) /\ Listing # <<>>
      /\ \A i, j \in DOMAIN Listing : Listing[i] = Listing[j] => i = j
      /\ Headers \subseteq Files
      /\ \A f \in Files : Includes[f] \in Seq(Files)
      /\ DOMAIN project.jobs \subseteq Runs
      /\ project.max_edits \in Nat /\ project.max_signals \in Nat
  BY ProjectAssumption DEF Listing, Files, Headers, Includes
<1>2. Len(Listing) \in Nat /\ DOMAIN Listing = 1 .. Len(Listing) /\ Len(Listing) # 0
  BY <1>1
<1>3. Files = {Listing[i] : i \in DOMAIN Listing}
  BY DEF Files, Range
<1>4. \A f \in Files : \A i \in DOMAIN Includes[f] : Includes[f][i] \in Files
  BY <1>1
<1>5. QED
  BY <1>1, <1>2, <1>3, <1>4

LEMMA InitTypes == Init => TypeOK /\ Types
<1> SUFFICES ASSUME Init PROVE TypeOK /\ Types
  OBVIOUS
<1>1. project \in Projects
  BY DEF Init
<1>2. version \in [Files -> Versions]
  BY VersionsAssumption DEF Init
<1>3. TypeOK
  <2>1. /\ edits \in 0 .. project.max_edits /\ signals \in 0 .. project.max_signals
        /\ Listing[1] \in Files /\ Len(Listing) \in Nat
    <3>1. edits = 0 /\ signals = 0
      BY DEF Init
    <3>2. QED
      BY <1>1, <3>1, ProjectType
  <2>2. \A name \in DOMAIN directory :
          name.tmp \subseteq Runs /\ directory[name] \in DOMAIN bytes
    BY DEF Init
  <2>3. \A r \in Runs : queue[r] \subseteq DOMAIN Listing /\ Len(report[r]) <= Len(Listing)
    BY <2>1 DEF Init
  <2>4. \A t \in Threads : pc[t] \notin {"tool", "write"}
    BY DEF Init
  <2>5. item \in [Threads -> Files]
    BY <2>1 DEF Init
  <2>6. stage \in [Runs -> {"new", "working", "reporting", "done", "killed", "aborted"}]
    BY DEF Init
  <2>7. QED
    BY <1>2, <2>1, <2>2, <2>3, <2>4, <2>5, <2>6 DEF TypeOK
<1>4. \A r \in Runs : report[r] \in Seq(Elements(report[r]))
  BY DEF Init
<1>5. Types
  BY <1>1, <1>2, <1>4 DEF Init, Types, Labels
<1>6. QED
  BY <1>3, <1>5

-----------------------------------------------------------------------------
(* Maps and the files of the store.                                        *)

LEMMA UnbindMap ==
  ASSUME NEW map, NEW k
  PROVE  /\ DOMAIN Unbind(map, k) = DOMAIN map \ {k}
         /\ \A j \in DOMAIN map : j # k => Unbind(map, k)[j] = map[j]
  BY DEF Unbind

(* The project, and so what is defined of it, stays.                       *)
LEMMA ProjectStays ==
  ASSUME project' = project
  PROVE  /\ Listing' = Listing /\ Files' = Files
         /\ \A t : IsJob(t)' <=> IsJob(t)
         /\ \A r : Uninterrupted(r)' <=> ~ interrupted'[r] /\ project.jobs[r] # {}
  BY DEF Listing, Files, IsJob, Uninterrupted

LEMMA TmpName ==
  ASSUME NEW t
  PROVE  /\ Tmp(t).tmp = {t[1]} /\ Final(t).tmp = {}
         /\ Tmp(t) # Final(t)
  BY DEF Tmp, Final, TmpOut, PathFor

(* Types are kept.                                                         *)
LEMMA WorkerTypes ==
  ASSUME TypeOK, Types, NEW t \in Threads, Worker(t)
  PROVE  (TypeOK /\ Types)'
<1>1. /\ project' = project /\ version' = version /\ undisturbed' = undisturbed
      /\ edits' = edits
      /\ interrupted' = interrupted /\ snapshot' = snapshot
      /\ key' = key /\ report' = report
  BY DEF Worker, TakeWork, NoMoreWork, StartTool, ToolEnds, ToolFails, RemoveTmp, ReadOutput,
         OpenOutput, WriteOutput, Rename, RenameFails, texts, main
<1>2. Listing' = Listing /\ Files' = Files
  BY <1>1, ProjectStays
<1>3. t[1] \in Runs
  BY DEF Threads
<1>4. /\ queue' \in [Runs -> SUBSET DOMAIN Listing]
      /\ item' \in [Threads -> Files]
  <2>1. CASE TakeWork(t)
    <3>1. PICK i \in queue[t[1]] :
            /\ item' = [item EXCEPT ![t] = Listing[i]]
            /\ queue' = [queue EXCEPT ![t[1]] = @ \ {i}]
      BY <2>1 DEF TakeWork
    <3>2. Listing[i] \in Files
      BY <1>3, ProjectType DEF Types
    <3>3. QED
      BY <1>3, <3>1, <3>2 DEF TypeOK, Types
  <2>2. CASE ~ TakeWork(t)
    BY <2>2 DEF Worker, NoMoreWork, StartTool, ToolEnds, ToolFails, RemoveTmp, ReadOutput,
                OpenOutput, WriteOutput, Rename, RenameFails, locals, TypeOK, Types
  <2>3. QED
    BY <2>1, <2>2
<1>5. pc' \in [Threads -> Labels] /\ DOMAIN buffer' = Threads /\ DOMAIN fd' = Threads
  BY DEF Worker, TakeWork, NoMoreWork, StartTool, ToolEnds, ToolFails, RemoveTmp, ReadOutput,
         OpenOutput, WriteOutput, Rename, RenameFails, Goto, Open, locals, Types, Labels
<1>6. stage' \in [Runs -> {"new", "working", "reporting", "done", "killed", "aborted"}]
  BY <1>3 DEF Worker, TakeWork, NoMoreWork, StartTool, ToolEnds, ToolFails, RemoveTmp, ReadOutput,
         OpenOutput, WriteOutput, Rename, RenameFails, main, TypeOK
<1> DEFINE StoreOK ==
      /\ \A name \in DOMAIN directory :
           name.tmp \subseteq Runs /\ directory[name] \in DOMAIN bytes
      /\ \A u \in Threads : pc[u] \in {"tool", "write"} => fd[u] \in DOMAIN bytes
<1>7. StoreOK'
  <2>1. ASSUME NEW name, name.tmp \subseteq Runs, NEW fresh, Open(t, name, fresh),
               \A u \in Threads \ {t} : pc'[u] = pc[u]
        PROVE  StoreOK'
    <3> DEFINE inode == IF Exists(name) THEN directory[name] ELSE fresh
    <3>1. /\ DOMAIN directory' = DOMAIN directory \cup {name}
          /\ directory'[name] = inode
          /\ \A n \in DOMAIN directory : n # name => directory'[n] = directory[n]
          /\ DOMAIN bytes' = DOMAIN bytes \cup {inode}
          /\ fd' = [fd EXCEPT ![t] = inode]
      <4> HIDE DEF inode
      <4>1. /\ directory' = Bind(directory, name, inode)
            /\ bytes' = Bind(bytes, inode, Empty)
            /\ fd' = [fd EXCEPT ![t] = inode]
        BY <2>1 DEF Open, inode
      <4>2. /\ DOMAIN directory' = DOMAIN directory \cup {name}
            /\ directory'[name] = inode
            /\ \A n \in DOMAIN directory : n # name => directory'[n] = directory[n]
        BY <4>1 DEF Bind
      <4>3. DOMAIN bytes' = DOMAIN bytes \cup {inode}
        BY <4>1 DEF Bind
      <4>4. QED
        BY <4>1, <4>2, <4>3
    <3>2. QED
      BY <2>1, <3>1 DEF TypeOK, Types
  <2>2. Tmp(t).tmp \subseteq Runs
    BY <1>3, TmpName
  <2>3. CASE StartTool(t) \/ OpenOutput(t)
    BY <2>1, <2>2, <2>3 DEF StartTool, OpenOutput, Goto, Types
  <2>4. CASE ToolEnds(t) \/ ToolFails(t) \/ WriteOutput(t)
    <3>1. directory' = directory /\ fd' = fd /\ DOMAIN bytes' = DOMAIN bytes
      BY <2>4 DEF ToolEnds, ToolFails, WriteOutput, WriteTo, locals
    <3>2. \A u \in Threads : pc'[u] \in {"tool", "write"} => pc'[u] = pc[u]
      BY <2>4 DEF ToolEnds, ToolFails, WriteOutput, Goto, Types
    <3>3. QED
      BY <3>1, <3>2 DEF TypeOK
  <2>5. CASE Rename(t)
    <3>1. /\ Tmp(t) \in DOMAIN directory
          /\ \A n \in DOMAIN directory' :
               \/ n \in DOMAIN directory /\ directory'[n] = directory[n]
               \/ n = Final(t) /\ directory'[n] = directory[Tmp(t)]
      <4>1. Tmp(t) \in DOMAIN directory
        BY <2>5 DEF Rename, Exists
      <4>2. directory' = Unbind(Bind(directory, Final(t), directory[Tmp(t)]), Tmp(t))
        BY <2>5 DEF Rename
      <4> DEFINE bound == Bind(directory, Final(t), directory[Tmp(t)])
      <4>3. /\ DOMAIN bound = DOMAIN directory \cup {Final(t)}
            /\ bound[Final(t)] = directory[Tmp(t)]
            /\ \A n \in DOMAIN directory : n # Final(t) => bound[n] = directory[n]
        BY DEF Bind
      <4> HIDE DEF bound
      <4>4. /\ DOMAIN directory' = DOMAIN bound \ {Tmp(t)}
            /\ \A n \in DOMAIN bound : n # Tmp(t) => directory'[n] = bound[n]
        BY <4>2, UnbindMap DEF bound
      <4>5. QED
        BY <4>1, <4>3, <4>4
    <3>2. fd' = fd /\ bytes' = bytes
      BY <2>5 DEF Rename, locals
    <3>3. \A u \in Threads : pc'[u] \in {"tool", "write"} => pc'[u] = pc[u]
      BY <2>5 DEF Rename, Goto, Types
    <3>4. QED
      BY <3>1, <3>2, <3>3, TmpName DEF TypeOK
  <2>6. CASE RemoveTmp(t)
    <3>1. /\ fd' = fd /\ bytes' = bytes
          /\ DOMAIN directory' \subseteq DOMAIN directory
          /\ \A n \in DOMAIN directory' : directory'[n] = directory[n]
      BY <2>6, UnbindMap DEF RemoveTmp, locals
    <3>2. \A u \in Threads : pc'[u] \in {"tool", "write"} => pc'[u] = pc[u]
      BY <2>6 DEF RemoveTmp, Goto, Types
    <3>3. QED
      BY <3>1, <3>2 DEF TypeOK
  <2>7. CASE TakeWork(t) \/ NoMoreWork(t) \/ ReadOutput(t) \/ RenameFails(t)
    BY <2>7 DEF TakeWork, NoMoreWork, ReadOutput, RenameFails, Goto, store, locals,
                TypeOK, Types
  <2>8. QED
    BY <2>3, <2>4, <2>5, <2>6, <2>7 DEF Worker
<1>8. signals' \in 0 .. project.max_signals
  <2>1. signals \in 0 .. project.max_signals
    BY DEF TypeOK
  <2>2. project.max_signals \in Nat
    BY ProjectType DEF Types
  <2>3. signals' = signals \/ (signals < project.max_signals /\ signals' = signals + 1)
    BY DEF Worker, TakeWork, NoMoreWork, StartTool, ToolEnds, ToolFails, RemoveTmp,
           ReadOutput, OpenOutput, WriteOutput, Rename, RenameFails
  <2>4. QED
    BY <2>1, <2>2, <2>3
<1>9. QED
  BY <1>1, <1>2, <1>4, <1>5, <1>6, <1>7, <1>8 DEF TypeOK, Types

LEMMA AppendElements ==
  ASSUME NEW s, s \in Seq(Elements(s)), NEW e
  PROVE  /\ Append(s, e) \in Seq(Elements(Append(s, e)))
         /\ Len(Append(s, e)) = Len(s) + 1 /\ Len(s) \in Nat
         /\ DOMAIN s = 1 .. Len(s) /\ DOMAIN Append(s, e) = 1 .. Len(s) + 1
         /\ Append(s, e)[Len(s) + 1] = e
         /\ \A i \in 1 .. Len(s) : Append(s, e)[i] = s[i]
<1> DEFINE S == Elements(s) \cup {e}
           t == Append(s, e)
<1>1. s \in Seq(S) /\ e \in S
  BY SeqMonotonic
<1>2. /\ t \in Seq(S) /\ Len(t) = Len(s) + 1
      /\ t[Len(s) + 1] = e
      /\ \A i \in 1 .. Len(s) : t[i] = s[i]
      /\ Len(s) \in Nat /\ DOMAIN s = 1 .. Len(s)
  BY <1>1, AppendProperties, LenProperties
<1>3. t \in [1 .. Len(t) -> Elements(t)] /\ DOMAIN t = 1 .. Len(t)
  <2>1. Len(t) \in Nat /\ t \in [1 .. Len(t) -> S] /\ DOMAIN t = 1 .. Len(t)
    BY <1>2, LenProperties
  <2>2. QED
    BY <2>1 DEF Elements
<1>4. t \in Seq(Elements(t))
  <2>1. Len(t) \in Nat
    BY <1>2
  <2>2. t \in UNION {[1 .. n -> Elements(t)] : n \in Nat}
    BY <1>3, <2>1, Zenon
  <2>3. QED
    BY <2>2, SeqDef, Zenon
<1>5. DOMAIN t = 1 .. Len(s) + 1
  BY <1>2, <1>3
<1>6. QED
  BY <1>2, <1>4, <1>5

LEMMA MainTypes ==
  ASSUME TypeOK, Types, NEW r \in Runs,
         BuildWorkList(r) \/ Main(r) \/ Interrupt(r) \/ Kill(r)
  PROVE  (TypeOK /\ Types)'
<1>1. /\ project' = project /\ version' = version /\ undisturbed' = undisturbed
      /\ edits' = edits /\ directory' = directory /\ bytes' = bytes
      /\ item' = item /\ fd' = fd /\ buffer' = buffer
  BY DEF BuildWorkList, Main, JoinWorkers, ReadResult, Exit, Interrupt, Kill, texts,
         store, locals
<1>2. Listing' = Listing /\ Files' = Files
  BY <1>1, ProjectStays
<1>3. signals' \in 0 .. project.max_signals
  <2>1. signals \in 0 .. project.max_signals
    BY DEF TypeOK
  <2>2. project.max_signals \in Nat
    BY ProjectType DEF Types
  <2>3. signals' = signals \/ (signals < project.max_signals /\ signals' = signals + 1)
    BY DEF BuildWorkList, Main, JoinWorkers, ReadResult, Exit, Interrupt, Kill
  <2>4. QED
    BY <2>1, <2>2, <2>3
<1>4. stage' \in [Runs -> {"new", "working", "reporting", "done", "killed", "aborted"}]
  BY DEF BuildWorkList, Main, JoinWorkers, ReadResult, Exit, Interrupt, Kill, TypeOK
<1>5. queue' \in [Runs -> SUBSET DOMAIN Listing]
  <2>1. CASE BuildWorkList(r)
    <3>1. PICK S \in SUBSET DOMAIN Listing : queue' = [queue EXCEPT ![r] = S]
      BY <2>1 DEF BuildWorkList
    <3>2. QED
      BY <3>1 DEF Types
  <2>2. CASE ~ BuildWorkList(r)
    BY <2>2 DEF Main, JoinWorkers, ReadResult, Exit, Interrupt, Kill, Types
  <2>3. QED
    BY <2>1, <2>2
<1>6. interrupted' \in [Runs -> BOOLEAN]
  BY DEF BuildWorkList, Main, JoinWorkers, ReadResult, Exit, Interrupt, Kill, Types
<1>7. snapshot' \in [Runs -> [Files -> Versions]]
  BY DEF BuildWorkList, Main, JoinWorkers, ReadResult, Exit, Interrupt, Kill, TypeOK, Types
<1>8. DOMAIN key' = Runs
  BY DEF BuildWorkList, Main, JoinWorkers, ReadResult, Exit, Interrupt, Kill, Types
<1>9. /\ DOMAIN report' = Runs
      /\ \A s \in Runs : report'[s] \in Seq(Elements(report'[s]))
      /\ \A s \in Runs : Len(report'[s]) <= Len(Listing)
  <2>1. CASE ReadResult(r)
    <3>1. PICK text : report' = [report EXCEPT ![r] = Append(@, text)]
      BY <2>1 DEF ReadResult
    <3>2. /\ Append(report[r], text) \in Seq(Elements(Append(report[r], text)))
          /\ Len(Append(report[r], text)) = Len(report[r]) + 1 /\ Len(report[r]) \in Nat
      BY AppendElements DEF Types
    <3>3. Len(Listing) \in Nat /\ Len(report[r]) < Len(Listing)
      BY <2>1, ProjectType DEF Types, ReadResult
    <3>4. \A s \in Runs : report'[s] =
            IF s = r THEN Append(report[r], text) ELSE report[s]
      BY <3>1 DEF Types
    <3>5. Len(report'[r]) <= Len(Listing)
      <4>1. \A n, m \in Nat : n < m => n + 1 <= m
        OBVIOUS
      <4>2. Len(report[r]) + 1 <= Len(Listing)
        BY <3>2, <3>3, <4>1, Zenon
      <4>3. Len(report'[r]) = Len(report[r]) + 1
        BY <3>2, <3>4, Zenon
      <4>4. QED
        BY <4>2, <4>3, Zenon
    <3>6. \A s \in Runs : Len(report'[s]) <= Len(Listing)
      BY <3>4, <3>5 DEF TypeOK
    <3>7. QED
      BY <3>1, <3>2, <3>4, <3>6 DEF Types
  <2>2. CASE ~ ReadResult(r)
    BY <2>2 DEF BuildWorkList, Main, JoinWorkers, Exit, Interrupt, Kill, TypeOK, Types
  <2>3. QED
    BY <2>1, <2>2
<1>10. pc' \in [Threads -> Labels]
       /\ \A t \in Threads : pc'[t] \in {"tool", "write"} => pc'[t] = pc[t]
  BY DEF BuildWorkList, Main, JoinWorkers, ReadResult, Exit, Interrupt, Kill, Types, Labels
<1>11. TypeOK'
  BY <1>1, <1>2, <1>3, <1>4, <1>5, <1>9, <1>10 DEF TypeOK
<1>12. QED
  BY <1>1, <1>2, <1>5, <1>6, <1>7, <1>8, <1>9, <1>10, <1>11 DEF Types

LEMMA EditTypes ==
  ASSUME TypeOK, Types, NEW f \in Files, Edit(f)
  PROVE  (TypeOK /\ Types)'
<1>1. /\ project' = project /\ signals' = signals
      /\ directory' = directory /\ bytes' = bytes
      /\ stage' = stage /\ interrupted' = interrupted /\ snapshot' = snapshot
      /\ key' = key /\ report' = report /\ queue' = queue /\ pc' = pc
      /\ item' = item /\ fd' = fd /\ buffer' = buffer
  BY DEF Edit, store, main, locals
<1>2. Listing' = Listing /\ Files' = Files
  BY <1>1, ProjectStays
<1>3. edits' \in 0 .. project.max_edits
  <2>1. edits \in 0 .. project.max_edits /\ project.max_edits \in Nat
    BY ProjectType DEF TypeOK, Types
  <2>2. edits < project.max_edits /\ edits' = edits + 1
    BY DEF Edit
  <2>3. QED
    BY <2>1, <2>2
<1>4. version' \in [Files -> Versions]
  BY DEF Edit, TypeOK
<1>5. undisturbed' \in BOOLEAN
  BY DEF Edit, Types
<1>6. QED
  BY <1>1, <1>2, <1>3, <1>4, <1>5 DEF TypeOK, Types

LEMMA NextTypes == TypeOK /\ Types /\ [Next]_vars => (TypeOK /\ Types)'
<1> SUFFICES ASSUME TypeOK, Types, [Next]_vars PROVE (TypeOK /\ Types)'
  OBVIOUS
<1>1. CASE UNCHANGED vars
  BY <1>1, ProjectStays DEF vars, texts, store, main, locals, TypeOK, Types
<1>2. CASE Next
  BY <1>2, WorkerTypes, MainTypes, EditTypes DEF Next
<1>3. QED
  BY <1>1, <1>2

-----------------------------------------------------------------------------
(* What a step of a thread leaves alone.                                   *)
LEMMA WorkerFrame ==
  ASSUME TypeOK, Types, NEW t \in Threads, Worker(t)
  PROVE  /\ project' = project /\ version' = version /\ undisturbed' = undisturbed
         /\ interrupted' = interrupted /\ snapshot' = snapshot
         /\ key' = key /\ report' = report
         /\ Listing' = Listing /\ Files' = Files
         /\ \A u \in Threads : IsJob(u)' <=> IsJob(u)
         /\ \A u \in Threads : u # t =>
              /\ pc'[u] = pc[u] /\ item'[u] = item[u]
              /\ fd'[u] = fd[u] /\ buffer'[u] = buffer[u]
         /\ \A r \in Runs : stage'[r] = stage[r]
              \/ (stage'[r] = "aborted" /\ stage[r] = "working")
         /\ \A r \in Runs : queue'[r] \subseteq queue[r]
         /\ \A r \in Runs : r # t[1] => queue'[r] = queue[r]
<1>1. /\ project' = project /\ version' = version /\ undisturbed' = undisturbed
      /\ interrupted' = interrupted /\ snapshot' = snapshot
      /\ key' = key /\ report' = report
  BY DEF Worker, TakeWork, NoMoreWork, StartTool, ToolEnds, ToolFails, RemoveTmp, ReadOutput,
         OpenOutput, WriteOutput, Rename, RenameFails, texts, main
<1>2. /\ Listing' = Listing /\ Files' = Files
      /\ \A u \in Threads : IsJob(u)' <=> IsJob(u)
  BY <1>1, ProjectStays
<1>3. \A u \in Threads : u # t =>
        /\ pc'[u] = pc[u] /\ item'[u] = item[u]
        /\ fd'[u] = fd[u] /\ buffer'[u] = buffer[u]
  BY DEF Worker, TakeWork, NoMoreWork, StartTool, ToolEnds, ToolFails, RemoveTmp, ReadOutput,
         OpenOutput, WriteOutput, Rename, RenameFails, Goto, Open, locals, TypeOK, Types
<1>4. \A r \in Runs : stage'[r] = stage[r]
        \/ (stage'[r] = "aborted" /\ stage[r] = "working")
  BY DEF Worker, TakeWork, NoMoreWork, StartTool, ToolEnds, ToolFails, RemoveTmp, ReadOutput,
         OpenOutput, WriteOutput, Rename, RenameFails, At, main, TypeOK, Threads
<1>5. /\ \A r \in Runs : queue'[r] \subseteq queue[r]
      /\ \A r \in Runs : r # t[1] => queue'[r] = queue[r]
  BY DEF Worker, TakeWork, NoMoreWork, StartTool, ToolEnds, ToolFails, RemoveTmp, ReadOutput,
         OpenOutput, WriteOutput, Rename, RenameFails, Types, Threads
<1>6. QED
  BY <1>1, <1>2, <1>3, <1>4, <1>5

(* What it does to the thread, unless it takes work.                       *)
LEMMA WorkerMoves ==
  ASSUME TypeOK, Types, NEW t \in Threads, Worker(t), ~ TakeWork(t)
  PROVE  /\ queue' = queue /\ item' = item
         /\ \/ pc' = pc
            \/ /\ pc[t] = "ready" /\ pc'[t] = "ended"
               /\ queue[t[1]] = {} /\ stage[t[1]] = "working"
            \/ pc[t] = "interrupted" /\ pc'[t] = "ended" /\ stage[t[1]] = "working"
            \/ pc[t] = "rename" /\ pc'[t] = "ready" /\ stage[t[1]] = "working"
            \/ /\ pc[t] \in {"start", "tool", "read", "open", "write"}
               /\ pc'[t] \in {"tool", "read", "open", "write", "rename"}
  BY DEF Worker, NoMoreWork, StartTool, ToolEnds, ToolFails, RemoveTmp, ReadOutput,
         OpenOutput, WriteOutput, Rename, RenameFails, Goto, At, locals, Types

LEMMA TakeWorkMoves ==
  ASSUME TypeOK, Types, NEW t \in Threads, TakeWork(t)
  PROVE  /\ stage[t[1]] = "working" /\ pc[t] = "ready" /\ pc'[t] = "start"
         /\ \E i \in queue[t[1]] :
              item'[t] = Listing[i] /\ queue'[t[1]] = queue[t[1]] \ {i}
         /\ \A r \in Runs : stage'[r] = stage[r]
         /\ directory' = directory /\ bytes' = bytes
<1>1. t[1] \in Runs
  BY DEF Threads
<1>2. QED
  BY <1>1 DEF TakeWork, Goto, At, main, store, TypeOK, Types

(* The stages of threads are kept.                                         *)
LEMMA WorkerStaged ==
  ASSUME TypeOK, Types, Staged, NEW t \in Threads, Worker(t)
  PROVE  Staged'
<1>1. t[1] \in Runs
  BY DEF Threads
<1>2. CASE TakeWork(t)
  BY <1>1, <1>2, WorkerFrame, TakeWorkMoves DEF Staged, AtWork, Threads
<1>3. CASE ~ TakeWork(t)
  BY <1>1, <1>3, WorkerFrame, WorkerMoves DEF Staged, AtWork, Threads
<1>4. QED
  BY <1>2, <1>3

LEMMA WorkerExclusive ==
  ASSUME TypeOK, Types, Exclusive, NEW t \in Threads, Worker(t)
  PROVE  Exclusive'
<1>1. t[1] \in Runs /\ \A u \in Threads : u[1] \in Runs
  BY DEF Threads
<1>2. \A r \in Runs : \A f : Queued(r, f)' => Queued(r, f)
  BY WorkerFrame DEF Queued
<1>3. CASE TakeWork(t)
  <2>1. PICK i \in queue[t[1]] : item'[t] = Listing[i] /\ queue'[t[1]] = queue[t[1]] \ {i}
    BY <1>3, TakeWorkMoves
  <2>2. Queued(t[1], item'[t])
    BY <2>1 DEF Queued
  <2>3. ~ Queued(t[1], item[t])'
    <3>1. queue[t[1]] \subseteq DOMAIN Listing
      BY <1>1 DEF Types
    <3>2. \A j \in DOMAIN Listing : Listing[j] = Listing[i] => j = i
      BY <2>1, <3>1, ProjectType DEF Types
    <3>3. Listing' = Listing
      BY WorkerFrame
    <3>4. QED
      BY <2>1, <3>1, <3>2, <3>3 DEF Queued
  <2>4. \A u \in Threads : u # t /\ AtWork(u)' =>
          AtWork(u) /\ item'[u] = item[u] /\ ~ Queued(u[1], item[u])
    BY WorkerFrame DEF AtWork, Exclusive
  <2>5. QED
    BY <1>1, <1>2, <2>2, <2>3, <2>4, WorkerFrame DEF Exclusive
<1>4. CASE ~ TakeWork(t)
  <2>1. \A u \in Threads : AtWork(u)' => AtWork(u) /\ item'[u] = item[u]
    BY <1>4, WorkerFrame, WorkerMoves DEF AtWork
  <2>2. QED
    BY <1>1, <1>2, <2>1 DEF Exclusive
<1>5. QED
  BY <1>3, <1>4

-----------------------------------------------------------------------------
(* What a step of a thread does to the names in the store.                 *)
LEMMA WorkerNames ==
  ASSUME NEW t \in Threads, Worker(t)
  PROVE  /\ \A name \in DOMAIN directory' :
              \/ name \in DOMAIN directory
              \/ name = Tmp(t) /\ (StartTool(t) \/ OpenOutput(t))
              \/ name = Final(t) /\ Rename(t)
         /\ \A name \in DOMAIN directory :
              \/ name \in DOMAIN directory'
              \/ name = Tmp(t) /\ (Rename(t) \/ RemoveTmp(t))
         /\ Rename(t) \/ RemoveTmp(t) => Tmp(t) \notin DOMAIN directory'
         /\ Rename(t) => Final(t) \in DOMAIN directory'
<1> DEFINE Names ==
      /\ \A name \in DOMAIN directory' :
              \/ name \in DOMAIN directory
              \/ name = Tmp(t) /\ (StartTool(t) \/ OpenOutput(t))
              \/ name = Final(t) /\ Rename(t)
      /\ \A name \in DOMAIN directory :
              \/ name \in DOMAIN directory'
              \/ name = Tmp(t) /\ (Rename(t) \/ RemoveTmp(t))
      /\ Rename(t) \/ RemoveTmp(t) => Tmp(t) \notin DOMAIN directory'
      /\ Rename(t) => Final(t) \in DOMAIN directory'
<1>1. CASE StartTool(t) \/ OpenOutput(t)
  <2>1. \E inode : directory' = Bind(directory, Tmp(t), inode)
    BY <1>1 DEF StartTool, OpenOutput, Open
  <2>2. DOMAIN directory' = DOMAIN directory \cup {Tmp(t)}
    BY <2>1 DEF Bind
  <2>3. ~ Rename(t) /\ ~ RemoveTmp(t)
    BY <1>1 DEF StartTool, OpenOutput, Rename, RemoveTmp, At
  <2>4. QED
    BY <1>1, <2>2, <2>3
<1>2. CASE Rename(t)
  <2>1. DOMAIN directory' = (DOMAIN directory \cup {Final(t)}) \ {Tmp(t)}
    BY <1>2 DEF Rename, Bind, Unbind
  <2>2. QED
    BY <1>2, <2>1, TmpName
<1>3. CASE RemoveTmp(t)
  <2>1. DOMAIN directory' = DOMAIN directory \ {Tmp(t)}
    BY <1>3 DEF RemoveTmp, Unbind
  <2>2. ~ Rename(t)
    BY <1>3 DEF Rename, RemoveTmp, At
  <2>3. QED
    BY <1>3, <2>1, <2>2
<1>4. CASE ~ (StartTool(t) \/ OpenOutput(t) \/ Rename(t) \/ RemoveTmp(t))
  <2>1. directory' = directory
    BY <1>4 DEF Worker, TakeWork, NoMoreWork, ToolEnds, ToolFails, ReadOutput, WriteOutput,
                RenameFails, store
  <2>2. QED
    BY <1>4, <2>1
<1>5. QED
  BY <1>1, <1>2, <1>3, <1>4

LEMMA NamesStay ==
  ASSUME TypeOK, Types, NEW t \in Threads, Worker(t)
  PROVE  /\ \A u \in Threads : u # t => Tmp(u)' = Tmp(u) /\ Final(u)' = Final(u)
         /\ ~ TakeWork(t) => Tmp(t)' = Tmp(t) /\ Final(t)' = Final(t)
         /\ \A r, f : PathFor(f, key[r][f])' = PathFor(f, key[r][f])
<1>1. BaseName' = BaseName /\ key' = key
  BY WorkerFrame DEF BaseName
<1>2. \A u \in Threads : u # t => item'[u] = item[u]
  BY WorkerFrame
<1>3. ~ TakeWork(t) => item' = item
  BY WorkerMoves
<1>4. QED
  BY <1>1, <1>2, <1>3 DEF Tmp, Final, TmpOut, PathFor

LEMMA WorkerTmp ==
  ASSUME TypeOK, Types, TmpOfThreads, NEW t \in Threads, Worker(t)
  PROVE  TmpOfThreads'
<1> SUFFICES ASSUME NEW name \in DOMAIN directory', name.tmp # {}
             PROVE  \E u \in Threads : HasTmp(u)' /\ name = Tmp(u)'
  BY DEF TmpOfThreads
<1>1. CASE name \in DOMAIN directory
  <2>1. PICK u \in Threads : HasTmp(u) /\ name = Tmp(u)
    BY <1>1 DEF TmpOfThreads
  <2>2. CASE u # t
    BY <2>1, <2>2, NamesStay, WorkerFrame DEF HasTmp
  <2>3. CASE u = t
    <3>1. ~ TakeWork(t) /\ ~ NoMoreWork(t)
      BY <2>1, <2>3 DEF TakeWork, NoMoreWork, At, HasTmp
    <3>2. ~ Rename(t) /\ ~ RemoveTmp(t)
      BY <2>1, <2>3, WorkerNames
    <3>3. HasTmp(t)'
      BY <2>1, <2>3, <3>1, <3>2 DEF Worker, StartTool, ToolEnds, ToolFails, ReadOutput, OpenOutput,
         WriteOutput, RenameFails, Goto, HasTmp, Types
    <3>4. QED
      BY <2>1, <2>3, <3>1, <3>3, NamesStay
  <2>4. QED
    BY <2>2, <2>3
<1>2. CASE name = Tmp(t) /\ (StartTool(t) \/ OpenOutput(t))
  <2>1. ~ TakeWork(t) /\ HasTmp(t)'
    BY <1>2 DEF StartTool, OpenOutput, TakeWork, At, Goto, HasTmp, Types
  <2>2. QED
    BY <1>2, <2>1, NamesStay
<1>3. CASE name = Final(t)
  BY <1>3, TmpName
<1>4. QED
  BY <1>1, <1>2, <1>3, WorkerNames

(* Nothing but temporary files is removed.                                 *)
LEMMA WorkerKeepsResults ==
  ASSUME NEW t \in Threads, Worker(t)
  PROVE  \A name \in DOMAIN directory : name.tmp = {} => name \in DOMAIN directory'
  BY WorkerNames, TmpName

LEMMA WorkerCovered ==
  ASSUME TypeOK, Types, Staged, Covered, NEW t \in Threads, Worker(t)
  PROVE  Covered'
<1>1. t[1] \in Runs /\ \A u \in Threads : u[1] \in Runs
  BY DEF Threads
<1>2. \A r \in Runs : Uninterrupted(r)' <=> Uninterrupted(r)
  BY WorkerFrame DEF Uninterrupted
<1>3. \A r \in Runs, f \in Files :
        Exists(PathFor(f, key[r][f])) => Exists(PathFor(f, key[r][f]))'
  <2>1. \A r, f : PathFor(f, key[r][f]).tmp = {}
    BY DEF PathFor
  <2>2. QED
    BY <2>1, NamesStay, WorkerKeepsResults DEF Exists
<1>4. ASSUME NEW r \in Runs, stage'[r] = "working", Uninterrupted(r), NEW f \in Files
      PROVE  Exists(PathFor(f, key[r][f]))' \/ Queued(r, f)' \/ WorkedOn(r, f)'
  <2>1. Exists(PathFor(f, key[r][f])) \/ Queued(r, f) \/ WorkedOn(r, f)
    BY <1>4, WorkerFrame DEF Covered
  <2>2. CASE Exists(PathFor(f, key[r][f]))
    BY <1>3, <2>2
  <2>3. CASE Queued(r, f)
    <3>1. CASE TakeWork(t) /\ t[1] = r
      <4>1. pc'[t] = "start" /\ Listing' = Listing
        BY <3>1, TakeWorkMoves, WorkerFrame
      <4>2. PICK i \in queue[r] : item'[t] = Listing[i] /\ queue'[r] = queue[r] \ {i}
        BY <3>1, TakeWorkMoves
      <4>3. PICK j \in queue[r] : Listing[j] = f
        BY <2>3 DEF Queued
      <4>4. CASE j = i
        BY <3>1, <4>1, <4>2, <4>3, <4>4 DEF WorkedOn, AtWork
      <4>5. CASE j # i
        BY <4>1, <4>2, <4>3, <4>5 DEF Queued
      <4>6. QED
        BY <4>4, <4>5
    <3>2. CASE ~ (TakeWork(t) /\ t[1] = r)
      BY <2>3, <3>2, WorkerFrame, WorkerMoves DEF Queued
    <3>3. QED
      BY <3>1, <3>2
  <2>4. CASE WorkedOn(r, f)
    <3>1. PICK u \in Threads : u[1] = r /\ AtWork(u) /\ item[u] = f
      BY <2>4 DEF WorkedOn
    <3>2. CASE u # t
      BY <3>1, <3>2, WorkerFrame DEF WorkedOn, AtWork
    <3>3. CASE u = t /\ AtWork(t)'
      <4>1. ~ TakeWork(t)
        BY <3>1, <3>3 DEF TakeWork, At, AtWork
      <4>2. QED
        BY <3>1, <3>3, <4>1, WorkerMoves DEF WorkedOn
    <3>4. CASE u = t /\ ~ AtWork(t)'
      <4>1. ~ RemoveTmp(t)
        BY <1>4, <3>1, <3>4 DEF RemoveTmp, At, Staged, Uninterrupted
      <4>2. Rename(t)
        BY <3>1, <3>4, <4>1 DEF Worker, TakeWork, NoMoreWork, StartTool, ToolEnds,
           ToolFails, ReadOutput, OpenOutput, WriteOutput, RenameFails, At, Goto, AtWork, Types
      <4>3. Final(t) \in DOMAIN directory' /\ Final(t) = PathFor(f, key[r][f])
        BY <3>1, <3>4, <4>2, WorkerNames DEF Final
      <4>4. QED
        BY <4>3, NamesStay DEF Exists
    <3>5. QED
      BY <3>2, <3>3, <3>4
  <2>5. QED
    BY <2>1, <2>2, <2>3, <2>4
<1>5. ASSUME NEW r \in Runs, stage'[r] = "working", Uninterrupted(r),
             NEW u \in Threads, u[1] = r, IsJob(u), pc'[u] = "ended"
      PROVE  queue'[r] = {}
  <2>1. CASE pc[u] = "ended"
    BY <1>5, <2>1, WorkerFrame DEF Covered
  <2>2. CASE pc[u] # "ended"
    <3>1. u = t
      BY <1>5, <2>2, WorkerFrame
    <3>2. ~ RemoveTmp(t)
      BY <1>5, <3>1 DEF RemoveTmp, At, Staged, Uninterrupted
    <3>3. NoMoreWork(t)
      BY <1>5, <2>2, <3>1, <3>2 DEF Worker, TakeWork, StartTool, ToolEnds, ToolFails, Rename,
         ReadOutput, OpenOutput, WriteOutput, RenameFails, At, Goto, Types
    <3>4. QED
      BY <1>5, <3>1, <3>3 DEF NoMoreWork
  <2>3. QED
    BY <2>1, <2>2
<1>6. ASSUME NEW r \in Runs, stage'[r] \in {"reporting", "done"}, Uninterrupted(r)
      PROVE  \A f \in Files : Exists(PathFor(f, key[r][f]))'
  BY <1>3, <1>6, WorkerFrame DEF Covered
<1>7. QED
  BY <1>2, <1>4, <1>5, <1>6, WorkerFrame DEF Covered

LEMMA HashStays ==
  ASSUME project' = project
  PROVE  \A v, f : HashIn(v, f)' = HashIn(v, f)
<1>1. Text' = Text /\ BaseName' = BaseName /\ Includes' = Includes /\ Headers' = Headers
  BY DEF Text, BaseName, Includes, Headers
<1>2. \A f : Hashed(f)' = Hashed(f)
  BY <1>1 DEF Hashed
<1>3. \A v, f : ContentIn(v, f)' = ContentIn(v, f)
  BY <1>1 DEF ContentIn
<1>4. QED
  BY <1>2, <1>3 DEF HashIn

LEMMA WorkerHashes ==
  ASSUME TypeOK, Types, Hashes, NEW t \in Threads, Worker(t)
  PROVE  Hashes'
<1> SUFFICES ASSUME NEW r \in Runs, stage'[r] # "new"
             PROVE  /\ key'[r] = [f \in Files' |-> HashIn(snapshot[r], f)']
                    /\ undisturbed' /\ Active(r)' => version' = snapshot'[r]
  BY DEF Hashes
<1>1. /\ key[r] = [f \in Files |-> HashIn(snapshot[r], f)]
      /\ undisturbed /\ Active(r) => version = snapshot[r]
  BY WorkerFrame DEF Hashes
<1>2. \A f : HashIn(snapshot[r], f)' = HashIn(snapshot[r], f)
  <2>1. snapshot' = snapshot
    BY WorkerFrame
  <2>2. QED
    BY <2>1, HashStays, WorkerFrame
<1>3. QED
  BY <1>1, <1>2, WorkerFrame DEF Active

-----------------------------------------------------------------------------
(* The steps of main and the signals: no thread works when the list is     *)
(* built or the threads are joined.                                        *)

LEMMA BuildThreaded ==
  ASSUME TypeOK, Types, Threaded, NEW r \in Runs, BuildWorkList(r)
  PROVE  Threaded'
<1>1. /\ project' = project /\ version' = version /\ undisturbed' = undisturbed
      /\ interrupted' = interrupted /\ report' = report
      /\ directory' = directory /\ pc' = pc /\ item' = item
      /\ Listing' = Listing /\ Files' = Files
      /\ \A u \in Threads : IsJob(u)' <=> IsJob(u)
  BY ProjectStays DEF BuildWorkList, texts, store, locals
<1>2. /\ stage[r] = "new" /\ r \in DOMAIN project.jobs
      /\ stage'[r] = IF queue'[r] = {} THEN "reporting" ELSE "working"
      /\ key'[r] = [f \in Files |-> ContentHash(f)] /\ snapshot'[r] = version
      /\ queue'[r] = {i \in DOMAIN Listing :
                        ~ Exists(PathFor(Listing[i], key'[r][Listing[i]]))}
      /\ \A s \in Runs : s # r =>
           /\ stage'[s] = stage[s] /\ key'[s] = key[s]
           /\ snapshot'[s] = snapshot[s] /\ queue'[s] = queue[s]
  BY DEF BuildWorkList, TypeOK, Types
<1>3. \A u \in Threads : u[1] = r => ~ AtWork(u) /\ (IsJob(u) => pc[u] = "ready")
  BY <1>2 DEF Threaded, Staged, AtWork
<1>4. \A u \in Threads : AtWork(u)' <=> AtWork(u)
  BY <1>1 DEF AtWork
<1>5. \A s, f : PathFor(f, key[s][f])' = PathFor(f, key'[s][f])
  BY <1>1 DEF PathFor, BaseName
<1>6. \A u \in Threads : u[1] \in Runs
  BY DEF Threads
<1>7. Staged'
  BY <1>1, <1>2, <1>3, <1>4, <1>6 DEF Threaded, Staged
<1>8. Exclusive'
  BY <1>1, <1>2, <1>3, <1>4, <1>6 DEF Threaded, Exclusive, Queued
<1>9. TmpOfThreads'
  <2> SUFFICES ASSUME NEW name \in DOMAIN directory, name.tmp # {}
               PROVE  \E u \in Threads : HasTmp(u)' /\ name = Tmp(u)'
    BY <1>1 DEF TmpOfThreads
  <2>1. PICK u \in Threads : HasTmp(u) /\ name = Tmp(u)
    BY DEF Threaded, TmpOfThreads
  <2>2. u[1] \in Runs /\ u[1] # r
    BY <1>3, <1>6, <2>1 DEF HasTmp, AtWork
  <2>3. HasTmp(u)' /\ Tmp(u)' = Tmp(u)
    BY <1>1, <1>2, <2>1, <2>2 DEF HasTmp, Tmp, TmpOut, PathFor, BaseName
  <2>4. QED
    BY <2>1, <2>3
<1>10. Covered'
  <2>1. ASSUME NEW s \in Runs, s # r
        PROVE  /\ stage'[s] = stage[s] /\ Uninterrupted(s)' = Uninterrupted(s)
               /\ \A f : Exists(PathFor(f, key[s][f]))' = Exists(PathFor(f, key[s][f]))
               /\ \A f : Queued(s, f)' = Queued(s, f) /\ WorkedOn(s, f)' = WorkedOn(s, f)
    <3>1. stage'[s] = stage[s] /\ key'[s] = key[s] /\ queue'[s] = queue[s]
      BY <1>2, <2>1
    <3>2. \A f : PathFor(f, key[s][f])' = PathFor(f, key[s][f])
      BY <1>5, <3>1
    <3>3. QED
      BY <1>1, <3>1, <3>2 DEF Exists, Queued, WorkedOn, AtWork, Uninterrupted
  <2>2. \A f \in Files : Exists(PathFor(f, key[r][f]))' \/ Queued(r, f)'
    <3> SUFFICES ASSUME NEW i \in DOMAIN Listing
                 PROVE  Exists(PathFor(Listing[i], key'[r][Listing[i]])) \/ i \in queue'[r]
      BY <1>1, <1>5, ProjectType DEF Exists, Queued, Types
    <3> QED
      BY <1>2
  <2>3. queue'[r] = {} => \A f : ~ Queued(r, f)'
    BY DEF Queued
  <2>4. \A s \in Runs, u \in Threads :
          stage'[s] = "working" /\ Uninterrupted(s)' /\ u[1] = s /\ IsJob(u)' /\ pc'[u] = "ended"
            => queue'[s] = {}
    BY <1>1, <1>2, <1>3, <2>1 DEF Threaded, Covered
  <2>5. \A s \in Runs : stage'[s] = "working" /\ Uninterrupted(s)' => \A f \in Files :
          Exists(PathFor(f, key[s][f]))' \/ Queued(s, f)' \/ WorkedOn(s, f)'
    BY <2>1, <2>2 DEF Threaded, Covered
  <2>6. \A s \in Runs : stage'[s] \in {"reporting", "done"} /\ Uninterrupted(s)' =>
          \A f \in Files : Exists(PathFor(f, key[s][f]))'
    BY <1>2, <2>1, <2>2, <2>3 DEF Threaded, Covered
  <2>7. QED
    BY <1>1, <2>4, <2>5, <2>6 DEF Covered
<1>11. Hashes'
  <2> SUFFICES ASSUME NEW s \in Runs, stage'[s] # "new"
               PROVE  /\ key'[s] = [f \in Files' |-> HashIn(snapshot[s], f)']
                      /\ undisturbed' /\ Active(s)' => version' = snapshot'[s]
    BY DEF Hashes
  <2>1. \A f : HashIn(snapshot[s], f)' = HashIn(snapshot'[s], f)
    BY <1>1, HashStays
  <2>2. CASE s = r
    BY <1>1, <1>2, <2>1, <2>2 DEF ContentHash
  <2>3. CASE s # r
    BY <1>1, <1>2, <2>1, <2>3 DEF Threaded, Hashes, Active
  <2>4. QED
    BY <2>2, <2>3
<1>12. QED
  BY <1>7, <1>8, <1>9, <1>10, <1>11 DEF Threaded

LEMMA QuietThreaded ==
  ASSUME TypeOK, Types, Threaded,
         UNCHANGED <<project, directory, key, queue, snapshot, item>>,
         pc' \in [Threads -> Labels],
         \A u \in Threads :
           \/ pc'[u] = pc[u] /\ (interrupted[u[1]] => interrupted'[u[1]])
           \/ pc[u] \in {"tool", "interrupted"} /\ pc'[u] = "interrupted" /\ interrupted'[u[1]],
         \A r \in Runs : interrupted[r] => interrupted'[r],
         \A r \in Runs :
           \/ stage'[r] = stage[r] /\ report'[r] = report[r]
           \/ stage[r] = "reporting" /\ stage'[r] \in {"reporting", "done"}
           \/ stage'[r] = "killed" /\ stage[r] # "new"
           \/ JoinWorkers(r) /\ stage'[r] = "reporting" /\ interrupted'[r] = interrupted[r],
         undisturbed' => undisturbed /\ \A r \in Runs : Active(r)' => version' = version
  PROVE  Threaded'
<1>1. /\ Listing' = Listing /\ Files' = Files
      /\ \A u \in Threads : IsJob(u)' <=> IsJob(u)
      /\ \A r \in Runs : Uninterrupted(r)' => Uninterrupted(r)
  BY ProjectStays DEF Uninterrupted
<1>2. \A u \in Threads : /\ AtWork(u)' <=> AtWork(u)
                         /\ HasTmp(u)' <=> HasTmp(u)
                         /\ Tmp(u)' = Tmp(u)
  BY DEF AtWork, HasTmp, Tmp, TmpOut, PathFor, BaseName
<1>3. \A u \in Threads : u[1] \in Runs /\ u[2] \in Workers /\ u = <<u[1], u[2]>>
  BY DEF Threads
<1>4. \A r, f : /\ Exists(PathFor(f, key[r][f]))' <=> Exists(PathFor(f, key[r][f]))
                /\ Queued(r, f)' <=> Queued(r, f)
                /\ WorkedOn(r, f)' <=> WorkedOn(r, f)
  BY <1>1, <1>2 DEF Exists, Queued, WorkedOn, PathFor, BaseName
<1>5. Staged'
  BY <1>1, <1>2, <1>3 DEF Threaded, Staged, JoinWorkers, AtWork
<1>6. Exclusive'
  BY <1>1, <1>2, <1>3, <1>4 DEF Threaded, Exclusive
<1>7. TmpOfThreads'
  BY <1>2 DEF Threaded, TmpOfThreads
<1>8. Covered'
  <2>1. ASSUME NEW r \in Runs, JoinWorkers(r), Uninterrupted(r), NEW f \in Files
        PROVE  Exists(PathFor(f, key[r][f]))
    <3>1. stage[r] = "working" /\ \A w \in Workers : pc[<<r, w>>] = "ended"
      BY <2>1 DEF JoinWorkers
    <3>2. ~ WorkedOn(r, f)
      BY <1>3, <3>1 DEF WorkedOn, AtWork
    <3>3. PICK w \in Workers : IsJob(<<r, w>>) /\ <<r, w>> \in Threads
      <4>1. r \in DOMAIN project.jobs
        BY <3>1 DEF Threaded, Staged
      <4>2. project.jobs[r] \subseteq Workers /\ project.jobs[r] # {}
        BY <2>1, <4>1, ProjectAssumption DEF Types, Uninterrupted
      <4>3. QED
        BY <4>1, <4>2 DEF IsJob, Threads
    <3>4. queue[r] = {}
      BY <2>1, <3>1, <3>3 DEF Threaded, Covered
    <3>5. ~ Queued(r, f)
      BY <3>4 DEF Queued
    <3>6. QED
      BY <2>1, <3>1, <3>2, <3>5 DEF Threaded, Covered
  <2>2. ASSUME NEW r \in Runs, stage'[r] = "working"
        PROVE  stage[r] = "working"
    BY <2>2
  <2>3. \A r \in Runs, u \in Threads :
          stage'[r] = "working" /\ Uninterrupted(r)' /\ u[1] = r /\ IsJob(u)' /\ pc'[u] = "ended"
            => queue'[r] = {}
    BY <1>1, <2>2 DEF Threaded, Covered
  <2>4. \A r \in Runs : stage'[r] = "working" /\ Uninterrupted(r)' => \A f \in Files :
          Exists(PathFor(f, key[r][f]))' \/ Queued(r, f)' \/ WorkedOn(r, f)'
    BY <1>1, <1>4, <2>2 DEF Threaded, Covered
  <2>5. ASSUME NEW r \in Runs, stage'[r] \in {"reporting", "done"}, Uninterrupted(r)'
        PROVE  \A f \in Files : Exists(PathFor(f, key[r][f]))'
    <3>1. Uninterrupted(r)
      BY <1>1, <2>5
    <3>2. stage[r] \in {"reporting", "done"} \/ JoinWorkers(r)
      BY <2>5
    <3>3. \A f \in Files : Exists(PathFor(f, key[r][f]))
      BY <2>1, <3>1, <3>2 DEF Threaded, Covered
    <3>4. QED
      BY <1>4, <3>3
  <2>6. QED
    BY <1>1, <2>3, <2>4, <2>5 DEF Covered
<1>9. Hashes'
  <2> SUFFICES ASSUME NEW r \in Runs, stage'[r] # "new"
               PROVE  /\ key'[r] = [f \in Files' |-> HashIn(snapshot[r], f)']
                      /\ undisturbed' /\ Active(r)' => version' = snapshot'[r]
    BY DEF Hashes
  <2>1. \A f : HashIn(snapshot[r], f)' = HashIn(snapshot[r], f)
    BY HashStays
  <2>2. stage[r] # "new" /\ (Active(r)' => Active(r))
    BY DEF Active, JoinWorkers
  <2>3. QED
    BY <1>1, <2>1, <2>2 DEF Threaded, Hashes
<1>10. QED
  BY <1>5, <1>6, <1>7, <1>8, <1>9 DEF Threaded

LEMMA MainThreaded ==
  ASSUME TypeOK, Types, Threaded, NEW r \in Runs, Main(r) \/ Interrupt(r) \/ Kill(r)
  PROVE  Threaded'
<1>1. /\ UNCHANGED <<project, directory, key, queue, snapshot, item>>
      /\ undisturbed' = undisturbed /\ version' = version
  BY DEF Main, JoinWorkers, ReadResult, Exit, Interrupt, Kill, texts, store, locals
<1>2. pc' \in [Threads -> Labels]
  BY MainTypes DEF Types
<1>3. \A u \in Threads :
           \/ pc'[u] = pc[u] /\ (interrupted[u[1]] => interrupted'[u[1]])
           \/ pc[u] \in {"tool", "interrupted"} /\ pc'[u] = "interrupted" /\ interrupted'[u[1]]
  <2>1. CASE Interrupt(r)
    BY <2>1 DEF Interrupt, Types, Threads
  <2>2. CASE ~ Interrupt(r)
    BY <2>2 DEF Main, JoinWorkers, ReadResult, Exit, Kill
  <2>3. QED
    BY <2>1, <2>2
<1>4. \A s \in Runs : interrupted[s] => interrupted'[s]
  BY DEF Main, JoinWorkers, ReadResult, Exit, Interrupt, Kill, Types
<1>5. \A s \in Runs :
           \/ stage'[s] = stage[s] /\ report'[s] = report[s]
           \/ stage[s] = "reporting" /\ stage'[s] \in {"reporting", "done"}
           \/ stage'[s] = "killed" /\ stage[s] # "new"
           \/ JoinWorkers(s) /\ stage'[s] = "reporting" /\ interrupted'[s] = interrupted[s]
  <2>1. \A s \in Runs : s # r => stage'[s] = stage[s] /\ report'[s] = report[s]
    BY DEF Main, JoinWorkers, ReadResult, Exit, Interrupt, Kill, TypeOK, Types
  <2>2. CASE Main(r)
    BY <2>1, <2>2 DEF Main, JoinWorkers, ReadResult, Exit, TypeOK
  <2>3. CASE Interrupt(r) \/ Kill(r)
    BY <2>1, <2>3 DEF Interrupt, Kill, Active, TypeOK
  <2>4. QED
    BY <2>2, <2>3
<1>6. QED
  BY <1>1, <1>2, <1>3, <1>4, <1>5, QuietThreaded

LEMMA EditThreaded ==
  ASSUME TypeOK, Types, Threaded, NEW f \in Files, Edit(f)
  PROVE  Threaded'
<1>1. /\ UNCHANGED <<project, directory, key, queue, snapshot, item, pc, stage,
                     interrupted, report>>
      /\ undisturbed' => undisturbed /\ \A r \in Runs : ~ Active(r)
  BY DEF Edit, store, main, locals
<1>2. \A r \in Runs : Active(r)' <=> Active(r)
  BY <1>1 DEF Active
<1>3. pc' \in [Threads -> Labels]
  BY <1>1 DEF Types
<1>4. QED
  BY <1>1, <1>2, <1>3, QuietThreaded

LEMMA InitThreaded == Init => Threaded
<1> SUFFICES ASSUME Init PROVE Threaded
  OBVIOUS
<1>1. /\ \A u \in Threads : pc[u] = IF IsJob(u) THEN "ready" ELSE "ended"
      /\ \A r \in Runs : stage[r] = "new" /\ report[r] = <<>>
      /\ DOMAIN directory = {}
  BY DEF Init, IsJob
<1>2. \A u \in Threads : u[1] \in Runs /\ ~ AtWork(u)
  BY <1>1 DEF AtWork, Threads
<1>3. QED
  BY <1>1, <1>2 DEF Threaded, Staged, Exclusive, TmpOfThreads, Covered, Hashes

LEMMA NextThreaded ==
  TypeOK /\ Types /\ Threaded /\ [Next]_vars => Threaded'
<1> SUFFICES ASSUME TypeOK, Types, Threaded, [Next]_vars PROVE Threaded'
  OBVIOUS
<1>1. CASE UNCHANGED vars
  <2>1. UNCHANGED <<project, directory, key, queue, snapshot, item, pc, stage,
                    interrupted, report, undisturbed, version>>
    BY <1>1 DEF vars, texts, store, main, locals
  <2>2. pc' \in [Threads -> Labels]
    BY <2>1 DEF Types
  <2>3. QED
    BY <2>1, <2>2, QuietThreaded
<1>2. CASE \E t \in Threads : Worker(t)
  BY <1>2, WorkerStaged, WorkerExclusive, WorkerTmp, WorkerCovered, WorkerHashes DEF Threaded
<1>3. CASE \E r \in Runs : BuildWorkList(r) \/ Main(r) \/ Interrupt(r) \/ Kill(r)
  BY <1>3, BuildThreaded, MainThreaded
<1>4. CASE \E f \in Files : Edit(f)
  BY <1>4, EditThreaded
<1>5. QED
  BY <1>1, <1>2, <1>3, <1>4 DEF Next

-----------------------------------------------------------------------------
(* Hashes that are whole tell files and contents apart.                    *)
LEMMA HashOfAll ==
  ASSUME project \in Projects, HashesWhole, NEW v, NEW f \in Files
  PROVE  HashIn(v, f) = {ContentIn(v, x[2]) : x \in Hashed(f)}
<1> SUFFICES ASSUME NEW y \in Hashed(f)
             PROVE  Cardinality({x \in Hashed(f) : ContentIn(v, x[2]) = ContentIn(v, y[2])}) % 2 = 1
  BY DEF HashIn
<1>1. \A x \in Hashed(f) :
        \/ x = <<0, f>>
        \/ /\ x[1] \in DOMAIN Includes[f] /\ x[2] \in Headers /\ x = <<x[1], x[2]>>
           /\ BaseName[x[2]] = BaseName[Includes[f][x[1]]]
  BY DEF Hashed
<1>2. Headers \subseteq Files
  BY ProjectType
<1>3. \A x \in Hashed(f) : ContentIn(v, x[2]) = ContentIn(v, y[2]) => x[2] = y[2]
  BY <1>1, <1>2 DEF ContentIn, HashesWhole
<1>4. \A x \in Hashed(f) : x[2] = y[2] => x = y
  BY <1>1 DEF HashesWhole
<1>5. {x \in Hashed(f) : ContentIn(v, x[2]) = ContentIn(v, y[2])} = {y}
  BY <1>3, <1>4
<1>6. Cardinality({x \in Hashed(f) : ContentIn(v, x[2]) = ContentIn(v, y[2])}) = 1
  BY <1>5, FS_Singleton
<1>7. QED
  BY <1>6

LEMMA NamesTell ==
  ASSUME project \in Projects, HashesWhole,
         NEW v, NEW f \in Files, NEW w, NEW g \in Files,
         PathFor(f, HashIn(v, f)) = PathFor(g, HashIn(w, g))
  PROVE  f = g /\ SameInputs(f, v, w)
<1>1. BaseName[f] = BaseName[g] /\ HashIn(v, f) = HashIn(w, g)
  BY DEF PathFor
<1>2. /\ {ContentIn(v, x[2]) : x \in Hashed(f)} = {ContentIn(w, x[2]) : x \in Hashed(g)}
  BY <1>1, HashOfAll
<1>3. Headers \subseteq Files
  BY ProjectType
<1>4. \A x \in Hashed(f) : \E y \in Hashed(g) : ContentIn(v, x[2]) = ContentIn(w, y[2])
  BY <1>2
<1>5. \A y \in Hashed(g) :
        \/ y = <<0, g>>
        \/ /\ y[1] \in DOMAIN Includes[g] /\ y[2] \in Headers
           /\ BaseName[y[2]] = BaseName[Includes[g][y[1]]]
  BY DEF Hashed
<1>6. \A x \in Hashed(f) : x[2] \in Files => \E y \in Hashed(g) : x[2] = y[2] /\ v[x[2]] = w[x[2]]
  BY <1>3, <1>4, <1>5 DEF ContentIn, HashesWhole
<1>7. f = g /\ v[f] = w[f]
  <2>1. <<0, f>> \in Hashed(f)
    BY DEF Hashed
  <2>2. PICK y \in Hashed(g) : f = y[2] /\ v[f] = w[f]
    BY <1>6, <2>1
  <2>3. QED
    BY <1>1, <1>5, <2>2 DEF HashesWhole
<1>8. \A i \in DOMAIN Includes[f] : v[Includes[f][i]] = w[Includes[f][i]]
  <2> TAKE i \in DOMAIN Includes[f]
  <2>1. Includes[f][i] \in Headers
    BY DEF HashesWhole
  <2>2. <<i, Includes[f][i]>> \in Hashed(f)
    BY <2>1 DEF Hashed
  <2>3. QED
    BY <1>3, <1>6, <2>1, <2>2
<1>9. QED
  BY <1>7, <1>8 DEF SameInputs, Direct

(* So no two files of an invocation have one name.                         *)
LEMMA WholeIsApart ==
  ASSUME Types, Hashes, HashesWhole
  PROVE  NamesApart
<1> SUFFICES ASSUME NEW r \in Runs, stage[r] # "new", NEW f \in Files, NEW g \in Files,
                    PathFor(f, key[r][f]) = PathFor(g, key[r][g])
             PROVE  f = g
  BY DEF NamesApart
<1>1. key[r][f] = HashIn(snapshot[r], f) /\ key[r][g] = HashIn(snapshot[r], g)
  BY DEF Hashes
<1>2. QED
  BY <1>1, NamesTell DEF Types

-----------------------------------------------------------------------------
(* The store, where names are apart: threads have temporary files and      *)
(* inodes of their own.                                                    *)
Apart == NamesApart /\ Stored

LEMMA OwnTmp ==
  ASSUME TypeOK, Types, Threaded, NamesApart,
         NEW t \in Threads, NEW u \in Threads, AtWork(t), AtWork(u),
         Tmp(t) = Tmp(u) \/ Inode(t) = Inode(u)
  PROVE  t = u
<1>1. t[1] \in Runs /\ item[t] \in Files /\ item[u] \in Files
  BY DEF TypeOK, Threads
<1>2. stage[t[1]] # "new"
  BY DEF Threaded, Staged, AtWork
<1>3. t[1] = u[1] /\ item[t] = item[u]
  <2>1. CASE Tmp(t) = Tmp(u)
    <3>1. t[1] = u[1]
      BY <2>1, TmpName
    <3>2. PathFor(item[t], key[t[1]][item[t]]) = PathFor(item[u], key[t[1]][item[u]])
      BY <2>1, <3>1 DEF Tmp, TmpOut, PathFor
    <3>3. QED
      BY <1>1, <1>2, <3>1, <3>2 DEF NamesApart
  <2>2. CASE Inode(t) = Inode(u)
    BY <2>2 DEF Inode
  <2>3. QED
    BY <2>1, <2>2
<1>4. QED
  BY <1>3 DEF Threaded, Exclusive

(* What the thread does to its own temporary file.                         *)
LEMMA OpensOwn ==
  ASSUME TypeOK, Types, Threaded, Apart, NEW t \in Threads,
         StartTool(t) \/ OpenOutput(t)
  PROVE  /\ directory' = Bind(directory, Tmp(t), Inode(t))
         /\ bytes' = Bind(bytes, Inode(t), Empty)
         /\ fd' = [fd EXCEPT ![t] = Inode(t)]
<1>1. CASE StartTool(t)
  <2>1. ~ Exists(Tmp(t))
    <3> SUFFICES ASSUME Exists(Tmp(t)) PROVE FALSE
      OBVIOUS
    <3>1. Tmp(t) \in DOMAIN directory /\ Tmp(t).tmp # {}
      BY TmpName DEF Exists
    <3>2. PICK u \in Threads : HasTmp(u) /\ Tmp(t) = Tmp(u)
      BY <3>1 DEF Threaded, TmpOfThreads
    <3>3. AtWork(t) /\ pc[t] = "start" /\ AtWork(u)
      BY <1>1, <3>2 DEF StartTool, At, AtWork, HasTmp
    <3>4. t = u
      BY <3>2, <3>3, OwnTmp DEF Apart
    <3>5. QED
      BY <3>2, <3>3, <3>4 DEF HasTmp
  <2>2. QED
    BY <1>1, <2>1 DEF StartTool, Open, Inode
<1>2. CASE OpenOutput(t)
  <2>1. Exists(Tmp(t)) /\ directory[Tmp(t)] = Inode(t)
    BY <1>2 DEF OpenOutput, At, Apart, Stored, HasTmp, HoldsTmp
  <2>2. QED
    BY <1>2, <2>1 DEF OpenOutput, Open
<1>3. QED
  BY <1>1, <1>2

LEMMA WritesOwn ==
  ASSUME TypeOK, Types, Threaded, Apart, NEW t \in Threads
  PROVE  /\ ToolEnds(t) => bytes' = [bytes EXCEPT ![Inode(t)] = Tidy(item[t], version)]
         /\ ToolFails(t) => bytes' = [bytes EXCEPT ![Inode(t)] = Unfinished(item[t])]
         /\ WriteOutput(t) => bytes' = [bytes EXCEPT ![Inode(t)] = Repair(buffer[t])]
<1>1. ASSUME pc[t] \in {"tool", "write"}
      PROVE  fd[t] = Inode(t) /\ bytes[Inode(t)] = Empty
  BY <1>1 DEF Apart, Stored, HasTmp, HoldsTmp
<1>2. QED
  BY <1>1 DEF ToolEnds, ToolFails, WriteOutput, WriteTo, At

LEMMA OthersKept ==
  ASSUME TypeOK, Types, Threaded, Apart, NEW t \in Threads, Worker(t)
  PROVE  /\ \A name \in DOMAIN directory :
              (name = Tmp(t) /\ AtWork(t)) \/ (name = Final(t) /\ Rename(t)) \/
              (name \in DOMAIN directory' /\ directory'[name] = directory[name])
         /\ \A inode \in DOMAIN bytes :
              /\ inode \in DOMAIN bytes'
              /\ (inode = Inode(t) /\ AtWork(t)) \/ bytes'[inode] = bytes[inode]
<1>1. CASE StartTool(t) \/ OpenOutput(t)
  <2>1. AtWork(t)
    BY <1>1 DEF StartTool, OpenOutput, At, AtWork
  <2>2. \A name \in DOMAIN directory : name # Tmp(t) =>
          name \in DOMAIN directory' /\ directory'[name] = directory[name]
    <3>1. directory' = Bind(directory, Tmp(t), Inode(t))
      BY <1>1, OpensOwn
    <3>2. QED
      BY <3>1 DEF Bind
  <2>3. \A inode \in DOMAIN bytes :
          /\ inode \in DOMAIN bytes'
          /\ inode # Inode(t) => bytes'[inode] = bytes[inode]
    <3>1. bytes' = Bind(bytes, Inode(t), Empty)
      BY <1>1, OpensOwn
    <3>2. QED
      BY <3>1 DEF Bind
  <2>4. QED
    BY <2>1, <2>2, <2>3
<1>2. CASE ToolEnds(t) \/ ToolFails(t) \/ WriteOutput(t)
  <2>1. AtWork(t) /\ directory' = directory
    BY <1>2 DEF ToolEnds, ToolFails, WriteOutput, At, AtWork
  <2>2. DOMAIN bytes' = DOMAIN bytes
    BY <1>2, WritesOwn
  <2>3. \A inode \in DOMAIN bytes : inode # Inode(t) => bytes'[inode] = bytes[inode]
    BY <1>2, WritesOwn
  <2>4. QED
    BY <2>1, <2>2, <2>3
<1>3. CASE Rename(t)
  <2>1. AtWork(t) /\ bytes' = bytes
    BY <1>3 DEF Rename, At, AtWork
  <2>2. directory' = Unbind(Bind(directory, Final(t), directory[Tmp(t)]), Tmp(t))
    BY <1>3 DEF Rename
  <2>3. \A name \in DOMAIN directory : name # Final(t) /\ name # Tmp(t) =>
          name \in DOMAIN directory' /\ directory'[name] = directory[name]
    BY <2>2 DEF Bind, Unbind
  <2>4. QED
    BY <1>3, <2>1, <2>3
<1>4. CASE RemoveTmp(t)
  BY <1>4 DEF RemoveTmp, Unbind, At, AtWork
<1>5. CASE TakeWork(t) \/ NoMoreWork(t) \/ ReadOutput(t) \/ RenameFails(t)
  BY <1>5 DEF TakeWork, NoMoreWork, ReadOutput, RenameFails, store
<1>6. QED
  BY <1>1, <1>2, <1>3, <1>4, <1>5 DEF Worker

LEMMA TidyStays ==
  ASSUME project' = project
  PROVE  \A v, f : Tidy(f, v)' = Tidy(f, v)
<1>1. Text' = Text /\ Includes' = Includes /\ Files' = Files
  BY ProjectStays DEF Text, Includes
<1>2. \A v, f : ContentIn(v, f)' = ContentIn(v, f)
  BY <1>1 DEF ContentIn
<1>3. \A f : Direct(f)' = Direct(f)
  BY <1>1 DEF Direct
<1>4. \A f : ReadBy(f)' = ReadBy(f)
  BY <1>1, <1>3 DEF ReadBy
<1>5. QED
  BY <1>2, <1>4 DEF Tidy

LEMMA OutputStays ==
  ASSUME TypeOK, Types, NEW t \in Threads, NEW u \in Threads, Worker(t), item'[u] = item[u]
  PROVE  \A text : /\ IsOutput(u, text) => IsOutput(u, text)'
                   /\ IsRepaired(u, text) => IsRepaired(u, text)'
<1>1. /\ Files' = Files /\ undisturbed' = undisturbed /\ snapshot' = snapshot
      /\ stage'[u[1]] = "working" => stage[u[1]] = "working"
  BY WorkerFrame DEF Threads
<1>2. \A v, f : Tidy(f, v)' = Tidy(f, v)
  BY WorkerFrame, TidyStays
<1>3. \A text : Repair(text)' = Repair(text)
  BY DEF Repair, Empty
<1>4. \A v : /\ Tidy(item[u], v)' = Tidy(item[u], v)
            /\ Repair(Tidy(item[u], v))' = Repair(Tidy(item[u], v))
  <2> TAKE v
  <2>1. Tidy(item[u], v)' = Tidy(item[u], v)
    BY <1>2
  <2>2. QED
    BY <1>3, <2>1
<1>5. ASSUME NEW text, IsOutput(u, text)
      PROVE  IsOutput(u, text)'
  BY <1>1, <1>4, <1>5 DEF IsOutput
<1>6. ASSUME NEW text, IsRepaired(u, text)
      PROVE  IsRepaired(u, text)'
  BY <1>1, <1>4, <1>6 DEF IsRepaired
<1>7. QED
  BY <1>5, <1>6

(* A step keeps the temporary files of other threads.                      *)
LEMMA OthersHold ==
  ASSUME TypeOK, Types, Threaded, Apart, NEW t \in Threads, Worker(t),
         NEW u \in Threads, u # t, HasTmp(u)'
  PROVE  HoldsTmp(u)'
<1>1. /\ pc'[u] = pc[u] /\ item'[u] = item[u] /\ fd'[u] = fd[u] /\ buffer'[u] = buffer[u]
      /\ Tmp(u)' = Tmp(u)
  BY WorkerFrame, NamesStay
<1>2. HasTmp(u) /\ AtWork(u) /\ HoldsTmp(u)
  BY <1>1 DEF HasTmp, AtWork, Apart, Stored
<1>3. Inode(u)' = Inode(u)
  BY <1>1 DEF Inode
<1>4. Tmp(u) # Final(t)
  BY TmpName
<1>5. ~ (AtWork(t) /\ (Tmp(u) = Tmp(t) \/ Inode(u) = Inode(t)))
  BY <1>2, OwnTmp DEF Apart
<1>6. /\ Tmp(u) \in DOMAIN directory' /\ directory'[Tmp(u)] = directory[Tmp(u)]
      /\ Inode(u) \in DOMAIN bytes' /\ bytes'[Inode(u)] = bytes[Inode(u)]
  BY <1>2, <1>4, <1>5, OthersKept DEF HoldsTmp, Exists
<1>7. /\ \A text : IsOutput(u, text) => IsOutput(u, text)'
      /\ \A text : IsRepaired(u, text) => IsRepaired(u, text)'
  BY <1>1, OutputStays
<1>8. /\ pc'[u] = "read" => IsOutput(u, bytes[Inode(u)])'
      /\ pc'[u] \in {"open", "write"} => IsOutput(u, buffer[u])'
      /\ pc'[u] = "rename" => IsRepaired(u, bytes[Inode(u)])'
  <2>1. pc'[u] = "read" => IsOutput(u, bytes'[Inode(u)])
    BY <1>1, <1>2, <1>6 DEF HoldsTmp
  <2>2. pc'[u] \in {"open", "write"} => IsOutput(u, buffer'[u])
    BY <1>1, <1>2 DEF HoldsTmp
  <2>3. pc'[u] = "rename" => IsRepaired(u, bytes'[Inode(u)])
    BY <1>1, <1>2, <1>6 DEF HoldsTmp
  <2>4. QED
    BY <1>3, <1>7, <2>1, <2>2, <2>3
<1>9. QED
  BY <1>1, <1>2, <1>3, <1>6, <1>8 DEF HoldsTmp, Exists

(* What has been written by the thread itself is what its step says.       *)
LEMMA OwnHolds ==
  ASSUME TypeOK, Types, Threaded, Apart, NEW t \in Threads, Worker(t), HasTmp(t)'
  PROVE  HoldsTmp(t)'
<1>1. ~ TakeWork(t) /\ ~ NoMoreWork(t) /\ ~ Rename(t) /\ ~ RemoveTmp(t)
  BY DEF TakeWork, NoMoreWork, Rename, RemoveTmp, Goto, Types, HasTmp
<1>2. item' = item /\ Tmp(t)' = Tmp(t) /\ Inode(t)' = Inode(t)
  BY <1>1, WorkerMoves, NamesStay DEF Inode
<1>3. \A text : /\ IsOutput(t, text) => IsOutput(t, text)'
                /\ IsRepaired(t, text) => IsRepaired(t, text)'
  BY <1>2, OutputStays
<1>4. HasTmp(t) => HoldsTmp(t)
  BY DEF Apart, Stored
<1>5. CASE StartTool(t) \/ OpenOutput(t)
  <2>1. Tmp(t) \in DOMAIN directory' /\ directory'[Tmp(t)] = Inode(t)
    <3>1. directory' = Bind(directory, Tmp(t), Inode(t))
      BY <1>5, OpensOwn
    <3>2. QED
      BY <3>1 DEF Bind
  <2>2. Inode(t) \in DOMAIN bytes' /\ bytes'[Inode(t)] = Empty
    <3>1. bytes' = Bind(bytes, Inode(t), Empty)
      BY <1>5, OpensOwn
    <3>2. QED
      BY <3>1 DEF Bind
  <2>3. fd'[t] = Inode(t)
    BY <1>5, OpensOwn DEF Types
  <2>4. \/ pc'[t] = "tool"
        \/ pc'[t] = "write" /\ pc[t] = "open" /\ buffer' = buffer
    BY <1>5 DEF StartTool, OpenOutput, At, Goto, Types
  <2>5. pc'[t] = "write" => IsOutput(t, buffer'[t])
    BY <1>4, <2>4 DEF HoldsTmp, HasTmp
  <2>6. pc'[t] = "write" => IsOutput(t, buffer[t])'
    BY <1>3, <2>5
  <2>7. Empty' = Empty
    BY DEF Empty
  <2>8. QED
    BY <1>2, <2>1, <2>2, <2>3, <2>4, <2>6, <2>7 DEF HoldsTmp, Exists
<1>6. CASE ToolEnds(t)
  <2>1. HoldsTmp(t) /\ directory' = directory /\ pc'[t] = "read"
    BY <1>4, <1>6 DEF ToolEnds, ToolFails, HasTmp, Goto, Types
  <2>2. DOMAIN bytes' = DOMAIN bytes /\ bytes'[Inode(t)] = Tidy(item[t], version)
    BY <1>6, <2>1, WritesOwn DEF HoldsTmp
  <2>3. IsOutput(t, Tidy(item[t], version))
    <3>1. version \in [Files -> Versions]
      BY DEF TypeOK
    <3>2. t[1] \in Runs /\ (stage[t[1]] = "working" => Active(t[1]))
      BY DEF Threads, Active
    <3>3. undisturbed /\ stage[t[1]] = "working" => version = snapshot[t[1]]
      BY <3>2 DEF Threaded, Hashes
    <3>4. QED
      BY <3>1, <3>3 DEF IsOutput
  <2>4. IsOutput(t, bytes[Inode(t)])'
    BY <1>2, <1>3, <2>2, <2>3
  <2>5. QED
    BY <1>2, <2>1, <2>2, <2>4 DEF HoldsTmp, Exists
<1>7. CASE ToolFails(t)
  <2>1. HoldsTmp(t) /\ directory' = directory /\ pc'[t] = "read"
    BY <1>4, <1>7 DEF ToolFails, HasTmp, Goto, Types
  <2>2. DOMAIN bytes' = DOMAIN bytes /\ bytes'[Inode(t)] = Unfinished(item[t])
    BY <1>7, <2>1, WritesOwn DEF HoldsTmp
  <2>3. IsOutput(t, Unfinished(item[t]))
    BY DEF IsOutput
  <2>4. IsOutput(t, bytes[Inode(t)])'
    BY <1>2, <1>3, <2>2, <2>3
  <2>5. QED
    BY <1>2, <2>1, <2>2, <2>4 DEF HoldsTmp, Exists
<1>8. CASE ReadOutput(t)
  <2>1. /\ HoldsTmp(t) /\ directory' = directory /\ bytes' = bytes
        /\ pc[t] = "read" /\ pc'[t] = "open"
        /\ buffer'[t] = ContentOf(Tmp(t))
    BY <1>4, <1>8 DEF ReadOutput, HasTmp, At, Goto, store, Types
  <2>2. IsOutput(t, buffer'[t])
    BY <2>1 DEF HoldsTmp, ContentOf
  <2>3. IsOutput(t, buffer[t])'
    BY <1>3, <2>2
  <2>4. QED
    BY <1>2, <2>1, <2>3 DEF HoldsTmp, Exists
<1>9. CASE WriteOutput(t)
  <2>1. /\ HoldsTmp(t) /\ directory' = directory
        /\ pc[t] = "write" /\ pc'[t] = "rename"
    BY <1>4, <1>9 DEF WriteOutput, HasTmp, At, Goto, Types
  <2>2. DOMAIN bytes' = DOMAIN bytes /\ bytes'[Inode(t)] = Repair(buffer[t])
    BY <1>9, <2>1, WritesOwn DEF HoldsTmp
  <2>3. IsRepaired(t, Repair(buffer[t]))
    BY <2>1 DEF HoldsTmp, IsOutput, IsRepaired
  <2>4. IsRepaired(t, bytes[Inode(t)])'
    BY <1>2, <1>3, <2>2, <2>3
  <2>5. QED
    BY <1>2, <2>1, <2>2, <2>4 DEF HoldsTmp, Exists
<1>10. CASE RenameFails(t)
  BY <1>4, <1>10 DEF RenameFails, At, HasTmp, HoldsTmp
<1>11. QED
  BY <1>1, <1>5, <1>6, <1>8, <1>9, <1>10, <1>7 DEF Worker

(* Results stay what they are, and a rename adds one.                      *)
LEMMA ResultBytes ==
  ASSUME TypeOK, Types, Threaded, Apart, NEW t \in Threads, Worker(t),
         NEW name \in Results, NEW r \in Runs, NEW f \in Files, IsResult(name, r, f),
         name # Final(t) \/ ~ Rename(t)
  PROVE  /\ name \in DOMAIN directory' /\ directory'[name] = directory[name]
         /\ directory[name] \in DOMAIN bytes'
         /\ bytes'[directory[name]] = bytes[directory[name]]
<1>1. name \in DOMAIN directory /\ name # Tmp(t)
  BY TmpName DEF Results
<1>2. /\ directory[name] = <<r, f, "shell">> /\ directory[name] \in DOMAIN bytes
      /\ ~ WorkedOn(r, f)
  BY DEF IsResult
<1>3. AtWork(t) => Inode(t) # directory[name]
  BY <1>2 DEF Inode, WorkedOn
<1>4. QED
  BY <1>1, <1>2, <1>3, OthersKept

LEMMA WorkerResults ==
  ASSUME TypeOK, Types, Threaded, Apart, NEW t \in Threads, Worker(t)
  PROVE  \A name \in Results' : \E r \in Runs, f \in Files' : IsResult(name, r, f)'
<1> SUFFICES ASSUME NEW name \in DOMAIN directory', name.tmp = {}
             PROVE  \E r \in Runs, f \in Files : IsResult(name, r, f)'
  BY WorkerFrame DEF Results
<1>1. /\ \A r, f : PathFor(f, key[r][f])' = PathFor(f, key[r][f])
      /\ \A v, f : Tidy(f, v)' = Tidy(f, v)
      /\ \A text : Repair(text)' = Repair(text)
  BY NamesStay, WorkerFrame, TidyStays DEF Repair, Empty
<1>2. \A v, f : Repair(Tidy(f, v))' = Repair(Tidy(f, v))
  BY <1>1
<1>3. \A u \in Threads : u[1] \in Runs /\ item[u] \in Files
  BY DEF Threads, TypeOK
<1>4. ASSUME name \in DOMAIN directory, name # Final(t) \/ ~ Rename(t)
      PROVE  \E r \in Runs, f \in Files : IsResult(name, r, f)'
  <2>1. name \in Results
    BY <1>4 DEF Results
  <2>2. PICK r \in Runs, f \in Files : IsResult(name, r, f)
    BY <2>1 DEF Apart, Stored
  <2>3. /\ directory'[name] = directory[name]
        /\ directory[name] \in DOMAIN bytes'
        /\ bytes'[directory[name]] = bytes[directory[name]]
    BY <1>4, <2>1, <2>2, ResultBytes
  <2>4. ~ Queued(r, f)' /\ ~ WorkedOn(r, f)'
    <3>1. ~ Queued(r, f) /\ ~ WorkedOn(r, f)
      BY <2>2 DEF IsResult
    <3>2. ~ Queued(r, f)'
      BY <3>1, WorkerFrame DEF Queued
    <3>3. CASE TakeWork(t)
      <4>1. t[1] = r => item'[t] # f
        BY <3>1, <3>3, TakeWorkMoves DEF Queued
      <4>2. QED
        BY <3>1, <3>2, <4>1, WorkerFrame DEF WorkedOn, AtWork
    <3>4. CASE ~ TakeWork(t)
      <4>1. item' = item /\ \A u \in Threads : AtWork(u)' => AtWork(u)
        BY <3>4, WorkerMoves, WorkerFrame DEF AtWork
      <4>2. QED
        BY <3>1, <3>2, <4>1 DEF WorkedOn
    <3>5. QED
      BY <3>3, <3>4
  <2>5. stage'[r] # "new" /\ undisturbed' = undisturbed /\ snapshot' = snapshot /\ Files' = Files
    BY <2>2, WorkerFrame DEF IsResult
  <2>6. IsResult(name, r, f)'
    BY <1>1, <1>2, <2>2, <2>3, <2>4, <2>5 DEF IsResult
  <2>7. QED
    BY <2>6
<1>5. CASE name = Final(t) /\ Rename(t)
  <2>1. /\ pc[t] = "rename" /\ pc'[t] = "ready" /\ stage[t[1]] = "working"
        /\ bytes' = bytes /\ item' = item /\ queue' = queue /\ ~ TakeWork(t)
        /\ directory' = Unbind(Bind(directory, Final(t), directory[Tmp(t)]), Tmp(t))
    BY <1>5 DEF Rename, TakeWork, At, Goto, locals, Types
  <2>2. AtWork(t) /\ HoldsTmp(t)
    BY <2>1 DEF AtWork, HasTmp, Apart, Stored
  <2>3. directory'[name] = Inode(t) /\ Inode(t) \in DOMAIN bytes'
    <3>1. directory'[Final(t)] = directory[Tmp(t)]
      BY <2>1, TmpName DEF Bind, Unbind
    <3>2. QED
      BY <1>5, <2>1, <2>2, <3>1 DEF HoldsTmp
  <2>4. ~ Queued(t[1], item[t])
    BY <2>2 DEF Threaded, Exclusive
  <2>5. \A f : Queued(t[1], f)' <=> Queued(t[1], f)
    BY <2>1, WorkerFrame DEF Queued
  <2>6. ASSUME NEW u \in Threads, u[1] = t[1], AtWork(u)', item[u] = item[t]
        PROVE  FALSE
    <3>1. u # t
      BY <2>1, <2>6 DEF AtWork
    <3>2. AtWork(u)
      BY <2>6, <3>1, WorkerFrame DEF AtWork
    <3>3. QED
      BY <2>2, <2>6, <3>1, <3>2 DEF Threaded, Exclusive
  <2> DEFINE f == item[t]
             r == t[1]
  <2>7. \/ \E v \in [Files -> Versions] :
              bytes[Inode(t)] = Repair(Tidy(f, v)) /\ (undisturbed => v = snapshot[r])
        \/ bytes[Inode(t)] = Repair(Unfinished(f))
    BY <2>1, <2>2 DEF HoldsTmp, IsRepaired
  <2>8. /\ f \in Files /\ r \in Runs /\ Files' = Files
        /\ stage'[r] # "new" /\ undisturbed' = undisturbed /\ snapshot' = snapshot
    BY <1>3, <2>1, WorkerFrame
  <2>9. name = PathFor(f, key[r][f]) /\ Inode(t) = <<r, f, "shell">>
    BY <1>5 DEF Final, Inode
  <2> HIDE DEF f, r
  <2>10. PICK g \in Files, s \in Runs : g = f /\ s = r
    BY <2>8
  <2>11. ~ Queued(s, g)' /\ ~ WorkedOn(s, g)'
    BY <2>1, <2>4, <2>5, <2>6, <2>10 DEF WorkedOn, f, r
  <2>12. IsResult(name, s, g)'
    BY <1>1, <1>2, <2>1, <2>3, <2>7, <2>8, <2>9, <2>10, <2>11 DEF IsResult
  <2>13. QED
    BY <2>12
<1>6. CASE name = Tmp(t)
  BY <1>6, TmpName
<1>7. QED
  BY <1>4, <1>5, <1>6, WorkerNames

LEMMA WorkerStored ==
  ASSUME TypeOK, Types, Threaded, NamesApart => Stored, NEW t \in Threads, Worker(t)
  PROVE  (NamesApart => Stored)'
<1> SUFFICES ASSUME NamesApart' PROVE Stored'
  OBVIOUS
<1>1. NamesApart
  <2>1. \A r, f : PathFor(f, key[r][f])' = PathFor(f, key[r][f])
    BY NamesStay
  <2>2. QED
    BY <2>1, WorkerFrame DEF NamesApart
<1>2. Apart
  BY <1>1 DEF Apart
<1>3. \A u \in Threads : HasTmp(u)' => HoldsTmp(u)'
  BY <1>2, OthersHold, OwnHolds
<1>4. QED
  BY <1>2, <1>3, WorkerResults DEF Stored

LEMMA BuildStored ==
  ASSUME TypeOK, Types, Threaded, NamesApart => Stored, NEW r \in Runs, BuildWorkList(r)
  PROVE  (NamesApart => Stored)'
<1> SUFFICES ASSUME NamesApart' PROVE Stored'
  OBVIOUS
<1>1. /\ project' = project /\ undisturbed' = undisturbed
      /\ directory' = directory /\ bytes' = bytes
      /\ pc' = pc /\ item' = item /\ fd' = fd /\ buffer' = buffer
      /\ Listing' = Listing /\ Files' = Files
  BY ProjectStays DEF BuildWorkList, texts, store, locals
<1>2. /\ stage[r] = "new" /\ stage'[r] # "new"
      /\ \A s \in Runs : s # r =>
           /\ stage'[s] = stage[s] /\ key'[s] = key[s]
           /\ snapshot'[s] = snapshot[s] /\ queue'[s] = queue[s]
  BY DEF BuildWorkList, TypeOK, Types
<1>3. \A s, f : s \in Runs /\ s # r => PathFor(f, key[s][f])' = PathFor(f, key[s][f])
  BY <1>1, <1>2 DEF PathFor, BaseName
<1>4. Stored
  <2>1. NamesApart
    BY <1>1, <1>2, <1>3 DEF NamesApart
  <2>2. QED
    BY <2>1
<1>5. /\ \A v, f : Tidy(f, v)' = Tidy(f, v)
      /\ \A text : Repair(text)' = Repair(text)
      /\ Empty' = Empty
  BY <1>1, TidyStays DEF Repair, Empty
<1>6. \A v, f : Repair(Tidy(f, v))' = Repair(Tidy(f, v))
  BY <1>5
<1>7. ASSUME NEW u \in Threads, HasTmp(u)'
      PROVE  HoldsTmp(u)'
  <2>1. u[1] \in Runs /\ u[1] # r
    BY <1>1, <1>2, <1>7 DEF Threads, Threaded, Staged, HasTmp
  <2>2. HoldsTmp(u)
    BY <1>1, <1>4, <1>7 DEF HasTmp, Stored
  <2>3. Tmp(u)' = Tmp(u) /\ Inode(u)' = Inode(u)
    BY <1>1, <1>2, <2>1 DEF Tmp, TmpOut, PathFor, BaseName, Inode
  <2>4. \A text : /\ IsOutput(u, text) => IsOutput(u, text)'
                  /\ IsRepaired(u, text) => IsRepaired(u, text)'
    <3>1. \A v : /\ Tidy(item[u], v)' = Tidy(item[u], v)
                 /\ Repair(Tidy(item[u], v))' = Repair(Tidy(item[u], v))
      BY <1>1, <1>5, <1>6
    <3>2. QED
      BY <1>1, <1>2, <2>1, <3>1 DEF IsOutput, IsRepaired
  <2>5. /\ IsOutput(u, bytes[Inode(u)]) => IsOutput(u, bytes[Inode(u)])'
        /\ IsOutput(u, buffer[u]) => IsOutput(u, buffer[u])'
        /\ IsRepaired(u, bytes[Inode(u)]) => IsRepaired(u, bytes[Inode(u)])'
    BY <1>1, <2>3, <2>4
  <2>6. QED
    BY <1>1, <1>5, <2>2, <2>3, <2>5 DEF HoldsTmp, Exists
<1>8. ASSUME NEW name \in Results
      PROVE  \E s \in Runs, f \in Files : IsResult(name, s, f)'
  <2>1. PICK s \in Runs, f \in Files : IsResult(name, s, f)
    BY <1>4 DEF Stored
  <2>2. s # r /\ stage'[s] # "new"
    BY <1>2, <2>1 DEF IsResult
  <2>3. ~ Queued(s, f)' /\ ~ WorkedOn(s, f)'
    BY <1>1, <1>2, <2>1, <2>2 DEF IsResult, Queued, WorkedOn, AtWork
  <2>4. IsResult(name, s, f)'
    BY <1>1, <1>2, <1>3, <1>5, <1>6, <2>1, <2>2, <2>3 DEF IsResult
  <2>5. QED
    BY <2>4
<1>9. QED
  BY <1>1, <1>7, <1>8 DEF Stored, Results

LEMMA QuietStored ==
  ASSUME TypeOK, Types, Threaded, NamesApart => Stored,
         UNCHANGED <<project, directory, bytes, key, queue, snapshot, item, fd, buffer>>,
         \A u \in Threads :
           pc'[u] = pc[u] \/ (pc[u] = "tool" /\ pc'[u] = "interrupted"),
         \A r \in Runs : (stage'[r] = "new" <=> stage[r] = "new") /\
                         (stage'[r] = "working" => stage[r] = "working"),
         undisturbed' => undisturbed
  PROVE  (NamesApart => Stored)'
<1> SUFFICES ASSUME NamesApart' PROVE Stored'
  OBVIOUS
<1>1. Listing' = Listing /\ Files' = Files
  BY ProjectStays
<1>2. \A r, f : PathFor(f, key[r][f])' = PathFor(f, key[r][f])
  BY DEF PathFor, BaseName
<1>3. Stored
  <2>1. NamesApart
    BY <1>1, <1>2 DEF NamesApart
  <2>2. QED
    BY <2>1
<1>4. /\ \A v, f : Tidy(f, v)' = Tidy(f, v)
      /\ \A text : Repair(text)' = Repair(text)
      /\ Empty' = Empty
  BY TidyStays DEF Repair, Empty
<1>5. \A v, f : Repair(Tidy(f, v))' = Repair(Tidy(f, v))
  BY <1>4
<1>6. \A u \in Threads : u[1] \in Runs /\ (AtWork(u)' <=> AtWork(u))
  BY DEF Threads, AtWork
<1>7. ASSUME NEW u \in Threads, HasTmp(u)'
      PROVE  HoldsTmp(u)'
  <2>1. HoldsTmp(u)
    BY <1>3, <1>7 DEF HasTmp, Stored
  <2>2. Tmp(u)' = Tmp(u) /\ Inode(u)' = Inode(u)
    BY DEF Tmp, TmpOut, PathFor, BaseName, Inode
  <2>3. \A text : /\ IsOutput(u, text) => IsOutput(u, text)'
                  /\ IsRepaired(u, text) => IsRepaired(u, text)'
    <3>1. \A v : /\ Tidy(item[u], v)' = Tidy(item[u], v)
                 /\ Repair(Tidy(item[u], v))' = Repair(Tidy(item[u], v))
      BY <1>4, <1>5
    <3>2. QED
      BY <1>1, <1>6, <3>1 DEF IsOutput, IsRepaired
  <2>4. /\ IsOutput(u, bytes[Inode(u)]) => IsOutput(u, bytes[Inode(u)])'
        /\ IsOutput(u, buffer[u]) => IsOutput(u, buffer[u])'
        /\ IsRepaired(u, bytes[Inode(u)]) => IsRepaired(u, bytes[Inode(u)])'
    BY <2>2, <2>3
  <2>5. QED
    BY <1>4, <2>1, <2>2, <2>4 DEF HoldsTmp, Exists
<1>8. ASSUME NEW name \in Results
      PROVE  \E s \in Runs, f \in Files : IsResult(name, s, f)'
  <2>1. PICK s \in Runs, f \in Files : IsResult(name, s, f)
    BY <1>3 DEF Stored
  <2>2. ~ Queued(s, f)' /\ ~ WorkedOn(s, f)'
    BY <1>1, <1>6, <2>1 DEF IsResult, Queued, WorkedOn
  <2>3. IsResult(name, s, f)'
    BY <1>1, <1>2, <1>4, <1>5, <2>1, <2>2 DEF IsResult
  <2>4. QED
    BY <2>3
<1>9. QED
  BY <1>1, <1>7, <1>8 DEF Stored, Results

LEMMA NextStored ==
  TypeOK /\ Types /\ Threaded /\ (NamesApart => Stored) /\ [Next]_vars
    => (NamesApart => Stored)'
<1> SUFFICES ASSUME TypeOK, Types, Threaded, NamesApart => Stored, [Next]_vars
             PROVE  (NamesApart => Stored)'
  OBVIOUS
<1>1. CASE UNCHANGED vars
  <2>1. /\ UNCHANGED <<project, directory, bytes, key, queue, snapshot, item, fd, buffer>>
        /\ UNCHANGED <<pc, stage, undisturbed>>
    BY <1>1 DEF vars, texts, store, main, locals
  <2>2. QED
    BY <2>1, QuietStored
<1>2. CASE \E t \in Threads : Worker(t)
  BY <1>2, WorkerStored
<1>3. CASE \E r \in Runs : BuildWorkList(r)
  BY <1>3, BuildStored
<1>4. CASE \E r \in Runs : Main(r) \/ Interrupt(r) \/ Kill(r)
  <2>1. PICK r \in Runs : Main(r) \/ Interrupt(r) \/ Kill(r)
    BY <1>4
  <2>2. UNCHANGED <<project, directory, bytes, key, queue, snapshot, item, fd, buffer, undisturbed>>
    BY <2>1 DEF Main, JoinWorkers, ReadResult, Exit, Interrupt, Kill, texts, store, locals
  <2>3. \A u \in Threads :
           pc'[u] = pc[u] \/ (pc[u] = "tool" /\ pc'[u] = "interrupted")
    BY <2>1 DEF Main, JoinWorkers, ReadResult, Exit, Interrupt, Kill
  <2>4. \A s \in Runs : (stage'[s] = "new" <=> stage[s] = "new") /\
                        (stage'[s] = "working" => stage[s] = "working")
    BY <2>1 DEF Main, JoinWorkers, ReadResult, Exit, Interrupt, Kill, Active, TypeOK
  <2>5. QED
    BY <2>2, <2>3, <2>4, QuietStored
<1>5. CASE \E f \in Files : Edit(f)
  <2>1. /\ UNCHANGED <<project, directory, bytes, key, queue, snapshot, item, fd, buffer>>
        /\ UNCHANGED <<pc, stage>> /\ (undisturbed' => undisturbed)
    BY <1>5 DEF Edit, store, main, locals
  <2>2. QED
    BY <2>1, QuietStored
<1>6. QED
  BY <1>1, <1>2, <1>3, <1>4, <1>5 DEF Next

-----------------------------------------------------------------------------
(* Invocations agree about results.                                        *)

(* What a rename puts in place.                                            *)
LEMMA Renamed ==
  ASSUME TypeOK, Types, Threaded, Apart, undisturbed, NEW t \in Threads, Rename(t)
  PROVE  ContentOf(Final(t))' \in SaidOf(item[t]) /\ Exists(Final(t))'
<1>1. /\ pc[t] = "rename" /\ stage[t[1]] = "working" /\ bytes' = bytes
      /\ project' = project /\ key' = key /\ item' = item
      /\ directory' = Unbind(Bind(directory, Final(t), directory[Tmp(t)]), Tmp(t))
  BY DEF Rename, At, texts, main, locals
<1>2. /\ Exists(Tmp(t)) /\ directory[Tmp(t)] = Inode(t)
      /\ IsRepaired(t, bytes[Inode(t)])
  BY <1>1 DEF Apart, Stored, HasTmp, HoldsTmp
<1>3. version = snapshot[t[1]]
  BY <1>1 DEF Threaded, Hashes, Active, Threads
<1>4. bytes[Inode(t)] \in SaidOf(item[t])
  BY <1>1, <1>2, <1>3 DEF IsRepaired, SaidOf
<1>5. Final(t)' = Final(t)
  BY <1>1 DEF Final, PathFor, BaseName
<1>6. Final(t) \in DOMAIN directory' /\ directory'[Final(t)] = Inode(t)
  BY <1>1, <1>2, TmpName DEF Bind, Unbind
<1>7. QED
  BY <1>1, <1>4, <1>5, <1>6 DEF ContentOf, Exists

LEMMA SaidStays ==
  ASSUME project' = project, version' = version
  PROVE  \A f : SaidOf(f)' = SaidOf(f)
<1>1. \A v, f : Tidy(f, v)' = Tidy(f, v)
  BY TidyStays
<1>2. PICK v : v = version
  OBVIOUS
<1>3. \A f : Tidy(f, version)' = Tidy(f, version)
  BY <1>1, <1>2
<1>4. \A text : Repair(text)' = Repair(text)
  BY DEF Repair, Empty
<1>5. QED
  BY <1>3, <1>4 DEF SaidOf, Unfinished

LEMMA WorkerAgreed ==
  ASSUME TypeOK, Types, Threaded, NamesApart => Stored, Agreed,
         NEW t \in Threads, Worker(t)
  PROVE  Agreed'
<1>1. /\ project' = project /\ version' = version /\ undisturbed' = undisturbed
      /\ Files' = Files /\ snapshot' = snapshot
      /\ \A r, f : PathFor(f, key[r][f])' = PathFor(f, key[r][f])
  BY WorkerFrame, NamesStay
<1>2. HashesWhole' = HashesWhole
  BY <1>1 DEF HashesWhole, Headers, Includes, BaseName, Text
<1>3. SUFFICES ASSUME undisturbed, HashesWhole, NEW r \in Runs, NEW f \in Files, ToDo(r, f)',
                      Exists(PathFor(f, key[r][f]))'
               PROVE  ContentOf(PathFor(f, key[r][f]))' \in SaidOf(f)'
  BY <1>1, <1>2 DEF Agreed
<1>4. Apart
  BY <1>3, WholeIsApart DEF Threaded, Apart
<1>5. ToDo(r, f)
  <2>1. stage[r] = "working"
    BY <1>3, WorkerFrame DEF ToDo
  <2>2. CASE Queued(r, f)'
    BY <2>1, <2>2, WorkerFrame DEF ToDo, Queued
  <2>3. CASE WorkedOn(r, f)' /\ TakeWork(t)
    BY <2>1, <2>3, WorkerFrame, TakeWorkMoves DEF ToDo, WorkedOn, AtWork, Queued
  <2>4. CASE WorkedOn(r, f)' /\ ~ TakeWork(t)
    <3>1. item' = item /\ \A u \in Threads : AtWork(u)' => AtWork(u)
      BY <2>4, WorkerMoves, WorkerFrame DEF AtWork
    <3>2. QED
      BY <2>1, <2>4, <3>1 DEF ToDo, WorkedOn
  <2>5. QED
    BY <1>3, <2>2, <2>3, <2>4 DEF ToDo
<1> DEFINE name == PathFor(f, key[r][f])
<1>6. name' = name /\ name.tmp = {} /\ name \in DOMAIN directory'
  BY <1>1, <1>3 DEF PathFor, Exists
<1>7. SaidOf(f)' = SaidOf(f)
  BY <1>1, SaidStays
<1> HIDE DEF name
<1>8. CASE name = Final(t) /\ Rename(t)
  <2>1. f = item[t]
    <3>1. t[1] \in Runs /\ item[t] \in Files /\ stage[t[1]] # "new" /\ stage[r] # "new"
      BY <1>5, <1>8 DEF Threads, TypeOK, Rename, At, ToDo
    <3>2. /\ key[r][f] = HashIn(snapshot[r], f)
          /\ key[t[1]][item[t]] = HashIn(snapshot[t[1]], item[t])
      <4>1. \A s \in Runs : stage[s] # "new" =>
              key[s] = [g \in Files |-> HashIn(snapshot[s], g)]
        BY DEF Threaded, Hashes
      <4>2. QED
        BY <3>1, <4>1
    <3>3. PathFor(f, HashIn(snapshot[r], f)) = PathFor(item[t], HashIn(snapshot[t[1]], item[t]))
      BY <1>8, <3>2 DEF name, Final
    <3>4. QED
      BY <1>3, <3>1, <3>3, NamesTell DEF Types
  <2>2. ContentOf(Final(t))' \in SaidOf(item[t]) /\ Final(t)' = Final(t)
    <3>1. ~ TakeWork(t)
      BY <1>8 DEF Rename, TakeWork, At
    <3>2. QED
      BY <1>3, <1>4, <1>8, <3>1, Renamed, NamesStay
  <2>3. QED
    BY <1>6, <1>7, <1>8, <2>1, <2>2 DEF ContentOf, Exists, name
<1>9. CASE name # Final(t) \/ ~ Rename(t)
  <2>1. name \in Results
    BY <1>6, <1>9, WorkerNames, TmpName DEF Results
  <2>2. PICK s \in Runs, g \in Files : IsResult(name, s, g)
    BY <1>4, <2>1 DEF Apart, Stored
  <2>3. directory'[name] = directory[name] /\ bytes'[directory[name]] = bytes[directory[name]]
    BY <1>4, <1>9, <2>1, <2>2, ResultBytes
  <2>4. name \in DOMAIN directory /\ ContentOf(name) \in SaidOf(f)
    BY <1>3, <1>5, <2>1 DEF Agreed, Exists, Results, name
  <2>5. ContentOf(name)' = ContentOf(name)
    BY <1>6, <2>3, <2>4 DEF ContentOf, Exists
  <2>6. QED
    BY <1>6, <1>7, <2>4, <2>5 DEF name
<1>10. QED
  BY <1>8, <1>9

LEMMA QuietAgreed ==
  ASSUME TypeOK, Types, Threaded, Agreed,
         UNCHANGED <<project, directory, bytes, item>>,
         \A u \in Threads : AtWork(u)' => AtWork(u),
         \A r \in Runs : stage'[r] = "working" =>
           \/ /\ stage[r] = "working" /\ key'[r] = key[r] /\ queue'[r] = queue[r]
              /\ undisturbed' => version' = version
           \/ BuildWorkList(r),
         undisturbed' => undisturbed
  PROVE  Agreed'
<1>1. Listing' = Listing /\ Files' = Files
  BY ProjectStays
<1>2. HashesWhole' = HashesWhole
  BY <1>1 DEF HashesWhole, Headers, Includes, BaseName, Text
<1>3. SUFFICES ASSUME undisturbed', HashesWhole, NEW r \in Runs, NEW f \in Files, ToDo(r, f)',
                      Exists(PathFor(f, key[r][f]))'
               PROVE  ContentOf(PathFor(f, key[r][f]))' \in SaidOf(f)'
  BY <1>1, <1>2 DEF Agreed
<1>4. WorkedOn(r, f)' => WorkedOn(r, f)
  BY DEF WorkedOn
<1>5. CASE BuildWorkList(r)
  <2>1. ~ WorkedOn(r, f)
    BY <1>5 DEF BuildWorkList, Threaded, Staged, WorkedOn, AtWork
  <2>2. Queued(r, f)'
    BY <1>3, <1>4, <2>1 DEF ToDo
  <2>3. queue'[r] = {i \in DOMAIN Listing :
                       ~ Exists(PathFor(Listing[i], key'[r][Listing[i]]))}
    BY <1>5 DEF BuildWorkList, Types
  <2>4. ~ Exists(PathFor(f, key'[r][f]))
    BY <1>1, <2>2, <2>3 DEF Queued
  <2>5. QED
    BY <1>3, <2>4 DEF Exists, PathFor, BaseName
<1>6. CASE ~ BuildWorkList(r)
  <2>1. /\ stage[r] = "working" /\ key'[r] = key[r] /\ queue'[r] = queue[r]
        /\ version' = version
    BY <1>3, <1>6 DEF ToDo
  <2>2. ToDo(r, f)
    BY <1>1, <1>3, <1>4, <2>1 DEF ToDo, Queued
  <2>3. PathFor(f, key[r][f])' = PathFor(f, key[r][f])
    BY <2>1 DEF PathFor, BaseName
  <2>4. Exists(PathFor(f, key[r][f]))
    BY <1>3, <2>3 DEF Exists
  <2>5. ContentOf(PathFor(f, key[r][f])) \in SaidOf(f)
    BY <1>3, <2>2, <2>4 DEF Agreed
  <2>6. ContentOf(PathFor(f, key[r][f]))' = ContentOf(PathFor(f, key[r][f]))
    BY <2>3 DEF ContentOf, Exists, Empty
  <2>7. QED
    BY <2>1, <2>5, <2>6, SaidStays
<1>7. QED
  BY <1>5, <1>6

LEMMA NextAgreed ==
  TypeOK /\ Types /\ Threaded /\ (NamesApart => Stored) /\ Agreed /\ [Next]_vars => Agreed'
<1> SUFFICES ASSUME TypeOK, Types, Threaded, NamesApart => Stored, Agreed, [Next]_vars
             PROVE  Agreed'
  OBVIOUS
<1>1. CASE UNCHANGED vars
  <2>1. UNCHANGED <<project, directory, bytes, item, pc, stage, key, queue, version, undisturbed>>
    BY <1>1 DEF vars, texts, store, main, locals
  <2>2. QED
    BY <2>1, QuietAgreed DEF AtWork
<1>2. CASE \E t \in Threads : Worker(t)
  BY <1>2, WorkerAgreed
<1>3. CASE \E r \in Runs : BuildWorkList(r) \/ Main(r) \/ Interrupt(r) \/ Kill(r)
  <2>1. PICK r \in Runs : BuildWorkList(r) \/ Main(r) \/ Interrupt(r) \/ Kill(r)
    BY <1>3
  <2>2. UNCHANGED <<project, directory, bytes, item, version, undisturbed>>
    BY <2>1 DEF BuildWorkList, Main, JoinWorkers, ReadResult, Exit, Interrupt, Kill, texts,
                store, locals
  <2>3. \A u \in Threads : AtWork(u)' => AtWork(u)
    BY <2>1 DEF BuildWorkList, Main, JoinWorkers, ReadResult, Exit, Interrupt, Kill, AtWork
  <2>4. ASSUME NEW s \in Runs, stage'[s] = "working", ~ BuildWorkList(s)
        PROVE  stage[s] = "working" /\ key'[s] = key[s] /\ queue'[s] = queue[s]
    <3>1. CASE BuildWorkList(r)
      BY <2>4, <3>1 DEF BuildWorkList, TypeOK, Types
    <3>2. CASE ~ BuildWorkList(r)
      BY <2>1, <2>4, <3>2 DEF Main, JoinWorkers, ReadResult, Exit, Interrupt, Kill, TypeOK
    <3>3. QED
      BY <3>1, <3>2
  <2>5. QED
    BY <2>2, <2>3, <2>4, QuietAgreed
<1>4. CASE \E f \in Files : Edit(f)
  <2>1. /\ UNCHANGED <<project, directory, bytes, item, pc, stage, key, queue>>
        /\ undisturbed' => undisturbed /\ \A r \in Runs : ~ Active(r)
    BY <1>4 DEF Edit, store, main, locals
  <2>2. QED
    BY <2>1, QuietAgreed DEF AtWork, Active
<1>5. QED
  BY <1>1, <1>2, <1>3, <1>4 DEF Next

-----------------------------------------------------------------------------
(* Reports.                                                                *)
Current(r, i) ==
  \/ \E q \in Runs :
       /\ stage[q] # "new"
       /\ SameInputs(Listing[i], snapshot[q], snapshot[r])
       /\ report[r][i] = Repair(Tidy(Listing[i], snapshot[q]))
  \/ Failed(report[r][i])
  \/ NothingToSay(r, i)

LEMMA CurrentStays ==
  ASSUME project' = project, NEW r, NEW i, Current(r, i),
         report'[r][i] = report[r][i], snapshot'[r] = snapshot[r],
         interrupted[r] => interrupted'[r],
         \A q \in Runs : stage[q] # "new" =>
           stage'[q] # "new" /\ snapshot'[q] = snapshot[q]
  PROVE  Current(r, i)'
<1>1. Listing' = Listing /\ Files' = Files /\ Empty' = Empty
  BY ProjectStays DEF Empty
<1>2. \A v, w, f : SameInputs(f, v, w)' = SameInputs(f, v, w)
  BY DEF SameInputs, Direct, Includes
<1>3. \A v, f : Repair(Tidy(f, v))' = Repair(Tidy(f, v))
  <2>1. \A v, f : Tidy(f, v)' = Tidy(f, v)
    BY TidyStays
  <2>2. \A text : Repair(text)' = Repair(text)
    BY DEF Repair, Empty
  <2>3. QED
    BY <2>1, <2>2
<1>4. ASSUME NEW q \in Runs, stage[q] # "new",
             SameInputs(Listing[i], snapshot[q], snapshot[r]),
             report[r][i] = Repair(Tidy(Listing[i], snapshot[q]))
      PROVE  /\ stage'[q] # "new"
             /\ SameInputs(Listing[i], snapshot[q], snapshot[r])'
             /\ report'[r][i] = Repair(Tidy(Listing[i], snapshot[q]))'
  <2>1. stage'[q] # "new" /\ snapshot'[q] = snapshot[q]
    BY <1>4
  <2>2. PICK f, v, w : f = Listing[i] /\ v = snapshot[q] /\ w = snapshot[r]
    OBVIOUS
  <2>3. f = Listing'[i] /\ v = snapshot'[q] /\ w = snapshot'[r]
    BY <1>1, <2>1, <2>2
  <2>4. SameInputs(Listing[i], snapshot[q], snapshot[r])'
    BY <1>2, <1>4, <2>2, <2>3
  <2>5. Repair(Tidy(Listing[i], snapshot[q]))' = Repair(Tidy(Listing[i], snapshot[q]))
    BY <1>3, <2>2, <2>3
  <2>6. QED
    BY <1>4, <2>1, <2>4, <2>5
<1>5. Failed(report[r][i]) => Failed(report[r][i])'
  BY <1>1 DEF Failed, Repair, Unfinished, Empty
<1>6. NothingToSay(r, i) => NothingToSay(r, i)'
  BY <1>1 DEF NothingToSay
<1>7. QED
  BY <1>4, <1>5, <1>6 DEF Current

LEMMA ReadCurrent ==
  ASSUME IInv, undisturbed, HashesWhole, NEW r \in Runs, ReadResult(r)
  PROVE  \A i \in DOMAIN report'[r] : Current(r, i)'
<1> PICK n : n = Len(report[r])
  OBVIOUS
<1> DEFINE f == Listing[n + 1]
           name == PathFor(f, key[r][f])
<1>1. /\ stage[r] = "reporting" /\ n < Len(Listing)
      /\ report' = [report EXCEPT ![r] = Append(@, ContentOf(name))]
      /\ project' = project /\ snapshot' = snapshot /\ interrupted' = interrupted
  BY DEF ReadResult, texts
<1>2. report'[r] = Append(report[r], ContentOf(name))
  BY <1>1 DEF IInv, Types
<1> HIDE DEF f, name
<1>3. /\ n \in Nat /\ DOMAIN report[r] = 1 .. n /\ DOMAIN report'[r] = 1 .. n + 1
      /\ report'[r][n + 1] = ContentOf(name)
      /\ \A i \in 1 .. n : report'[r][i] = report[r][i]
  <2>1. report[r] \in Seq(Elements(report[r]))
    BY DEF IInv, Types
  <2>2. QED
    BY <1>2, <2>1, AppendElements
<1>4. f \in Files
  <2>1. Len(Listing) \in Nat /\ DOMAIN Listing = 1 .. Len(Listing)
        /\ \A i \in DOMAIN Listing : Listing[i] \in Files
    BY ProjectType DEF IInv, Types
  <2>2. n + 1 \in DOMAIN Listing
    BY <1>1, <1>3, <2>1
  <2>3. QED
    BY <2>1, <2>2 DEF f
<1>5. Stored
  BY WholeIsApart DEF IInv, Threaded
<1>6. \/ \E q \in Runs :
           /\ stage[q] # "new" /\ SameInputs(f, snapshot[q], snapshot[r])
           /\ ContentOf(name) = Repair(Tidy(f, snapshot[q]))
      \/ Failed(ContentOf(name))
      \/ (interrupted[r] \/ project.jobs[r] = {}) /\ ContentOf(name) = Empty
  <2>1. CASE Exists(name)
    <3>1. name \in Results
      BY <2>1 DEF Results, Exists, name, PathFor
    <3>2. PICK s \in Runs, g \in Files : IsResult(name, s, g)
      BY <1>5, <3>1 DEF Stored
    <3>3. key[r][f] = HashIn(snapshot[r], f) /\ key[s][g] = HashIn(snapshot[s], g)
      BY <1>1, <1>4, <3>2 DEF IInv, Threaded, Hashes, IsResult
    <3>4. PathFor(g, HashIn(snapshot[s], g)) = PathFor(f, HashIn(snapshot[r], f))
      BY <3>2, <3>3 DEF IsResult, name
    <3>5. g = f /\ SameInputs(g, snapshot[s], snapshot[r])
      BY <1>4, <3>4, NamesTell DEF IInv, Types
    <3>6. \/ ContentOf(name) = Repair(Tidy(g, snapshot[s]))
          \/ ContentOf(name) = Repair(Unfinished(g))
      BY <2>1, <3>2 DEF ContentOf, IsResult
    <3>7. QED
      BY <3>2, <3>5, <3>6 DEF IsResult, Failed
  <2>2. CASE ~ Exists(name)
    <3>1. ~ Uninterrupted(r)
      BY <1>1, <1>4, <2>2 DEF IInv, Threaded, Covered, name
    <3>2. QED
      BY <2>2, <3>1 DEF Uninterrupted, ContentOf
  <2>3. QED
    BY <2>1, <2>2
<1>7. \A q \in Runs : (stage[q] # "new" => stage'[q] # "new") /\ snapshot'[q] = snapshot[q]
  BY <1>1 DEF ReadResult
<1>8. ASSUME NEW i \in 1 .. n
      PROVE  Current(r, i)'
  <2>1. Current(r, i)
    BY <1>3 DEF IInv, ReportCurrent, Current
  <2>2. report'[r][i] = report[r][i]
    BY <1>3
  <2>3. QED
    BY <1>1, <1>7, <2>1, <2>2, CurrentStays
<1>9. Current(r, n + 1)'
  <2>1. /\ report'[r][n + 1] = ContentOf(name) /\ Listing' = Listing /\ Listing[n + 1] = f
        /\ Empty' = Empty /\ Files' = Files
    BY <1>1, <1>3, ProjectStays DEF f, Empty
  <2>2. ASSUME NEW q \in Runs, stage[q] # "new", SameInputs(f, snapshot[q], snapshot[r]),
               ContentOf(name) = Repair(Tidy(f, snapshot[q]))
        PROVE  Current(r, n + 1)'
    <3>1. SameInputs(Listing[n + 1], snapshot[q], snapshot[r])'
      BY <1>1, <1>7, <2>1, <2>2 DEF SameInputs, Direct, Includes
    <3>2. Repair(Tidy(Listing[n + 1], snapshot[q]))' = Repair(Tidy(f, snapshot[q]))
      <4>1. PICK v, g : v = snapshot[q] /\ g = f
        OBVIOUS
      <4>2. v = snapshot'[q] /\ g = Listing'[n + 1]
        BY <1>7, <2>1, <4>1
      <4>3. Tidy(g, v)' = Tidy(g, v)
        BY <1>1, TidyStays
      <4>4. \A text : Repair(text)' = Repair(text)
        BY DEF Repair, Empty
      <4>5. Repair(Tidy(g, v))' = Repair(Tidy(g, v))
        BY <4>3, <4>4
      <4>6. QED
        BY <4>1, <4>2, <4>5
    <3>3. QED
      BY <1>7, <2>1, <2>2, <3>1, <3>2 DEF Current
  <2>3. ASSUME Failed(ContentOf(name))
        PROVE  Failed(report[r][n + 1])'
    BY <2>1, <2>3 DEF Failed, Repair, Unfinished, Empty
  <2>4. ASSUME interrupted[r] \/ project.jobs[r] = {}, ContentOf(name) = Empty
        PROVE  NothingToSay(r, n + 1)'
    BY <1>1, <2>1, <2>4 DEF NothingToSay
  <2>5. QED
    BY <1>6, <2>2, <2>3, <2>4 DEF Current
<1>10. \A i \in 1 .. n + 1 : i \in 1 .. n \/ i = n + 1
  BY <1>3
<1>11. QED
  BY <1>3, <1>8, <1>9, <1>10

LEMMA NextReport == IInv /\ [Next]_vars => ReportCurrent'
<1> SUFFICES ASSUME IInv, [Next]_vars, undisturbed', HashesWhole',
                    NEW r \in Runs, NEW i \in DOMAIN report'[r]
             PROVE  Current(r, i)'
  BY DEF ReportCurrent, Current
<1>1. /\ project' = project /\ (undisturbed' => undisturbed)
      /\ \A s \in Runs : interrupted[s] => interrupted'[s]
  BY DEF Next, Worker, TakeWork, NoMoreWork, StartTool, ToolEnds, ToolFails, RemoveTmp, ReadOutput,
         OpenOutput, WriteOutput, Rename, RenameFails, BuildWorkList, Main, JoinWorkers,
         ReadResult, Exit, Interrupt, Kill, Edit, texts, main, vars, IInv, Types
<1>2. undisturbed /\ HashesWhole
  BY <1>1, ProjectStays DEF HashesWhole, Headers, Includes, BaseName, Text
<1>8. \A q \in Runs : stage[q] # "new" => stage'[q] # "new" /\ snapshot'[q] = snapshot[q]
  BY DEF Next, Worker, TakeWork, NoMoreWork, StartTool, ToolEnds, ToolFails, RemoveTmp,
         ReadOutput, OpenOutput, WriteOutput, Rename, RenameFails, BuildWorkList, Main,
         JoinWorkers, ReadResult, Exit, Interrupt, Kill, Edit, main, vars, IInv, Types, TypeOK
<1>3. CASE report'[r] = report[r] /\ snapshot'[r] = snapshot[r]
  <2>1. Current(r, i)
    BY <1>2, <1>3 DEF IInv, ReportCurrent, Current
  <2>2. QED
    BY <1>1, <1>3, <1>8, <2>1, CurrentStays
<1>4. CASE report'[r] = <<>>
  BY <1>4
<1>5. CASE ReadResult(r)
  BY <1>2, <1>5, ReadCurrent
<1>6. \/ report'[r] = report[r] /\ snapshot'[r] = snapshot[r]
      \/ report'[r] = <<>>
      \/ ReadResult(r)
  <2>1. CASE UNCHANGED vars
    BY <2>1 DEF vars, main
  <2>2. CASE \E t \in Threads : Worker(t)
    BY <2>2, WorkerFrame DEF IInv
  <2>3. CASE \E s \in Runs : BuildWorkList(s)
    <3>1. PICK s \in Runs : BuildWorkList(s)
      BY <2>3
    <3>2. CASE s = r
      BY <3>1, <3>2 DEF BuildWorkList, IInv, Threaded, Staged
    <3>3. CASE s # r
      BY <3>1, <3>3 DEF BuildWorkList, IInv, Types
    <3>4. QED
      BY <3>2, <3>3
  <2>4. CASE \E s \in Runs : Main(s) \/ Interrupt(s) \/ Kill(s)
    BY <2>4 DEF Main, JoinWorkers, ReadResult, Exit, Interrupt, Kill, IInv, Types
  <2>5. CASE \E f \in Files : Edit(f)
    BY <2>5 DEF Edit, main
  <2>6. QED
    BY <2>1, <2>2, <2>3, <2>4, <2>5 DEF Next
<1>7. QED
  BY <1>3, <1>4, <1>5, <1>6

-----------------------------------------------------------------------------
LEMMA Inductive ==
  /\ Init => IInv
  /\ IInv /\ [Next]_vars => IInv'
<1>1. ASSUME Init PROVE IInv
  <2>1. TypeOK /\ Types /\ Threaded
    BY <1>1, InitTypes, InitThreaded
  <2>2. Stored
    BY <1>1 DEF Init, Stored, Results, HasTmp
  <2>3. Agreed
    BY <1>1 DEF Init, Agreed, ToDo
  <2>4. ReportCurrent
    BY <1>1 DEF Init, ReportCurrent
  <2>5. QED
    BY <2>1, <2>2, <2>3, <2>4 DEF IInv
<1>2. ASSUME IInv, [Next]_vars PROVE IInv'
  <2>1. (TypeOK /\ Types)'
    BY <1>2, NextTypes DEF IInv
  <2>2. Threaded'
    BY <1>2, NextThreaded DEF IInv
  <2>3. (NamesApart => Stored)'
    BY <1>2, NextStored DEF IInv
  <2>4. Agreed'
    BY <1>2, NextAgreed DEF IInv
  <2>5. ReportCurrent'
    BY <1>2, NextReport
  <2>6. QED
    BY <2>1, <2>2, <2>3, <2>4, <2>5 DEF IInv
<1>3. QED
  BY <1>1, <1>2

LEMMA Invariant == Spec => []IInv
<1>1. Init => IInv
  BY Inductive
<1>2. IInv /\ [Next]_vars => IInv'
  BY Inductive
<1>3. QED
  BY <1>1, <1>2, PTL DEF Spec

(* The variables have their types, for whatever projects and invocations.  *)
THEOREM TypesAreRight == Spec => []TypeOK
<1>1. IInv => TypeOK
  BY DEF IInv
<1>2. QED
  BY <1>1, Invariant, PTL

(* No file is given to two threads of an invocation (the lock around       *)
(* front() and pop_front()).                                               *)
THEOREM NothingTwice == Spec => []WorkIsExclusive
<1>1. IInv => WorkIsExclusive
  <2>1. \A t \in Threads : Busy(t) => AtWork(t)
    BY DEF Busy, AtWork
  <2>2. QED
    BY <2>1 DEF IInv, Threaded, Exclusive, Queued, WorkIsExclusive
<1>2. QED
  BY <1>1, Invariant, PTL

(* Nothing temporary is left behind by an invocation that comes to its     *)
(* report, after Ctrl-C too.                                               *)
THEOREM LeavesNothing == Spec => []NoLitter
<1>1. IInv => NoLitter
  <2> SUFFICES ASSUME IInv, NEW r \in Runs, stage[r] \in {"reporting", "done"},
                      NEW name \in DOMAIN directory, name.tmp = {r}
               PROVE  FALSE
    BY DEF NoLitter
  <2>1. PICK t \in Threads : HasTmp(t) /\ name = Tmp(t)
    BY DEF IInv, Threaded, TmpOfThreads
  <2>2. t[1] = r
    BY <2>1, TmpName
  <2>3. QED
    BY <2>1, <2>2 DEF IInv, Threaded, Staged, HasTmp, AtWork
<1>2. QED
  BY <1>1, Invariant, PTL

(* What is in the store under a final name is whole, whatever signals      *)
(* there are, if no two files of an invocation have one name there.        *)
THEOREM ResultsAreWhole == Spec => []StoredIsWholeIfApart
<1>1. IInv => StoredIsWholeIfApart
  <2> SUFFICES ASSUME IInv, NamesApart, NEW name \in Results
               PROVE  ContentOf(name).filtered /\ ContentOf(name).whole
    BY DEF StoredIsWholeIfApart, StoredIsWhole
  <2>1. PICK r \in Runs, f \in Files : IsResult(name, r, f)
    BY DEF IInv, Stored
  <2>2. \/ \E v \in [Files -> Versions] : ContentOf(name) = Repair(Tidy(f, v))
        \/ ContentOf(name) = Repair(Unfinished(f))
    BY <2>1 DEF IsResult, Results, ContentOf, Exists
  <2>3. \A v : Repair(Tidy(f, v)).filtered /\ Repair(Tidy(f, v)).whole
    BY DEF Repair, Tidy, Empty
  <2>4. Repair(Unfinished(f)).filtered /\ Repair(Unfinished(f)).whole
    BY DEF Repair, Unfinished, Empty
  <2>5. QED
    BY <2>2, <2>3, <2>4
<1>2. QED
  BY <1>1, Invariant, PTL

(* Reports are of the texts, of a file and of what it includes itself,     *)
(* that were there when the invocation began, unless clang-tidy failed.    *)
THEOREM ReportsAreCurrent == Spec => []ReportCurrent
<1>1. IInv => ReportCurrent
  BY DEF IInv
<1>2. QED
  BY <1>1, Invariant, PTL

(* Where no header includes another one, reports are all that the comment  *)
(* on the hash promises.                                                   *)
NothingNested == \A f \in Files : ReadBy(f) \subseteq {f} \cup Direct(f)

THEOREM ReportsAreRevisited == Spec => [](NothingNested => ReportRevisited)
<1>1. IInv => (NothingNested => ReportRevisited)
  <2> SUFFICES ASSUME IInv, NothingNested, undisturbed, HashesWhole,
                      NEW r \in Runs, NEW i \in DOMAIN report[r],
                      NEW q \in Runs, SameInputs(Listing[i], snapshot[q], snapshot[r])
               PROVE  Tidy(Listing[i], snapshot[q]) = Tidy(Listing[i], snapshot[r])
    BY DEF IInv, ReportCurrent, ReportRevisited
  <2>1. Listing[i] \in Files
    <3>1. report[r] \in Seq(Elements(report[r])) /\ Len(report[r]) <= Len(Listing)
      BY DEF IInv, Types, TypeOK
    <3>2. Len(report[r]) \in Nat /\ DOMAIN report[r] = 1 .. Len(report[r])
      BY <3>1, LenProperties
    <3>3. /\ Len(Listing) \in Nat /\ DOMAIN Listing = 1 .. Len(Listing)
          /\ \A k \in DOMAIN Listing : Listing[k] \in Files
      BY ProjectType DEF IInv, Types
    <3>4. i \in DOMAIN Listing
      BY <3>1, <3>2, <3>3
    <3>5. QED
      BY <3>3, <3>4
  <2>2. \A g \in ReadBy(Listing[i]) : snapshot[q][g] = snapshot[r][g]
    BY <2>1 DEF NothingNested, SameInputs
  <2>3. QED
    BY <2>2 DEF Tidy, ContentIn
<1>2. QED
  BY <1>1, Invariant, PTL

(* What is in the store stays there as it is, unless clang-tidy fails.     *)
THEOREM ResultsAreForGood == Spec => StoredForGood
<1> DEFINE Kept == undisturbed /\ HashesWhole => \A name \in Results :
                     /\ Exists(name)'
                     /\ \/ ContentOf(name)' = ContentOf(name)
                        \/ Failed(ContentOf(name)) \/ Failed(ContentOf(name))'
           Same(name) == \/ ContentOf(name)' = ContentOf(name)
                         \/ Failed(ContentOf(name)) \/ Failed(ContentOf(name))'
<1>1. ASSUME IInv, IInv', [Next]_vars PROVE [Kept]_vars
  <2> SUFFICES ASSUME undisturbed, HashesWhole, NEW name \in Results, ~ UNCHANGED vars
               PROVE  Exists(name)' /\ Same(name)
    OBVIOUS
  <2>1. CASE directory' = directory /\ bytes' = bytes
    BY <2>1 DEF Exists, ContentOf, Results, Empty
  <2>2. ASSUME NEW t \in Threads, Worker(t)
        PROVE  Exists(name)' /\ Same(name)
    <3>1. Apart
      BY <1>1, WholeIsApart DEF IInv, Threaded, Apart
    <3>2. PICK r \in Runs, f \in Files : IsResult(name, r, f)
      BY <3>1 DEF Apart, Stored
    <3>3. name \in DOMAIN directory
      BY DEF Results
    <3>4. CASE name # Final(t) \/ ~ Rename(t)
      BY <1>1, <2>2, <3>1, <3>2, <3>3, <3>4, ResultBytes DEF IInv, Exists, ContentOf
    <3>5. CASE name = Final(t) /\ Rename(t)
      <4>1. /\ t[1] \in Runs /\ item[t] \in Files /\ stage[t[1]] = "working"
            /\ WorkedOn(t[1], item[t])
        BY <1>1, <3>5 DEF IInv, TypeOK, Threads, Rename, At, AtWork, WorkedOn
      <4>2. ContentOf(name) \in SaidOf(item[t])
        BY <1>1, <3>3, <3>5, <4>1 DEF IInv, Agreed, ToDo, Exists, Final
      <4>3. ContentOf(Final(t))' \in SaidOf(item[t]) /\ Exists(Final(t))'
        BY <1>1, <3>1, <3>5, Renamed DEF IInv
      <4>4. Final(t)' = name
        <5>1. ~ TakeWork(t)
          BY <3>5 DEF Rename, TakeWork, At
        <5>2. QED
          BY <1>1, <2>2, <3>5, <5>1, NamesStay DEF IInv
      <4>5. ContentOf(name)' \in SaidOf(item[t]) /\ Exists(name)'
        BY <4>3, <4>4 DEF ContentOf, Exists
      <4>6. Files' = Files /\ \A g : Repair(Unfinished(g))' = Repair(Unfinished(g))
        BY <1>1, <2>2, WorkerFrame DEF IInv, Repair, Unfinished, Empty
      <4>7. \/ ContentOf(name)' = ContentOf(name)
            \/ ContentOf(name) = Repair(Unfinished(item[t]))
            \/ ContentOf(name)' = Repair(Unfinished(item[t]))
        BY <4>2, <4>5 DEF SaidOf
      <4>8. Same(name)
        BY <4>1, <4>6, <4>7 DEF Failed
      <4>9. QED
        BY <4>5, <4>8
    <3>6. QED
      BY <3>4, <3>5
  <2>3. \/ directory' = directory /\ bytes' = bytes
        \/ \E t \in Threads : Worker(t)
    BY <1>1 DEF Next, BuildWorkList, Main, JoinWorkers, ReadResult, Exit, Interrupt, Kill,
                Edit, store, vars
  <2>4. QED
    BY <2>1, <2>2, <2>3
<1>2. QED
  BY <1>1, Invariant, PTL DEF Spec, StoredForGood
=============================================================================
