--------------------------- MODULE ClangTidyCache ---------------------------
(***************************************************************************)
(* scripts/run-clang-tidy-cached.cc: clang-tidy is run on the files of a   *)
(* project by several threads, and its output is kept in a store, under a  *)
(* name made of the file's name and a hash of what the file and its        *)
(* headers contain.  Several invocations may share the store.              *)
(*                                                                         *)
(* Hashes are xored, so that a hash is the set of the contents that were   *)
(* hashed into it an odd number of times: hashes are equal only when xor   *)
(* makes them so.                                                          *)
(* Every file has complaints, so an empty output is a lost one.            *)
(*                                                                         *)
(* The store is a directory of names bound to inodes, because writers keep *)
(* an inode open while its name is removed, replaced or truncated.         *)
(***************************************************************************)
EXTENDS Integers, Sequences, FiniteSets, Functions

CONSTANTS
  Projects,       (* what the runs may work on, each a record of            *)
                  (* listing: the files of interest, in the order of the    *)
                  (*   directory                                            *)
                  (* headers: those with the extension of an include file   *)
                  (* basename: file -> name without directory               *)
                  (* includes: file -> sequence of the files it includes    *)
                  (* text: file -> text; duplicates have the same one       *)
                  (* jobs: run -> the threads it has, CLANG_TIDY_JOBS, or   *)
                  (*   as many as the hardware says, which may be none      *)
                  (* max_edits, max_signals: bounds on edits, and on        *)
                  (*   interruptions, kills and tools that fail             *)
  Runs,           (* the invocations, each with a process id of its own     *)
  Workers,        (* the threads that an invocation may have                *)
  Versions        (* versions of a text between which edits switch          *)

Threads == Runs \X Workers

ASSUME ProjectAssumption ==
  \A p \in Projects :
    /\ p.listing \in Seq(Range(p.listing)) /\ p.listing # <<>>
    /\ \A i, j \in DOMAIN p.listing : p.listing[i] = p.listing[j] => i = j
    /\ p.headers \subseteq Range(p.listing)
    /\ \A f \in Range(p.listing) : p.includes[f] \in Seq(Range(p.listing))
    /\ DOMAIN p.jobs \subseteq Runs
    /\ \A r \in DOMAIN p.jobs : p.jobs[r] \subseteq Workers
    /\ p.max_edits \in Nat /\ p.max_signals \in Nat

ASSUME VersionsAssumption == 0 \in Versions

VARIABLES
  project,
  version,        (* file -> version of its text                            *)
  undisturbed,    (* whether all edits were made between runs (history)     *)
  edits, signals, (* how often files were edited, runs or tools interrupted *)
  directory,      (* name -> inode                                          *)
  bytes,          (* inode -> what has been written to it                   *)
  stage,          (* run -> where main() is                                 *)
  interrupted,    (* run -> whether it got a Ctrl-C (history)               *)
  snapshot,       (* run -> the contents that were hashed (history)         *)
  key,            (* run -> file -> hash, files_of_interest_                *)
  queue,          (* run -> work_queue: places in the listing, in order     *)
  report,         (* run -> results read back, in the order of Listing      *)
  pc, item,       (* thread -> its next step, and the file it works on      *)
  fd, buffer      (* thread -> inode it has open, text it has read          *)

texts == <<project, version, undisturbed, edits>>
store == <<directory, bytes>>
main == <<stage, interrupted, snapshot, key, report>>
locals == <<item, fd, buffer>>
vars == <<texts, signals, store, main, queue, pc, locals>>

-----------------------------------------------------------------------------
Listing == project.listing
Files == Range(Listing)
Headers == project.headers
BaseName == project.basename
Includes == project.includes
Text == project.text

(* What a file includes, and what it reads: all that its headers include   *)
(* as well, the smallest set with all that its files include.              *)
Direct(f) == {Includes[f][i] : i \in DOMAIN Includes[f]}

ReadBy(f) ==
  {g \in Files : \A read \in SUBSET Files :
     f \in read /\ (\A h \in read : Direct(h) \subseteq read) => g \in read}

(* Hashes and names.                                                       *)

ContentIn(versions, f) == <<Text[f], versions[f]>>
Content(f) == ContentIn(version, f)

(* Bug: headers do not count.                                              *)
FileHash(f) == {Content(f)}

(* What is hashed of a file: the file, and for each of its includes all    *)
(* headers of that name, whatever their directory (header_hashes).         *)
Hashed(f) ==
  {<<0, f>>} \cup
  {x \in (DOMAIN Includes[f]) \X Headers : BaseName[x[2]] = BaseName[Includes[f][x[1]]]}

HashIn(versions, f) ==
  {content \in {ContentIn(versions, x[2]) : x \in Hashed(f)} :
     Cardinality({x \in Hashed(f) : ContentIn(versions, x[2]) = content}) % 2 = 1}

ContentHash(f) == HashIn(version, f)

PathFor(f, hash) == [name |-> BaseName[f], hash |-> hash, tmp |-> {}]

(* Bug: nothing tells the temporary files of two invocations apart.        *)
TmpShared(r, f, hash) == [PathFor(f, hash) EXCEPT !.tmp = {"tmp"}]

TmpOut(r, f, hash) == [PathFor(f, hash) EXCEPT !.tmp = {r}]

Exists(name) == name \in DOMAIN directory

-----------------------------------------------------------------------------
(* Texts in the store.                                                     *)

Empty == [seen |-> <<>>, filtered |-> FALSE, whole |-> FALSE]
Garbled == [seen |-> <<>>, filtered |-> TRUE, whole |-> FALSE]

(* What clang-tidy says of a file: of the contents of all that it reads.   *)
Tidy(f, versions) ==
  [seen |-> <<f, [g \in ReadBy(f) |-> ContentIn(versions, g)]>>,
   filtered |-> FALSE, whole |-> TRUE]

(* What one that failed has written by then, maybe nothing.                *)
Unfinished(f) == [seen |-> <<f>>, filtered |-> FALSE, whole |-> TRUE]

(* RepairFilenameOccurences and FilterCheckLines.                          *)
Repair(text) == IF text = Empty THEN Empty ELSE [text EXCEPT !.filtered = TRUE]

ContentOf(name) == IF Exists(name) THEN bytes[directory[name]] ELSE Empty

Bind(map, k, v) == [j \in DOMAIN map \cup {k} |-> IF j = k THEN v ELSE map[j]]
Unbind(map, k) == [j \in DOMAIN map \ {k} |-> map[j]]

(* Bug: the descriptor is not kept.                                        *)
OpenUnkept(t, name, fresh) ==
  LET inode == IF Exists(name) THEN directory[name] ELSE fresh
  IN /\ directory' = Bind(directory, name, inode)
     /\ bytes' = Bind(bytes, inode, Empty)
     /\ UNCHANGED fd

(* Thread t opens a file for writing: an existing one is truncated.        *)
Open(t, name, fresh) ==
  LET inode == IF Exists(name) THEN directory[name] ELSE fresh
  IN /\ directory' = Bind(directory, name, inode)
     /\ bytes' = Bind(bytes, inode, Empty)
     /\ fd' = [fd EXCEPT ![t] = inode]

(* It writes from the start of the file it has open, maybe over a text     *)
(* that another thread has written there meanwhile.                        *)
WriteTo(inode, text) ==
  bytes' = [bytes EXCEPT ![inode] = IF @ \in {Empty, text} THEN text ELSE Garbled]

-----------------------------------------------------------------------------
Init ==
  /\ project \in Projects
  /\ version = [f \in Files |-> 0] /\ undisturbed = TRUE
  /\ edits = 0 /\ signals = 0
  /\ directory = <<>> /\ bytes = <<>>
  /\ stage = [r \in Runs |-> "new"]
  /\ interrupted = [r \in Runs |-> FALSE]
  /\ snapshot = [r \in Runs |-> version]
  /\ key = [r \in Runs |-> [f \in Files |-> {}]]
  /\ queue = [r \in Runs |-> {}]
  /\ report = [r \in Runs |-> <<>>]
  /\ pc = [t \in Threads |->
             IF t[1] \in DOMAIN project.jobs /\ t[2] \in project.jobs[t[1]]
             THEN "ready" ELSE "ended"]
  /\ item = [t \in Threads |-> Listing[1]]
  /\ fd = [t \in Threads |-> <<>>]
  /\ buffer = [t \in Threads |-> Empty]

Active(r) == stage[r] \in {"working", "reporting"}

(* A developer changes a file, or takes a change back.                     *)
Edit(f) ==
  /\ edits < project.max_edits
  /\ \E v \in Versions \ {version[f]} : version' = [version EXCEPT ![f] = v]
  /\ undisturbed' = (undisturbed /\ \A r \in Runs : ~ Active(r))
  /\ edits' = edits + 1
  /\ UNCHANGED <<project, signals, store, main, queue, pc, locals>>

(* BuildWorkList: all files are hashed; those without a result are queued. *)
(* Nothing is queued: RunClangTidyOn returns at once.                      *)
BuildWorkList(r) ==
  /\ stage[r] = "new"
  /\ r \in DOMAIN project.jobs
  /\ key' = [key EXCEPT ![r] = [f \in Files |-> ContentHash(f)]]
  /\ snapshot' = [snapshot EXCEPT ![r] = version]
  /\ queue' = [queue EXCEPT ![r] =
       {i \in DOMAIN Listing : ~ Exists(PathFor(Listing[i], key'[r][Listing[i]]))}]
  /\ stage' = [stage EXCEPT ![r] =
       IF queue'[r] = {} THEN "reporting" ELSE "working"]
  /\ UNCHANGED <<texts, signals, store, interrupted, report, pc, locals>>

-----------------------------------------------------------------------------
(* A thread, clang_tidy_runner.                                            *)

At(t, label) == stage[t[1]] = "working" /\ pc[t] = label
Goto(t, label) == pc' = [pc EXCEPT ![t] = label]
Tmp(t) == TmpOut(t[1], item[t], key[t[1]][item[t]])
Final(t) == PathFor(item[t], key[t[1]][item[t]])

(* Bug: what is removed from the queue is not what was taken.              *)
TakeFrontPopBack(t) ==
  /\ At(t, "ready")
  /\ \E i, last \in queue[t[1]] :
       /\ \A j \in queue[t[1]] : i <= j /\ j <= last
       /\ item' = [item EXCEPT ![t] = Listing[i]]
       /\ queue' = [queue EXCEPT ![t[1]] = @ \ {last}]
  /\ Goto(t, "start")
  /\ UNCHANGED <<texts, signals, store, main, fd, buffer>>

(* Under the lock: front() and pop_front().                                *)
TakeWork(t) ==
  /\ At(t, "ready")
  /\ \E i \in queue[t[1]] :
       /\ \A j \in queue[t[1]] : i <= j
       /\ item' = [item EXCEPT ![t] = Listing[i]]
       /\ queue' = [queue EXCEPT ![t[1]] = @ \ {i}]
  /\ Goto(t, "start")
  /\ UNCHANGED <<texts, signals, store, main, fd, buffer>>

(* Bug: the first thread to find the queue empty ends, the others wait.    *)
NoMoreWorkOnce(t) ==
  /\ At(t, "ready")
  /\ queue[t[1]] = {}
  /\ \A w \in Workers : pc[<<t[1], w>>] # "ended"
  /\ Goto(t, "ended")
  /\ UNCHANGED <<texts, signals, store, main, queue, locals>>

NoMoreWork(t) ==
  /\ At(t, "ready")
  /\ queue[t[1]] = {}
  /\ Goto(t, "ended")
  /\ UNCHANGED <<texts, signals, store, main, queue, locals>>

(* system(): the shell opens the temporary file and starts clang-tidy.     *)
StartTool(t) ==
  /\ At(t, "start")
  /\ Open(t, Tmp(t), <<t[1], item[t], "shell">>)
  /\ Goto(t, "tool")
  /\ UNCHANGED <<texts, signals, main, queue, item, buffer>>

(* clang-tidy reads the files as they are now and writes.  It is a process *)
(* of its own and survives the run that started it.                        *)
ToolEnds(t) ==
  /\ pc[t] = "tool"
  /\ WriteTo(fd[t], Tidy(item[t], version))
  /\ Goto(t, "read")
  /\ UNCHANGED <<texts, signals, directory, main, queue, locals>>

(* It fails, or a signal other than Ctrl-C ends it: what it has written is *)
(* taken for its output.                                                   *)
ToolFails(t) ==
  /\ pc[t] = "tool"
  /\ signals < project.max_signals
  /\ WriteTo(fd[t], Unfinished(item[t]))
  /\ Goto(t, "read")
  /\ signals' = signals + 1
  /\ UNCHANGED <<texts, directory, main, queue, locals>>

(* Bug: after Ctrl-C the thread ends at once.                              *)
LeaveTmp(t) ==
  /\ At(t, "interrupted")
  /\ Goto(t, "ended")
  /\ UNCHANGED <<texts, signals, store, main, queue, locals>>

(* Bug: nobody looks how the tool ended.                                   *)
KeepTmp(t) ==
  /\ At(t, "interrupted")
  /\ Goto(t, "read")
  /\ UNCHANGED <<texts, signals, store, main, queue, locals>>

(* The tool was ended by Ctrl-C: what it has written is removed.           *)
RemoveTmp(t) ==
  /\ At(t, "interrupted")
  /\ directory' = Unbind(directory, Tmp(t))
  /\ Goto(t, "ended")
  /\ UNCHANGED <<texts, signals, bytes, main, queue, locals>>

(* RepairFilenameOccurences: the output is read, then the file is opened   *)
(* again and the repaired output is written.                               *)
ReadOutput(t) ==
  /\ At(t, "read")
  /\ buffer' = [buffer EXCEPT ![t] = ContentOf(Tmp(t))]
  /\ Goto(t, "open")
  /\ UNCHANGED <<texts, signals, store, main, queue, item, fd>>

OpenOutput(t) ==
  /\ At(t, "open")
  /\ Open(t, Tmp(t), <<t[1], item[t], "repair">>)
  /\ Goto(t, "write")
  /\ UNCHANGED <<texts, signals, main, queue, item, buffer>>

WriteOutput(t) ==
  /\ At(t, "write")
  /\ WriteTo(fd[t], Repair(buffer[t]))
  /\ Goto(t, "rename")
  /\ UNCHANGED <<texts, signals, directory, main, queue, locals>>

(* fs::rename puts the result in place at once.                            *)
Rename(t) ==
  /\ At(t, "rename")
  /\ Exists(Tmp(t))
  /\ directory' = Unbind(Bind(directory, Final(t), directory[Tmp(t)]), Tmp(t))
  /\ Goto(t, "ready")
  /\ UNCHANGED <<texts, signals, bytes, main, queue, locals>>

(* Nothing is there to rename: the exception ends the process.             *)
RenameFails(t) ==
  /\ At(t, "rename")
  /\ ~ Exists(Tmp(t))
  /\ stage' = [stage EXCEPT ![t[1]] = "aborted"]
  /\ UNCHANGED <<texts, signals, store, interrupted, snapshot, key, report,
                 queue, pc, locals>>

-----------------------------------------------------------------------------
(* The main thread, and the reader of the results.                         *)

JoinWorkers(r) ==
  /\ stage[r] = "working"
  /\ \A w \in Workers : pc[<<r, w>>] = "ended"
  /\ stage' = [stage EXCEPT ![r] = "reporting"]
  /\ UNCHANGED <<texts, signals, store, interrupted, snapshot, key, report,
                 queue, pc, locals>>

(* CreateReport, one file.                                                 *)
ReadResult(r) ==
  /\ stage[r] = "reporting"
  /\ Len(report[r]) < Len(Listing)
  /\ \E f \in {Listing[Len(report[r]) + 1]} :
       report' = [report EXCEPT ![r] = Append(@, ContentOf(PathFor(f, key[r][f])))]
  /\ UNCHANGED <<texts, signals, store, stage, interrupted, snapshot, key,
                 queue, pc, locals>>

Exit(r) ==
  /\ stage[r] = "reporting"
  /\ Len(report[r]) = Len(Listing)
  /\ stage' = [stage EXCEPT ![r] = "done"]
  /\ UNCHANGED <<texts, signals, store, interrupted, snapshot, key, report,
                 queue, pc, locals>>

(* Ctrl-C while some thread waits in system(), which has the process       *)
(* ignore it: the tools are ended, having written nothing.                 *)
Interrupt(r) ==
  /\ signals < project.max_signals
  /\ stage[r] = "working"
  /\ \E w \in Workers : pc[<<r, w>>] = "tool"
  /\ pc' = [t \in Threads |->
              IF t[1] = r /\ pc[t] = "tool" THEN "interrupted" ELSE pc[t]]
  /\ interrupted' = [interrupted EXCEPT ![r] = TRUE]
  /\ signals' = signals + 1
  /\ UNCHANGED <<texts, store, stage, snapshot, key, report, queue, locals>>

(* The process is ended from outside, or by Ctrl-C at another time.        *)
Kill(r) ==
  /\ signals < project.max_signals
  /\ Active(r)
  /\ stage' = [stage EXCEPT ![r] = "killed"]
  /\ signals' = signals + 1
  /\ UNCHANGED <<texts, store, interrupted, snapshot, key, report, queue, pc,
                 locals>>

-----------------------------------------------------------------------------
Worker(t) ==
  \/ TakeWork(t) \/ NoMoreWork(t)
  \/ StartTool(t) \/ ToolEnds(t) \/ ToolFails(t) \/ RemoveTmp(t)
  \/ ReadOutput(t) \/ OpenOutput(t) \/ WriteOutput(t)
  \/ Rename(t) \/ RenameFails(t)

Main(r) == JoinWorkers(r) \/ ReadResult(r) \/ Exit(r)

Next ==
  \/ \E t \in Threads : Worker(t)
  \/ \E r \in Runs : BuildWorkList(r) \/ Main(r) \/ Interrupt(r) \/ Kill(r)
  \/ \E f \in Files : Edit(f)

(* Threads are scheduled and clang-tidy ends.  Nobody has to start a run,  *)
(* to edit a file or to press Ctrl-C.                                      *)
Spec ==
  /\ Init /\ [][Next]_vars
  /\ \A t \in Threads : WF_vars(Worker(t))
  /\ \A r \in Runs : WF_vars(Main(r))

-----------------------------------------------------------------------------
Results == {name \in DOMAIN directory : name.tmp = {}}

TypeOK ==
  /\ version \in [Files -> Versions]
  /\ edits \in 0 .. project.max_edits /\ signals \in 0 .. project.max_signals
  /\ \A name \in DOMAIN directory :
       name.tmp \subseteq Runs /\ directory[name] \in DOMAIN bytes
  /\ stage \in [Runs -> {"new", "working", "reporting", "done", "killed", "aborted"}]
  /\ \A r \in Runs : queue[r] \subseteq DOMAIN Listing /\ Len(report[r]) <= Len(Listing)
  /\ item \in [Threads -> Files]
  /\ \A t \in Threads : pc[t] \in {"tool", "write"} => fd[t] \in DOMAIN bytes

(* Whoever reads a result reads all that one clang-tidy has written before *)
(* it ended or failed, repaired, although other invocations work on the    *)
(* same files, get Ctrl-C or are killed at any point: what the temporary   *)
(* file and the rename are for.                                            *)
StoredIsWhole ==
  \A name \in Results : ContentOf(name).filtered /\ ContentOf(name).whole

(* No two files have one name in the store in the same invocation.         *)
NamesApart ==
  \A r \in Runs : stage[r] # "new" =>
    \A f, g \in Files : PathFor(f, key[r][f]) = PathFor(g, key[r][g]) => f = g

(* So it is where no two files of one invocation share a temporary file.   *)
StoredIsWholeIfApart == NamesApart => StoredIsWhole

(* No file is worked on by two threads of an invocation, and none that a   *)
(* thread works on is still queued.                                        *)
Busy(t) == stage[t[1]] = "working" /\ pc[t] \notin {"ready", "ended"}

WorkIsExclusive ==
  \A t \in Threads : Busy(t) =>
    /\ \A i \in queue[t[1]] : item[t] # Listing[i]
    /\ \A u \in Threads \ {t} : u[1] = t[1] /\ Busy(u) => item[u] # item[t]

(* An invocation that comes to its report has removed or renamed all of    *)
(* its temporary files, after Ctrl-C too.                                  *)
NoLitter ==
  \A r \in Runs : stage[r] \in {"reporting", "done"} =>
    \A name \in DOMAIN directory : name.tmp # {r}

(* Every invocation that is not killed comes to its end.                   *)
Finishes ==
  \A r \in Runs : stage[r] = "working" ~> stage[r] \in {"done", "killed", "aborted"}

(* Nothing cancels out: all files have texts of their own, and what a file *)
(* includes are headers, each of another name, which is not the file's.    *)
HashesWhole ==
  /\ \A f, g \in Files : Text[f] = Text[g] => f = g
  /\ \A f \in Files : \A i \in DOMAIN Includes[f] :
       /\ Includes[f][i] \in Headers
       /\ BaseName[Includes[f][i]] # BaseName[f]
       /\ \A j \in DOMAIN Includes[f] :
            BaseName[Includes[f][i]] = BaseName[Includes[f][j]] => i = j

(* The file and its own includes have the same texts.                      *)
SameInputs(f, v, w) == \A g \in {f} \cup Direct(f) : v[g] = w[g]

(* Nothing to report of a file: only an invocation that got Ctrl-C, or has *)
(* no threads.                                                             *)
NothingToSay(r, i) ==
  (interrupted[r] \/ project.jobs[r] = {}) /\ report[r][i] = Empty

Failed(text) == \E f \in Files : text = Repair(Unfinished(f))

(* What an invocation reports of a file, found in the store or not, is     *)
(* what clang-tidy said of it in an invocation that began with the same    *)
(* texts of the file and of all that it includes itself, unless that       *)
(* clang-tidy failed.  Edits while an invocation hashes and tidies are its *)
(* user's risk.                                                            *)
ReportCurrent ==
  undisturbed /\ HashesWhole => \A r \in Runs : \A i \in DOMAIN report[r] :
    \/ \E q \in Runs :
         /\ stage[q] # "new"
         /\ SameInputs(Listing[i], snapshot[q], snapshot[r])
         /\ report[r][i] = Repair(Tidy(Listing[i], snapshot[q]))
    \/ Failed(report[r][i])
    \/ NothingToSay(r, i)

(* "Revisit a source file if any of its include files changed content"     *)
(* (revisit_if_any_include_changes): what is reported of a file is what    *)
(* clang-tidy says of all that the file read when the invocation began.    *)
ReportRevisited ==
  undisturbed /\ HashesWhole => \A r \in Runs : \A i \in DOMAIN report[r] :
    \/ report[r][i] = Repair(Tidy(Listing[i], snapshot[r]))
    \/ Failed(report[r][i])
    \/ NothingToSay(r, i)

(* A result is never changed: two invocations that produce the same one    *)
(* agree about it unless clang-tidy fails, and edits lead to results of    *)
(* other names.                                                            *)
StoredForGood ==
  [][undisturbed /\ HashesWhole => \A name \in Results :
       /\ Exists(name)'
       /\ \/ ContentOf(name)' = ContentOf(name)
          \/ Failed(ContentOf(name)) \/ Failed(ContentOf(name))']_vars
=============================================================================
