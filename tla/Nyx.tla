-------------------------------- MODULE Nyx --------------------------------
(***************************************************************************)
(* Nyx, the snapshots of templates (pkg/nyx/local_manager.go).  Olympus    *)
(* and every agent hold a LocalManager of their own: a cache in memory and *)
(* a directory of files.  All share the store of Erebus, which keeps the   *)
(* parts of a snapshot and, per template, the pointer "latest" (one        *)
(* template here).  Calls of one manager exclude each other by its mutex,  *)
(* except for the read-through of GetSnapshot, which looks at the          *)
(* directory and downloads without it; calls of two managers meet in the   *)
(* store only.                                                             *)
(***************************************************************************)
EXTENDS Integers, Sequences, FiniteSets, Functions

CONSTANTS Managers,    \* the processes with a LocalManager
          Callers      \* the goroutines that call them

VARIABLES store,       \* parts of snapshots in Erebus: pairs of an ID and a part
          latest,      \* the pointer "latest", 0 when there is none
          files,       \* files[m][i][p]: the copy in the directory of m
          byTemplate,  \* byTemplate[m]: the cache, a sequence of snapshots
          lock,        \* lock[m]: the caller that holds the mutex
          nyxCall,     \* nyxCall[c]: the call of c
          made,        \* snapshot IDs given out so far
          spent,       \* calls begun and failures so far
          torn,        \* history: pairs <<m, i>> a failed copy left half written
          deleted      \* history: snapshots whose deletion has begun

nyxVars == <<store, latest, files, byTemplate, lock, nyxCall, made, spent, torn, deleted>>

NoCaller == "nobody"
Part == {"mem", "disk", "json"}
Answered(res, i) == [op |-> "none", m |-> "none", todo |-> <<>>, id |-> i, known |-> TRUE, res |-> res]
NoCall == Answered("none", 0)

(* A snapshot of the cache: where its files are, and whether its ID is set *)
(* (a snapshot whose metadata could not be fetched has an empty one).      *)
Cached(i, known) == [path |-> i, known |-> known]

(* NewLocalManager: the cache of a new process is empty.  The directory    *)
(* may hold what an earlier process left.                                  *)
NyxInit(Snaps) ==
  /\ store = {}
  /\ latest = 0
  /\ files = [m \in Managers |-> [i \in Snaps |-> [p \in Part |-> "none"]]]
  /\ byTemplate = [m \in Managers |-> <<>>]
  /\ lock = [m \in Managers |-> NoCaller]
  /\ nyxCall = [c \in Callers |-> NoCall]
  /\ made = 0
  /\ spent = [calls |-> 0, faults |-> 0]
  /\ torn = {}
  /\ deleted = {}

-----------------------------------------------------------------------------
(* Calls.  A call that holds the mutex works through a list of things to   *)
(* do, one file or blob at a time; the first failure ends it.              *)

Do(act, i) == [act |-> act, id |-> i]
Acts(acts, i) == [k \in 1..Len(acts) |-> Do(acts[k], i)]

(* Mutant: the pointer is moved before the metadata is there. *)
MutPreparePlan(i) ==
  Acts(<<"build", "put_mem", "put_disk", "point", "put_json", "copy_mem", "copy_disk", "copy_json", "add">>, i)

(* Prepare: a VM of the template is started, paused and snapshotted, the   *)
(* parts and then the pointer go to the store, and the files are kept.     *)
PreparePlan(i) ==
  Acts(<<"build", "put_mem", "put_disk", "put_json", "point", "copy_mem", "copy_disk", "copy_json", "add">>, i)

(* SaveSnapshot: a snapshot taken of a sandbox.  The pointer stays, but    *)
(* the snapshot becomes the last one of the cache.                         *)
SavePlan(i) ==
  Acts(<<"put_mem", "put_disk", "copy_mem", "copy_disk", "put_json", "copy_json", "add">>, i)

(* DeleteSnapshot: out of the cache, the store and the directory.  The     *)
(* pointer may still name it.                                              *)
DeletePlan(i) == Acts(<<"drop", "erase_mem", "erase_disk", "erase_json", "remove">>, i)

(* Invalidate: every snapshot of the cache in turn, then the pointer.  One *)
(* without an ID (0 here) names no blob and no file, and is tried as well. *)
InvalidatePlan(m) ==
  LET cache == byTemplate[m]
      erasure == <<"erase_mem", "erase_disk", "erase_json", "remove">>
      Id(e) == IF e.known THEN e.path ELSE 0
  IN  [k \in 1..(4 * Len(cache) + 2) |->
         CASE k <= 4 * Len(cache) -> Do(erasure[((k - 1) % 4) + 1], Id(cache[((k - 1) \div 4) + 1]))
           [] k = 4 * Len(cache) + 1 -> Do("unpoint", 0)
           [] OTHER -> Do("clear", 0)]

DownloadPlan(i) == Acts(<<"get_mem", "get_disk", "get_json", "add">>, i)

(* The failure of a call to the store, the file system or the VMM. *)
NyxFails(k) == spent' = [spent EXCEPT !.faults = @ + k]

(* A call ends.  Callers of GetSnapshot that wait for the same flight get  *)
(* the same answer.                                                        *)
Return(c, m, res, i) ==
  nyxCall' = [d \in Callers |->
                IF d = c \/ (nyxCall[c].op = "get" /\ nyxCall[d].m = m /\ nyxCall[d].todo = <<Do("share", 0)>>)
                THEN Answered(res, i) ELSE nyxCall[d]]

Release(c, m) == lock' = [lock EXCEPT ![m] = IF @ = c THEN NoCaller ELSE @]

(* A call begins, on some idle goroutine, and waits for the mutex. *)
NyxBegin(c, m, op, i) ==
  /\ \E d \in Callers : nyxCall[d].todo = <<>>
  /\ c = CHOOSE d \in Callers : nyxCall[d].todo = <<>>
  /\ nyxCall' = [nyxCall EXCEPT ![c] = [op |-> op, m |-> m, todo |-> <<Do("enter", i)>>, id |-> i,
                                        known |-> TRUE, res |-> "none"]]
  /\ spent' = [spent EXCEPT !.calls = @ + 1]
  /\ UNCHANGED <<store, latest, files, byTemplate, lock, made, torn, deleted>>

(* Prepare and GetSnapshot answer from the cache when it has a snapshot,   *)
(* whichever was added last.                                               *)
Hit(m) == byTemplate[m] # <<>>

Newest(m) == byTemplate[m][Len(byTemplate[m])].path

(* The snapshots whose deletion the call begins. *)
Deletes(m, op, i) ==
  CASE op = "delete" -> {i}
    [] op = "invalidate" -> {e.path : e \in {f \in Range(byTemplate[m]) : f.known}}
    [] OTHER -> {}

(* Prepare, SaveSnapshot, DeleteSnapshot and Invalidate take the mutex and *)
(* keep it until they return.                                              *)
NyxEnter(c, Snaps) ==
  LET m == nyxCall[c].m
      op == nyxCall[c].op
      i == IF op \in {"prepare", "save"} THEN made + 1 ELSE nyxCall[c].id
  IN  /\ nyxCall[c].todo # <<>> /\ Head(nyxCall[c].todo).act = "enter"
      /\ op # "get"
      /\ lock[m] = NoCaller
      /\ IF op = "prepare" /\ Hit(m)
         THEN Return(c, m, "ok", Newest(m)) /\ UNCHANGED <<lock, made, deleted>>
         ELSE /\ i \in Snaps \cup {0}
              /\ deleted' = deleted \cup Deletes(m, op, i)
              /\ made' = IF op \in {"prepare", "save"} THEN i ELSE made
              /\ lock' = [lock EXCEPT ![m] = c]
              /\ nyxCall' = [nyxCall EXCEPT
                   ![c].id = i,
                   ![c].todo = CASE op = "prepare" -> PreparePlan(i)
                                 [] op = "save" -> SavePlan(i)
                                 [] op = "delete" -> DeletePlan(i)
                                 [] op = "invalidate" -> InvalidatePlan(m)]
      /\ UNCHANGED <<store, latest, files, byTemplate, spent, torn>>

-----------------------------------------------------------------------------
(* GetSnapshot. *)

(* The leader of the flight of m, the one caller that reads through. *)
Flight(m) == {d \in Callers : /\ nyxCall[d].op = "get" /\ nyxCall[d].m = m
                              /\ nyxCall[d].todo # <<>>
                              /\ Head(nyxCall[d].todo).act \notin {"enter", "join", "share"}}

(* The cache is asked under the mutex. *)
GetEnter(c) ==
  LET m == nyxCall[c].m
  IN  /\ nyxCall[c].todo = <<Do("enter", 0)>> /\ nyxCall[c].op = "get"
      /\ lock[m] = NoCaller
      /\ IF Hit(m) THEN Return(c, m, "ok", Newest(m))
         ELSE nyxCall' = [nyxCall EXCEPT ![c].todo = <<Do("join", 0)>>]
      /\ UNCHANGED <<store, latest, files, byTemplate, lock, made, spent, torn, deleted>>

(* Mutant: every miss reads through on its own. *)
MutGetJoin(c) ==
  /\ nyxCall[c].todo = <<Do("join", 0)>>
  /\ nyxCall' = [nyxCall EXCEPT ![c].todo = <<Do("again", 0)>>]
  /\ UNCHANGED <<store, latest, files, byTemplate, lock, made, spent, torn, deleted>>

(* A miss joins the flight under way or leads a new one. *)
GetJoin(c) ==
  /\ nyxCall[c].todo = <<Do("join", 0)>>
  /\ nyxCall' = [nyxCall EXCEPT ![c].todo =
                   <<Do(IF Flight(nyxCall[c].m) = {} THEN "again" ELSE "share", 0)>>]
  /\ UNCHANGED <<store, latest, files, byTemplate, lock, made, spent, torn, deleted>>

(* The leader asks the cache once more. *)
GetAgain(c) ==
  LET m == nyxCall[c].m
  IN  /\ nyxCall[c].todo = <<Do("again", 0)>>
      /\ lock[m] = NoCaller
      /\ IF Hit(m) THEN Return(c, m, "ok", Newest(m))
         ELSE nyxCall' = [nyxCall EXCEPT ![c].todo = <<Do("look", 0)>>]
      /\ UNCHANGED <<store, latest, files, byTemplate, lock, made, spent, torn, deleted>>

(* The pointer is read.  When the memory and the disk file it names exist  *)
(* they are taken as they are, with or without metadata; otherwise all     *)
(* three parts are downloaded.                                             *)
GetLook(c) ==
  LET m == nyxCall[c].m
  IN  /\ nyxCall[c].todo = <<Do("look", 0)>>
      /\ \E ok \in {TRUE, FALSE} :
           /\ NyxFails(IF ok THEN 0 ELSE 1)
           /\ IF ok /\ latest # 0
              THEN nyxCall' = [nyxCall EXCEPT ![c].id = latest, ![c].todo =
                     IF files[m][latest]["mem"] # "none" /\ files[m][latest]["disk"] # "none"
                     THEN <<Do("add", latest)>> ELSE DownloadPlan(latest)]
              ELSE Return(c, m, "error", 0)
      /\ UNCHANGED <<store, latest, files, byTemplate, lock, made, torn, deleted>>

-----------------------------------------------------------------------------
(* The steps of a list of things to do. *)

PartOf(act) == CASE act \in {"put_mem", "copy_mem", "get_mem", "erase_mem"} -> "mem"
                 [] act \in {"put_disk", "copy_disk", "get_disk", "erase_disk"} -> "disk"
                 [] OTHER -> "json"

(* c does the next thing of its list, and it succeeds. *)
Done(c) == nyxCall' = [nyxCall EXCEPT ![c].todo = Tail(@)]
(* It fails and the call ends with an error. *)
Gives(c, m) == Return(c, m, "error", 0) /\ Release(c, m)

At(c, acts) == nyxCall[c].todo # <<>> /\ Head(nyxCall[c].todo).act \in acts

(* Assembling the root file system, the scan, starting and pausing the VM  *)
(* or its snapshot may fail; nothing is kept then.                         *)
Build(c) ==
  /\ At(c, {"build"})
  /\ \/ Done(c) /\ UNCHANGED <<spent, lock>>
     \/ Gives(c, nyxCall[c].m) /\ NyxFails(1)
  /\ UNCHANGED <<store, latest, files, byTemplate, made, torn, deleted>>

(* uploadFile and Store.Put write a blob as a whole or not at all. *)
Put(c) ==
  LET a == Head(nyxCall[c].todo)
  IN  /\ At(c, {"put_mem", "put_disk", "put_json"})
      /\ \/ store' = store \cup {<<a.id, PartOf(a.act)>>} /\ Done(c) /\ UNCHANGED <<spent, lock>>
         \/ Gives(c, nyxCall[c].m) /\ NyxFails(1) /\ UNCHANGED store
      /\ UNCHANGED <<latest, files, byTemplate, made, torn, deleted>>

Point(c) ==
  /\ At(c, {"point"})
  /\ \/ latest' = Head(nyxCall[c].todo).id /\ Done(c) /\ UNCHANGED <<spent, lock>>
     \/ Gives(c, nyxCall[c].m) /\ NyxFails(1) /\ UNCHANGED latest
  /\ UNCHANGED <<store, files, byTemplate, made, torn, deleted>>

(* copyFile and os.WriteFile write to the final name: a failure may leave  *)
(* a half-written file there.                                              *)
Copy(c) ==
  LET a == Head(nyxCall[c].todo)
      m == nyxCall[c].m
      p == PartOf(a.act)
  IN  /\ At(c, {"copy_mem", "copy_disk", "copy_json"})
      /\ \/ /\ files' = [files EXCEPT ![m][a.id][p] = "whole"]
            /\ Done(c)
            /\ UNCHANGED <<spent, lock, torn>>
         \/ /\ \E left \in {"torn", files[m][a.id][p]} :
                 /\ files' = [files EXCEPT ![m][a.id][p] = left]
                 /\ torn' = IF left = "torn" THEN torn \cup {<<m, a.id>>} ELSE torn
            /\ Gives(c, m)
            /\ NyxFails(1)
      /\ UNCHANGED <<store, latest, byTemplate, made, deleted>>

(* Mutant: the download writes to the final name. *)
MutDownload(c) ==
  LET a == Head(nyxCall[c].todo)
      m == nyxCall[c].m
  IN  /\ At(c, {"get_mem", "get_disk"})
      /\ \/ /\ <<a.id, PartOf(a.act)>> \in store
            /\ files' = [files EXCEPT ![m][a.id][PartOf(a.act)] = "whole"]
            /\ Done(c)
            /\ UNCHANGED <<spent, lock>>
         \/ /\ files' = [files EXCEPT ![m][a.id][PartOf(a.act)] = "torn"]
            /\ Gives(c, m)
            /\ NyxFails(1)
      /\ UNCHANGED <<store, latest, byTemplate, made, torn, deleted>>

(* downloadFile writes under a temporary name and renames. *)
Download(c) ==
  LET a == Head(nyxCall[c].todo)
      m == nyxCall[c].m
      there == <<a.id, PartOf(a.act)>> \in store
  IN  /\ At(c, {"get_mem", "get_disk"})
      /\ \/ /\ there
            /\ files' = [files EXCEPT ![m][a.id][PartOf(a.act)] = "whole"]
            /\ Done(c)
            /\ UNCHANGED <<spent, lock>>
         \/ /\ Gives(c, m)
            /\ NyxFails(IF there THEN 1 ELSE 0)
            /\ UNCHANGED files
      /\ UNCHANGED <<store, latest, byTemplate, made, torn, deleted>>

(* The metadata is optional, but without it the ID stays empty. *)
DownloadJSON(c) ==
  LET i == Head(nyxCall[c].todo).id
      m == nyxCall[c].m
      there == <<i, "json">> \in store
  IN  /\ At(c, {"get_json"})
      /\ \E ok \in {TRUE, FALSE} :
           /\ ok => there
           /\ files' = IF ok THEN [files EXCEPT ![m][i]["json"] = "whole"] ELSE files
           /\ nyxCall' = [nyxCall EXCEPT ![c].todo = Tail(@), ![c].known = ok]
           /\ NyxFails(IF there /\ ~ok THEN 1 ELSE 0)
      /\ UNCHANGED <<store, latest, byTemplate, lock, made, torn, deleted>>

(* The snapshot is appended to the cache and returned.  GetSnapshot takes  *)
(* the mutex for it, the others hold it already.                           *)
Add(c) ==
  LET m == nyxCall[c].m
      i == nyxCall[c].id
  IN  /\ At(c, {"add"})
      /\ lock[m] \in {c, NoCaller}
      /\ byTemplate' = [byTemplate EXCEPT ![m] = Append(@, Cached(i, nyxCall[c].known))]
      /\ Return(c, m, "ok", i)
      /\ Release(c, m)
      /\ UNCHANGED <<store, latest, files, made, spent, torn, deleted>>

(* A blob is deleted from the store; an error is logged. *)
Erase(c) ==
  LET a == Head(nyxCall[c].todo)
  IN  /\ At(c, {"erase_mem", "erase_disk", "erase_json"})
      /\ \/ store' = store \ {<<a.id, PartOf(a.act)>>} /\ UNCHANGED spent
         \/ NyxFails(1) /\ UNCHANGED store
      /\ Done(c)
      /\ UNCHANGED <<latest, files, byTemplate, lock, made, torn, deleted>>

Unpoint(c) ==
  /\ At(c, {"unpoint"})
  /\ \/ latest' = 0 /\ UNCHANGED spent
     \/ NyxFails(1) /\ UNCHANGED latest
  /\ Done(c)
  /\ UNCHANGED <<store, files, byTemplate, lock, made, torn, deleted>>

(* DeleteSnapshot keeps the other snapshots of the cache, those without an *)
(* ID included.                                                            *)
Others(m, i) == {k \in DOMAIN byTemplate[m] : ~(byTemplate[m][k].known /\ byTemplate[m][k].path = i)}

Drop(c) ==
  LET m == nyxCall[c].m
      others == Others(m, nyxCall[c].id)
  IN  /\ At(c, {"drop"})
      /\ \E n \in 0..Len(byTemplate[m]) : \E place \in [1..n -> others] :
           /\ \A k \in others : \E j \in 1..n : place[j] = k
           /\ \A j, k \in 1..n : j < k => place[j] < place[k]
           /\ byTemplate' = [byTemplate EXCEPT ![m] = [k \in 1..n |-> byTemplate[m][place[k]]]]
      /\ Done(c)
      /\ UNCHANGED <<store, latest, files, lock, made, spent, torn, deleted>>

(* The files are removed.  In DeleteSnapshot this is the last thing to do. *)
RemoveFiles(c) ==
  LET m == nyxCall[c].m
      i == Head(nyxCall[c].todo).id
  IN  /\ At(c, {"remove"})
      /\ files' = [files EXCEPT ![m] = [j \in DOMAIN @ |-> IF j = i THEN [p \in Part |-> "none"] ELSE @[j]]]
      /\ IF Len(nyxCall[c].todo) > 1 THEN Done(c) /\ UNCHANGED lock
         ELSE Return(c, m, "ok", i) /\ Release(c, m)
      /\ UNCHANGED <<store, latest, byTemplate, made, spent, torn, deleted>>

Clear(c) ==
  LET m == nyxCall[c].m
  IN  /\ At(c, {"clear"})
      /\ byTemplate' = [byTemplate EXCEPT ![m] = <<>>]
      /\ Return(c, m, "ok", 0)
      /\ Release(c, m)
      /\ UNCHANGED <<store, latest, files, made, spent, torn, deleted>>

(* The process of m ends and is started again: the cache is gone and so    *)
(* are the calls.  A copy in progress may leave half a file.               *)
NyxRestart(m) ==
  LET Copying(c) == nyxCall[c].m = m /\ At(c, {"copy_mem", "copy_disk", "copy_json"})
      copied == {Head(nyxCall[c].todo) : c \in {d \in Callers : Copying(d)}}
  IN  /\ byTemplate' = [byTemplate EXCEPT ![m] = <<>>]
      /\ lock' = [lock EXCEPT ![m] = NoCaller]
      /\ nyxCall' = [c \in Callers |-> IF nyxCall[c].m = m /\ nyxCall[c].todo # <<>>
                                       THEN NoCall ELSE nyxCall[c]]
      /\ \E half \in SUBSET copied :
           /\ files' = [files EXCEPT ![m] = [i \in DOMAIN @ |-> [p \in Part |->
                          IF \E a \in half : a.id = i /\ PartOf(a.act) = p THEN "torn" ELSE @[i][p]]]]
           /\ torn' = torn \cup {<<m, a.id>> : a \in half}
      /\ UNCHANGED <<store, latest, made, spent, deleted>>

NyxStep(c, Snaps) ==
  \/ NyxEnter(c, Snaps) \/ GetEnter(c) \/ GetJoin(c) \/ GetAgain(c) \/ GetLook(c)
  \/ Build(c) \/ Put(c) \/ Point(c) \/ Copy(c) \/ Add(c)
  \/ Download(c) \/ DownloadJSON(c)
  \/ Erase(c) \/ Unpoint(c) \/ Drop(c) \/ RemoveFiles(c) \/ Clear(c)

-----------------------------------------------------------------------------
(* What the pointer names can be fetched: all parts of the latest snapshot *)
(* are in the store, whatever calls failed or were cut short, unless       *)
(* somebody has begun to delete that snapshot.                             *)
PublishedComplete ==
  latest # 0 /\ latest \notin deleted => {latest} \X Part \subseteq store

(* c's GetSnapshot is answered with a snapshot. *)
Served(c) ==
  /\ nyxCall[c].op = "get" /\ nyxCall[c].todo # <<>>
  /\ nyxCall'[c].todo = <<>> /\ nyxCall'[c].res = "ok"

(* A snapshot that GetSnapshot returns has whole files in the directory,   *)
(* however many callers share the download and wherever an earlier one was *)
(* cut short, unless the snapshot is being deleted or one of its files was *)
(* left half written by a copy that failed or was interrupted.             *)
ServedComplete ==
  [][\A c \in Callers : Served(c) =>
       LET m == nyxCall[c].m
           i == nyxCall'[c].id
       IN  \/ i \in deleted' \/ <<m, i>> \in torn'
           \/ \A p \in {"mem", "disk"} : files'[m][i][p] = "whole"]_nyxVars
=============================================================================
