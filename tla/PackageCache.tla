----------------------------- MODULE PackageCache -----------------------------
(***************************************************************************)
(* package.py: the packages a worker keeps under packages/ in its own      *)
(* directory, how it fetches a missing one from the Redis hash             *)
(* package:<name>:<version> or from a URL, and how it drops those it has   *)
(* not used for an hour.  One package and version is enough: they do not   *)
(* interact.  The hash is shared by all workers, and written by            *)
(* contrib/dynamic_package.py or by a frontend that does the same and may  *)
(* add the field options:persistent.  Initially one has uploaded it; it    *)
(* may be uploaded again at any time.                                      *)
(***************************************************************************)
EXTENDS Naturals, FiniteSets

CONSTANTS
    Worker,
    File,           \* the files of the package
    ConfigFile,     \* config.yml
    Option,         \* the field options:persistent
    Source,         \* where jobs get it from: "redis", or "url" if they give one
    MaxUploads,     \* bound: how often the package is uploaded
    FaultKinds,     \* the faults that may happen
    MaxFaults       \* bound: how many of them in a behaviour

ASSUME PackageCacheAssumption ==
    /\ ConfigFile \in File /\ IsFiniteSet(File)
    /\ Option \notin File /\ Source \subseteq {"redis", "url"}
    /\ MaxUploads \in Nat \ {0} /\ MaxFaults \in Nat
    /\ FaultKinds \subseteq {"drop", "crash", "zip"}

VARIABLES
    hash,           \* the fields of package:<name>:<version>
    uploading,      \* those an upload has still to put there
    offered,        \* the fields of the last upload
    uploads,        \* how many uploads have begun
    pc,             \* what each worker does next
    keys,           \* the files it has still to fetch
    present,        \* its directory of the package exists
    cached,         \* the files in it
    torn,           \* those of them that were opened and never written
    old,            \* it was last modified or used more than an hour ago
    faults

redis == <<hash, uploading, offered, uploads>>
directory == <<present, cached, torn, old>>
vars == <<redis, pc, keys, directory, faults>>

TypeOK ==
    /\ hash \subseteq File \cup {Option} /\ uploading \subseteq File \cup {Option}
    /\ offered \subseteq File \cup {Option} /\ uploads \in 1..MaxUploads
    /\ pc \in [Worker -> {"idle", "url", "extract", "hkeys", "hget", "persistent",
                          "delete", "config", "use", "down"}]
    /\ keys \in [Worker -> SUBSET File]
    /\ present \in [Worker -> BOOLEAN]
    /\ cached \in [Worker -> SUBSET File]
    /\ torn \in [Worker -> SUBSET File]
    /\ old \in [Worker -> BOOLEAN]
    /\ faults \in 0..MaxFaults

Init ==
    /\ offered \in {File, File \cup {Option}}
    /\ hash = offered /\ uploading = {} /\ uploads = 1
    /\ pc = [w \in Worker |-> "idle"]
    /\ keys = [w \in Worker |-> {}]
    /\ present = [w \in Worker |-> FALSE]
    /\ cached = [w \in Worker |-> {}]
    /\ torn = [w \in Worker |-> {}]
    /\ old = [w \in Worker |-> FALSE]
    /\ faults = 0

-----------------------------------------------------------------------------
(* dynamic_package.py, and a frontend in its place.                        *)

\* DEL of the old package.
BeginUpload ==
    /\ uploading = {} /\ uploads < MaxUploads
    /\ hash' = {}
    /\ offered' \in {File, File \cup {Option}}
    /\ uploading' = offered'
    /\ uploads' = uploads + 1
    /\ UNCHANGED <<pc, keys, directory, faults>>

\* HSET of one field.
PutFile ==
    /\ \E f \in uploading : hash' = hash \cup {f} /\ uploading' = uploading \ {f}
    /\ UNCHANGED <<offered, uploads, pc, keys, directory, faults>>

-----------------------------------------------------------------------------
(* get_package and download_files, by the worker w.                        *)

Goto(w, stage) == pc' = [pc EXCEPT ![w] = stage]

Fault(kind) ==
    /\ kind \in FaultKinds
    /\ faults < MaxFaults
    /\ faults' = faults + 1

\* rmtree of the directory.
Clear(w) ==
    /\ present' = [present EXCEPT ![w] = FALSE]
    /\ cached' = [cached EXCEPT ![w] = {}]
    /\ torn' = [torn EXCEPT ![w] = {}]
    /\ old' = [old EXCEPT ![w] = FALSE]

\* The file f is opened in the directory, and written if its data is there.
Write(w, f, there) ==
    /\ present' = [present EXCEPT ![w] = TRUE]
    /\ old' = [old EXCEPT ![w] = FALSE]
    /\ IF there
       THEN cached' = [cached EXCEPT ![w] = @ \cup {f}] /\ UNCHANGED torn
       ELSE torn' = [torn EXCEPT ![w] = @ \cup {f}] /\ UNCHANGED cached

\* The list of files is local to the call.
Forget(w) == keys' = [keys EXCEPT ![w] = {}]

\* The worker stops with a file opened and not written.
Tear(w) == \E f \in keys[w] : Write(w, f, FALSE)

\* prune_unused_packages finds the directory too old.
Expired(w) == present[w] /\ old[w]

\* A job needs the package: prune, then the directory is used or fetched.
GetPackage(w) ==
    /\ pc[w] = "idle"
    /\ \/ /\ present[w] /\ ~Expired(w)
          /\ Goto(w, "config")
          /\ UNCHANGED directory
       \/ /\ ~present[w] \/ Expired(w)
          /\ \E source \in Source : Goto(w, IF source = "url" THEN "url" ELSE "hkeys")
          /\ Clear(w)
    /\ UNCHANGED <<redis, keys, faults>>

\* The zip is downloaded, or PackageLoadError ends the job.
FetchUrl(w) ==
    /\ pc[w] = "url"
    /\ \/ Goto(w, "extract") /\ keys' = [keys EXCEPT ![w] = File] /\ UNCHANGED faults
       \/ Goto(w, "idle") /\ Fault("drop") /\ UNCHANGED keys
    /\ UNCHANGED <<redis, directory>>

\* extractall, file by file; BadZipfile on the way becomes PackageLoadError.
Extract(w) ==
    /\ pc[w] = "extract"
    /\ \/ \E f \in keys[w] :
             /\ Write(w, f, TRUE)
             /\ keys' = [keys EXCEPT ![w] = @ \ {f}]
             /\ UNCHANGED <<pc, faults>>
       \/ keys[w] = {} /\ Goto(w, "config") /\ UNCHANGED <<keys, directory, faults>>
       \/ Tear(w) /\ Fault("zip") /\ Goto(w, "idle") /\ Forget(w)
    /\ UNCHANGED redis

\* HKEYS, of which the file: fields count; nothing there raises KeyError, which main does not catch.
ListFiles(w) ==
    /\ pc[w] = "hkeys"
    /\ Goto(w, IF hash = {} THEN "down" ELSE "hget")
    /\ keys' = [keys EXCEPT ![w] = hash \ {Option}]
    /\ UNCHANGED <<redis, directory, faults>>

\* HGET of one file into the file just opened.  Where the field is gone there is
\* nothing to write: TypeError, which main does not catch either.
GetFile(w) ==
    /\ pc[w] = "hget"
    /\ \E f \in keys[w] :
          /\ Write(w, f, f \in hash)
          /\ IF f \in hash
             THEN keys' = [keys EXCEPT ![w] = @ \ {f}] /\ UNCHANGED pc
             ELSE Goto(w, "down") /\ Forget(w)
    /\ UNCHANGED <<redis, faults>>

\* Faulty variant: the last lines of download_files are inside the loop.
EndFilesEarly(w) ==
    /\ pc[w] = "hget" /\ keys[w] # File
    /\ Goto(w, "persistent")
    /\ UNCHANGED <<redis, keys, directory, faults>>

EndFiles(w) ==
    /\ pc[w] = "hget" /\ keys[w] = {}
    /\ Goto(w, "persistent")
    /\ UNCHANGED <<redis, keys, directory, faults>>

\* Faulty variant: the option is not looked at.
CheckPersistentDeletes(w) ==
    /\ pc[w] = "persistent"
    /\ Goto(w, "delete")
    /\ UNCHANGED <<redis, keys, directory, faults>>

\* HGET options:persistent.
CheckPersistent(w) ==
    /\ pc[w] = "persistent"
    /\ Goto(w, IF Option \in hash THEN "config" ELSE "delete")
    /\ UNCHANGED <<redis, keys, directory, faults>>

\* DEL.
Delete(w) ==
    /\ pc[w] = "delete"
    /\ Goto(w, "config")
    /\ hash' = {}
    /\ UNCHANGED <<uploading, offered, uploads, keys, directory, faults>>

\* Faulty variant: a missing configuration is waited for.
LoadConfigWaits(w) ==
    /\ pc[w] = "config" /\ ConfigFile \in cached[w]
    /\ Goto(w, "use")
    /\ UNCHANGED <<redis, keys, directory, faults>>

\* The configuration is loaded; without the file PackageLoadError ends the job,
\* and an empty one loads as None and kills the worker in parse_config.
LoadConfig(w) ==
    /\ pc[w] = "config"
    /\ Goto(w, IF ConfigFile \in cached[w] THEN "use"
               ELSE IF ConfigFile \in torn[w] THEN "down"
               ELSE "idle")
    /\ UNCHANGED <<redis, keys, directory, faults>>

\* The job is compiled and tested with the files of the directory.
EndJob(w) ==
    /\ pc[w] = "use"
    /\ Goto(w, "idle")
    /\ UNCHANGED <<redis, keys, directory, faults>>

-----------------------------------------------------------------------------
\* A ConnectionError: the handler of download_files reads e.message and raises
\* AttributeError, which main does not catch.
Drop(w) ==
    /\ pc[w] \in {"hkeys", "hget", "persistent", "delete"}
    /\ Fault("drop")
    /\ Goto(w, "down")
    /\ hash' \in IF pc[w] = "delete" THEN {hash, {}} ELSE {hash}
    /\ IF pc[w] = "hget" THEN Tear(w) ELSE UNCHANGED directory
    /\ Forget(w)
    /\ UNCHANGED <<uploading, offered, uploads>>

Crash(w) ==
    /\ pc[w] # "down"
    /\ Fault("crash")
    /\ Goto(w, "down")
    /\ \/ UNCHANGED directory
       \/ pc[w] \in {"extract", "hget"} /\ Tear(w)
    /\ Forget(w)
    /\ UNCHANGED redis

\* systemd starts it again; main prunes before it takes a job.
Restart(w) ==
    /\ pc[w] = "down"
    /\ Goto(w, "idle")
    /\ IF Expired(w) THEN Clear(w) ELSE UNCHANGED directory
    /\ UNCHANGED <<redis, keys, faults>>

\* More than an hour passes since the directory was used.
Hour(w) ==
    /\ pc[w] \in {"idle", "down"} /\ present[w]
    /\ old' = [old EXCEPT ![w] = TRUE]
    /\ UNCHANGED <<redis, pc, keys, present, cached, torn, faults>>

Fetch(w) ==
    \/ FetchUrl(w) \/ Extract(w) \/ ListFiles(w) \/ GetFile(w) \/ EndFiles(w)
    \/ CheckPersistent(w) \/ Delete(w) \/ LoadConfig(w) \/ EndJob(w) \/ Restart(w)

Next ==
    \/ BeginUpload \/ PutFile
    \/ \E w \in Worker : GetPackage(w) \/ Fetch(w) \/ Drop(w) \/ Crash(w) \/ Hour(w)

Spec == Init /\ [][Next]_vars

\* A worker goes on.  The upload and the faults owe nobody a step.
FairSpec == Spec /\ \A w \in Worker : WF_vars(Fetch(w))

-----------------------------------------------------------------------------
\* "Fetch package with matching name and version" (package.py:67): a job is
\* graded with the whole package.
WholePackage == \A w \in Worker : pc[w] = "use" => cached[w] = File

\* The package has not been uploaded a second time: an upload begins with DEL and
\* may come while a worker is between two HGETs.
UploadedOnce == uploads = 1

\* A package with options:persistent can be shared: as long as no fault and no
\* second upload happens a job is graded with all of it, whatever other workers
\* do with the hash and however often the directory is pruned and fetched again.
PersistentWhole == UploadedOnce /\ Option \in offered /\ faults = 0 => WholePackage

\* All of a package with options:persistent is in Redis, and no worker has already
\* decided to delete it.
Settled ==
    /\ uploading = {} /\ hash = offered /\ Option \in hash
    /\ \A v \in Worker : pc[v] # "delete"

\* After the last fault whoever starts to fetch it then gets to use all of it,
\* whatever faults and second uploads have left in the directories and whatever
\* the others fetch and prune meanwhile; only an upload during the fetch spoils it.
PersistentFetched ==
    \A w \in Worker :
        Settled /\ faults = MaxFaults /\ pc[w] = "hkeys"
            ~> (pc[w] = "use" /\ cached[w] = File) \/ uploading # {}

\* The copy in Redis is deleted only when it is complete somewhere else: before
\* the package is uploaded anew, a step that empties the hash leaves a worker
\* with the whole package, wherever the others were in fetching it and whether
\* the reply of the DEL arrives or not.
KeptBySomebody ==
    [][UploadedOnce' /\ hash # {} /\ hash' = {} => \E w \in Worker : cached'[w] = File]_vars

\* Whatever is torn, missing or fails, a worker comes back to its loop: no
\* package keeps it fetching or loading for ever.
BackToWork == \A w \in Worker : pc[w] # "idle" ~> pc[w] = "idle"
=============================================================================
