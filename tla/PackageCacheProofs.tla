-------------------------- MODULE PackageCacheProofs --------------------------
(* Proofs about PackageCache, for any workers, files, sources, uploads and     *)
(* faults.                                                                     *)
EXTENDS PackageCache, TLAPS

\* Until it is uploaded anew Redis has all of the package or nothing.
WholeHash ==
    UploadedOnce =>
        /\ offered \in {File, File \cup {Option}} /\ uploading = {}
        /\ hash \in {offered, {}}

\* What a fetch has, and has still to get, is everything.
FetchingAt(w) ==
    /\ pc[w] \in {"extract", "hget"} => keys[w] \cup cached[w] = File
    /\ pc[w] \in {"persistent", "delete"} => cached[w] = File

Fetching == UploadedOnce => \A w \in Worker : FetchingAt(w)

\* Without a fault a persistent package stays in Redis, and a directory is whole
\* unless it is being filled.
Shared == UploadedOnce /\ Option \in offered /\ faults = 0

SharingAt(w) ==
    /\ pc[w] \notin {"delete", "down"}
    /\ present[w] /\ pc[w] \notin {"extract", "hget"} => cached[w] = File
    /\ pc[w] \in {"persistent", "config", "use"} => cached[w] = File

Sharing == Shared => hash = offered /\ \A w \in Worker : SharingAt(w)

IInv == TypeOK /\ WholeHash /\ Fetching /\ Sharing

-----------------------------------------------------------------------------
(* The variables keep their types.                                         *)

\* Writing a file keeps the types of the directory.
LEMMA WriteType ==
    ASSUME TypeOK, NEW w \in Worker, NEW f \in File, NEW there \in BOOLEAN, Write(w, f, there)
    PROVE  /\ present' \in [Worker -> BOOLEAN]
           /\ cached' \in [Worker -> SUBSET File]
           /\ torn' \in [Worker -> SUBSET File]
           /\ old' \in [Worker -> BOOLEAN]
BY PackageCacheAssumption DEF TypeOK, Write

\* The upload and the clock keep the types,
LEMMA UploadType ==
    ASSUME TypeOK, BeginUpload \/ PutFile \/ \E w \in Worker : Hour(w)
    PROVE  TypeOK'
<1> USE PackageCacheAssumption DEF TypeOK, directory, redis
<1>1. CASE BeginUpload
  BY <1>1 DEF BeginUpload
<1>2. CASE PutFile
  BY <1>2 DEF PutFile
<1>3. ASSUME NEW w \in Worker, Hour(w)
      PROVE  TypeOK'
  BY <1>3 DEF Hour
<1> QED BY <1>1, <1>2, <1>3

\* A torn file is one of those the worker had to fetch.
LEMMA TearWrites ==
    ASSUME TypeOK, NEW w \in Worker, Tear(w)
    PROVE  \E f \in File : Write(w, f, FALSE)
BY DEF Tear, TypeOK

\* a worker that looks for the package, fetches or uses it keeps them,
LEMMA FetchType ==
    ASSUME TypeOK, NEW w \in Worker, GetPackage(w) \/ Fetch(w)
    PROVE  TypeOK'
<1> USE PackageCacheAssumption DEF TypeOK, directory, redis, Goto, Fault
<1>1. CASE GetPackage(w)
  <2>1. CASE Goto(w, "config") /\ UNCHANGED directory
    BY <1>1, <2>1 DEF GetPackage
  <2>2. CASE /\ \E source \in Source : Goto(w, IF source = "url" THEN "url" ELSE "hkeys")
             /\ Clear(w)
    <3>1. UNCHANGED <<hash, uploading, offered, uploads, keys, faults>>
      BY <1>1, <2>2 DEF GetPackage
    <3>2. pc' = [pc EXCEPT ![w] = "url"] \/ pc' = [pc EXCEPT ![w] = "hkeys"]
      BY <2>2
    <3> QED BY <2>2, <3>1, <3>2 DEF Clear
  <2> QED BY <1>1, <2>1, <2>2 DEF GetPackage
<1>2. CASE FetchUrl(w)
  BY <1>2 DEF FetchUrl
<1>3. CASE Extract(w)
  <2>1. ASSUME NEW f \in keys[w], Write(w, f, TRUE), UNCHANGED <<pc, faults>>,
               keys' = [keys EXCEPT ![w] = @ \ {f}]
        PROVE  TypeOK'
    <3>1. f \in File
      OBVIOUS
    <3>2. /\ present' \in [Worker -> BOOLEAN] /\ cached' \in [Worker -> SUBSET File]
          /\ torn' \in [Worker -> SUBSET File] /\ old' \in [Worker -> BOOLEAN]
      BY <2>1, <3>1, WriteType
    <3> QED BY <1>3, <2>1, <3>2 DEF Extract
  <2>2. CASE Tear(w) /\ Fault("zip") /\ Goto(w, "idle") /\ Forget(w)
    <3>1. PICK f \in File : Write(w, f, FALSE)
      BY <2>2, TearWrites
    <3>2. /\ present' \in [Worker -> BOOLEAN] /\ cached' \in [Worker -> SUBSET File]
          /\ torn' \in [Worker -> SUBSET File] /\ old' \in [Worker -> BOOLEAN]
      BY <3>1, WriteType
    <3>3. UNCHANGED <<hash, uploading, offered, uploads>> /\ keys' \in [Worker -> SUBSET File]
      BY <1>3, <2>2 DEF Extract, Forget
    <3>4. pc' = [pc EXCEPT ![w] = "idle"] /\ faults' \in 0..MaxFaults
      BY <2>2
    <3> QED BY <3>2, <3>3, <3>4
  <2>3. CASE Goto(w, "config") /\ UNCHANGED <<keys, directory, faults>>
    BY <1>3, <2>3 DEF Extract
  <2> QED BY <1>3, <2>1, <2>2, <2>3 DEF Extract
<1>4. CASE GetFile(w)
  <2>1. PICK f \in keys[w] : /\ Write(w, f, f \in hash)
                            /\ IF f \in hash
                               THEN keys' = [keys EXCEPT ![w] = @ \ {f}] /\ UNCHANGED pc
                               ELSE Goto(w, "down") /\ Forget(w)
    BY <1>4 DEF GetFile
  <2>2. f \in File /\ (f \in hash) \in BOOLEAN
    OBVIOUS
  <2>3. pc' = pc \/ pc' = [pc EXCEPT ![w] = "down"]
    BY <2>1
  <2>4. keys' \in [Worker -> SUBSET File] /\ UNCHANGED <<hash, uploading, offered, uploads, faults>>
    BY <1>4, <2>1 DEF GetFile, Forget
  <2>5. /\ present' \in [Worker -> BOOLEAN] /\ cached' \in [Worker -> SUBSET File]
        /\ torn' \in [Worker -> SUBSET File] /\ old' \in [Worker -> BOOLEAN]
    BY <2>1, <2>2 DEF Write
  <2> QED BY <2>3, <2>4, <2>5
<1>5. CASE ListFiles(w)
  BY <1>5 DEF ListFiles
<1>6. CASE EndFiles(w) \/ CheckPersistent(w) \/ Delete(w) \/ LoadConfig(w) \/ EndJob(w)
  BY <1>6 DEF EndFiles, CheckPersistent, Delete, LoadConfig, EndJob
<1>7. CASE Restart(w)
  BY <1>7 DEF Restart, Clear
<1> QED BY <1>1, <1>2, <1>3, <1>4, <1>5, <1>6, <1>7 DEF Fetch

\* and so does one that fails.
LEMMA FaultType ==
    ASSUME TypeOK, NEW w \in Worker, Drop(w) \/ Crash(w)
    PROVE  TypeOK'
<1> USE PackageCacheAssumption DEF TypeOK, directory, redis, Goto, Fault
<1>1. /\ hash' \subseteq File \cup {Option} /\ UNCHANGED <<uploading, offered, uploads>>
      /\ keys' \in [Worker -> SUBSET File]
      /\ pc' = [pc EXCEPT ![w] = "down"] /\ faults' \in 0..MaxFaults
  <2>1. CASE Drop(w)
    BY <2>1 DEF Drop, Forget
  <2>2. CASE Crash(w)
    BY <2>2 DEF Crash, Forget
  <2> QED BY <2>1, <2>2
<1>2. CASE Tear(w)
  <2>1. PICK f \in File : Write(w, f, FALSE)
    BY <1>2, TearWrites
  <2>2. /\ present' \in [Worker -> BOOLEAN] /\ cached' \in [Worker -> SUBSET File]
        /\ torn' \in [Worker -> SUBSET File] /\ old' \in [Worker -> BOOLEAN]
    BY <2>1, WriteType
  <2> QED BY <1>1, <2>2
<1>3. CASE UNCHANGED directory
  BY <1>1, <1>3
<1> QED BY <1>2, <1>3 DEF Drop, Crash

\* Every step keeps the types.
LEMMA TypePreserved == TypeOK /\ [Next]_vars => TypeOK'
<1> SUFFICES ASSUME TypeOK, [Next]_vars PROVE TypeOK'
  OBVIOUS
<1>1. CASE UNCHANGED vars
  BY <1>1 DEF TypeOK, vars, redis, directory
<1> QED BY <1>1, UploadType, FetchType, FaultType DEF Next

\* Every state has the types of TypeOK.
THEOREM TypeCorrect == Spec => []TypeOK
<1>1. Init => TypeOK
  BY PackageCacheAssumption DEF Init, TypeOK
<1> QED BY <1>1, TypePreserved, PTL DEF Spec

-----------------------------------------------------------------------------
(* A step of the worker w, seen from the others.                           *)

OthersStay(w) ==
    /\ UNCHANGED <<uploading, offered, uploads>>
    /\ faults' >= faults
    /\ \A v \in Worker \ {w} :
          /\ pc'[v] = pc[v] /\ keys'[v] = keys[v]
          /\ present'[v] = present[v] /\ cached'[v] = cached[v]

\* A file is written into one directory.
LEMMA WriteStays ==
    ASSUME TypeOK, NEW w \in Worker, NEW f \in File, NEW there \in BOOLEAN, Write(w, f, there)
    PROVE  /\ \A v \in Worker \ {w} : present'[v] = present[v] /\ cached'[v] = cached[v]
           /\ present'[w] = TRUE
           /\ cached'[w] = IF there THEN cached[w] \cup {f} ELSE cached[w]
BY DEF TypeOK, Write

\* A worker that fetches leaves the others alone,
LEMMA FetchStays ==
    ASSUME TypeOK, NEW w \in Worker, GetPackage(w) \/ Fetch(w)
    PROVE  OthersStay(w)
<1> USE DEF OthersStay, TypeOK, directory, redis, Goto, Fault
<1>1. CASE GetPackage(w)
  <2>1. CASE Goto(w, "config") /\ UNCHANGED directory
    BY <1>1, <2>1 DEF GetPackage
  <2>2. CASE Clear(w) /\ \E stage \in {"url", "hkeys"} : Goto(w, stage)
    BY <1>1, <2>2 DEF GetPackage, Clear
  <2> QED BY <1>1, <2>1, <2>2 DEF GetPackage
<1>2. CASE FetchUrl(w)
  BY <1>2 DEF FetchUrl
<1>3. CASE Extract(w)
  <2>1. ASSUME NEW f \in keys[w], Write(w, f, TRUE), UNCHANGED <<pc, faults>>,
               keys' = [keys EXCEPT ![w] = @ \ {f}]
        PROVE  OthersStay(w)
    <3>1. f \in File
      OBVIOUS
    <3>2. \A v \in Worker \ {w} : present'[v] = present[v] /\ cached'[v] = cached[v]
      BY <2>1, <3>1, WriteStays
    <3> QED BY <1>3, <2>1, <3>2 DEF Extract
  <2>2. CASE Tear(w) /\ Fault("zip") /\ Goto(w, "idle") /\ Forget(w)
    <3>1. PICK f \in File : Write(w, f, FALSE)
      BY <2>2, TearWrites
    <3>2. \A v \in Worker \ {w} : present'[v] = present[v] /\ cached'[v] = cached[v]
      BY <3>1, WriteStays
    <3> QED BY <1>3, <2>2, <3>2 DEF Extract, Forget
  <2>3. CASE Goto(w, "config") /\ UNCHANGED <<keys, directory, faults>>
    BY <1>3, <2>3 DEF Extract
  <2> QED BY <1>3, <2>1, <2>2, <2>3 DEF Extract
<1>4. CASE GetFile(w)
  <2>1. PICK f \in keys[w] : /\ Write(w, f, f \in hash)
                            /\ IF f \in hash
                               THEN keys' = [keys EXCEPT ![w] = @ \ {f}] /\ UNCHANGED pc
                               ELSE Goto(w, "down") /\ Forget(w)
    BY <1>4 DEF GetFile
  <2>2. \A v \in Worker \ {w} : present'[v] = present[v] /\ cached'[v] = cached[v]
    BY <2>1 DEF Write
  <2> QED BY <1>4, <2>1, <2>2 DEF GetFile, Forget
<1>5. CASE ListFiles(w)
  BY <1>5 DEF ListFiles
<1>6. CASE EndFiles(w) \/ CheckPersistent(w) \/ Delete(w) \/ LoadConfig(w) \/ EndJob(w)
  BY <1>6 DEF EndFiles, CheckPersistent, Delete, LoadConfig, EndJob
<1>7. CASE Restart(w)
  BY <1>7 DEF Restart, Clear
<1> QED BY <1>1, <1>2, <1>3, <1>4, <1>5, <1>6, <1>7 DEF Fetch

\* and so does one that fails, which leaves its directory as it was unless it was filling it.
LEMMA FaultStays ==
    ASSUME TypeOK, NEW w \in Worker, Drop(w) \/ Crash(w)
    PROVE  /\ OthersStay(w) /\ faults' > 0
           /\ pc'[w] = "down"
           /\ pc[w] \notin {"extract", "hget"} => UNCHANGED present
<1> USE PackageCacheAssumption DEF TypeOK, directory, redis, Goto, Fault
<1>1. /\ UNCHANGED <<uploading, offered, uploads>> /\ keys' = [keys EXCEPT ![w] = {}]
      /\ pc' = [pc EXCEPT ![w] = "down"] /\ faults' = faults + 1
  BY DEF Drop, Crash, Forget
<1>2. CASE Tear(w) /\ pc[w] \in {"extract", "hget"}
  <2>1. PICK f \in File : Write(w, f, FALSE)
    BY <1>2, TearWrites
  <2>2. \A v \in Worker \ {w} : present'[v] = present[v] /\ cached'[v] = cached[v]
    BY <2>1, WriteStays
  <2> QED BY <1>1, <1>2, <2>2 DEF OthersStay
<1>3. CASE UNCHANGED directory
  BY <1>1, <1>3 DEF OthersStay
<1> QED BY <1>2, <1>3 DEF Drop, Crash

\* What a step of w keeps of the invariant if it does at w itself, and deletes the
\* hash only with the package whole in its own directory.
LEMMA Local ==
    ASSUME IInv, TypeOK', NEW w \in Worker, OthersStay(w),
           hash' = hash \/ (hash' = {} /\ pc[w] = "delete"),
           UploadedOnce => FetchingAt(w)',
           Shared' => SharingAt(w)'
    PROVE  IInv'
<1>2. WholeHash'
  BY DEF IInv, WholeHash, UploadedOnce, OthersStay
<1>3. Fetching'
  BY DEF IInv, Fetching, FetchingAt, UploadedOnce, OthersStay
<1>4. Sharing'
  <2> SUFFICES ASSUME Shared' PROVE Sharing'
    BY DEF Sharing
  <2>1. Shared
    BY DEF Shared, UploadedOnce, OthersStay, IInv, TypeOK
  <2>2. hash' = hash
    BY <2>1 DEF IInv, Sharing, SharingAt
  <2> QED BY <2>1, <2>2 DEF IInv, Sharing, SharingAt, OthersStay
<1> QED BY <1>2, <1>3, <1>4 DEF IInv

-----------------------------------------------------------------------------
(* The actions of a worker.                                                *)

\* Pruning and looking for the package keep the invariant:
\* a directory that is there and not being filled is whole.
LEMMA GetPackageKeeps ==
    ASSUME IInv, TypeOK', NEW w \in Worker, GetPackage(w)
    PROVE  IInv'
<1> USE DEF IInv, TypeOK, redis, directory, Goto
<1>2. hash' = hash /\ UNCHANGED uploads /\ (Shared' => Shared)
  BY DEF GetPackage, Shared, UploadedOnce
<1>3. CASE present[w] /\ ~Expired(w) /\ Goto(w, "config") /\ UNCHANGED directory
  <2>1. pc'[w] = "config" /\ present[w] /\ cached'[w] = cached[w]
    BY <1>3
  <2>2. Shared' => SharingAt(w)'
    BY <1>2, <2>1 DEF SharingAt, Sharing, GetPackage
  <2> QED BY <1>2, <2>1, <2>2, FetchStays, Local DEF FetchingAt
<1>4. CASE Clear(w) /\ \E stage \in {"url", "hkeys"} : Goto(w, stage)
  <2>1. pc'[w] \in {"url", "hkeys"} /\ ~present'[w]
    BY <1>4 DEF Clear
  <2> QED BY <1>2, <2>1, FetchStays, Local DEF FetchingAt, SharingAt
<1> QED BY <1>3, <1>4 DEF GetPackage

\* The steps that only read: they leave the hash and the directories alone.
LEMMA ReadingKeeps ==
    ASSUME IInv, TypeOK', NEW w \in Worker,
           FetchUrl(w) \/ ListFiles(w) \/ EndFiles(w) \/ CheckPersistent(w)
               \/ LoadConfig(w) \/ EndJob(w)
    PROVE  IInv'
<1> USE DEF redis, directory, Goto, Fault
<1>1. OthersStay(w)
  BY FetchStays DEF IInv, Fetch
<1>3. /\ UNCHANGED <<hash, uploads, offered, uploading, directory>>
      /\ Shared' => Shared /\ faults' = faults
  BY DEF FetchUrl, ListFiles, EndFiles, CheckPersistent, LoadConfig, EndJob, Shared, UploadedOnce,
     IInv, TypeOK
<1>4. ASSUME UploadedOnce PROVE FetchingAt(w)'
  <2> USE DEF IInv, TypeOK
  <2>1. FetchingAt(w)
    BY <1>4 DEF Fetching
  <2>2. CASE FetchUrl(w)
    BY <1>3, <2>2 DEF FetchUrl, FetchingAt
  <2>3. CASE ListFiles(w)
    <3>1. CASE hash = {}
      BY <2>3, <3>1 DEF ListFiles, FetchingAt
    <3>2. CASE hash # {}
      <4>1. hash \ {Option} = File
        BY <1>4, <2>1, <3>2, PackageCacheAssumption DEF WholeHash
      <4>2. pc'[w] = "hget" /\ keys'[w] = File /\ cached'[w] \subseteq File
        BY <2>3, <3>2, <4>1 DEF ListFiles
      <4> QED BY <4>2 DEF FetchingAt
    <3> QED BY <3>1, <3>2
  <2>4. CASE EndFiles(w)
    BY <1>3, <2>1, <2>4 DEF EndFiles, FetchingAt
  <2>5. CASE CheckPersistent(w)
    BY <1>3, <2>1, <2>5 DEF CheckPersistent, FetchingAt
  <2>6. CASE LoadConfig(w) \/ EndJob(w)
    BY <1>3, <2>1, <2>6 DEF LoadConfig, EndJob, FetchingAt
  <2> QED BY <2>2, <2>3, <2>4, <2>5, <2>6
<1>5. ASSUME Shared' PROVE SharingAt(w)'
  <2> USE DEF IInv, TypeOK
  <2>1. /\ SharingAt(w) /\ FetchingAt(w) /\ hash = offered /\ Option \in offered
        /\ faults' = faults /\ offered # {}
    <3>1. Shared /\ faults' = faults
      BY <1>3, <1>5
    <3>2. hash = offered /\ SharingAt(w)
      BY <3>1 DEF Sharing
    <3> QED BY <3>1, <3>2, PackageCacheAssumption DEF Shared, Fetching
  <2>2. CASE FetchUrl(w)
    BY <1>3, <2>1, <2>2 DEF FetchUrl, SharingAt
  <2>3. CASE ListFiles(w)
    BY <1>3, <2>1, <2>3 DEF ListFiles, SharingAt
  <2>4. CASE EndFiles(w)
    BY <1>3, <2>1, <2>4 DEF EndFiles, SharingAt, FetchingAt
  <2>5. CASE CheckPersistent(w)
    BY <1>3, <2>1, <2>5 DEF CheckPersistent, SharingAt
  <2>6. CASE LoadConfig(w)
    BY <1>3, <2>1, <2>6, PackageCacheAssumption DEF LoadConfig, SharingAt
  <2>7. CASE EndJob(w)
    BY <1>3, <2>1, <2>7 DEF EndJob, SharingAt
  <2> QED BY <2>2, <2>3, <2>4, <2>5, <2>6, <2>7
<1> QED BY <1>1, <1>3, <1>4, <1>5, Local

\* The steps that write a file.
LEMMA WritingKeeps ==
    ASSUME IInv, TypeOK', NEW w \in Worker, Extract(w) \/ GetFile(w)
    PROVE  IInv'
<1> USE DEF redis, directory, Goto, Fault
<1>1. OthersStay(w)
  BY FetchStays DEF IInv, Fetch
<1>3. UNCHANGED <<hash, uploads, offered, uploading>>
  BY DEF Extract, GetFile
<1>4. SUFFICES ASSUME UploadedOnce
               PROVE  FetchingAt(w)' /\ (Shared' => SharingAt(w)')
  BY <1>1, <1>3, Local DEF Shared, UploadedOnce
<1> USE DEF IInv, TypeOK
<1>5. FetchingAt(w)
  BY <1>4 DEF Fetching
<1>6. CASE Extract(w)
  <2>1. ASSUME NEW f \in keys[w], Write(w, f, TRUE), UNCHANGED <<pc, faults>>,
               keys' = [keys EXCEPT ![w] = @ \ {f}]
        PROVE  FetchingAt(w)' /\ (Shared' => SharingAt(w)')
    <3>1. cached'[w] = cached[w] \cup {f} /\ keys'[w] = keys[w] \ {f} /\ pc'[w] = "extract"
      BY <1>6, <2>1, WriteStays DEF Extract
    <3> QED BY <1>5, <1>6, <3>1 DEF FetchingAt, SharingAt, Extract
  <2>2. CASE Fault("zip") /\ Goto(w, "idle")
    BY <2>2 DEF FetchingAt, Shared
  <2>3. CASE keys[w] = {} /\ Goto(w, "config") /\ UNCHANGED <<keys, directory, faults>>
    BY <1>5, <1>6, <2>3 DEF FetchingAt, SharingAt, Extract
  <2> QED BY <1>6, <2>1, <2>2, <2>3 DEF Extract
<1>7. CASE GetFile(w)
  <2>1. PICK f \in keys[w] : /\ Write(w, f, f \in hash)
                            /\ IF f \in hash
                               THEN keys' = [keys EXCEPT ![w] = @ \ {f}] /\ UNCHANGED pc
                               ELSE Goto(w, "down") /\ Forget(w)
    BY <1>7 DEF GetFile
  <2>2. UNCHANGED faults /\ pc[w] = "hget"
    BY <1>7, <2>1 DEF GetFile
  <2>3. CASE f \in hash
    <3>1. cached'[w] = cached[w] \cup {f} /\ keys'[w] = keys[w] \ {f} /\ pc'[w] = "hget"
      BY <2>1, <2>2, <2>3 DEF Write
    <3> QED BY <1>5, <2>2, <3>1 DEF FetchingAt, SharingAt
  <2>4. CASE f \notin hash
    <3>1. pc'[w] = "down"
      BY <2>1, <2>4
    <3>2. ~Shared'
      <4> SUFFICES ASSUME Shared' PROVE FALSE
        OBVIOUS
      <4>1. Shared /\ hash = offered
        BY <1>3, <1>5, <2>2 DEF Shared, UploadedOnce, Sharing
      <4> QED BY <1>4, <2>4, <4>1 DEF WholeHash
    <3> QED BY <3>1, <3>2 DEF FetchingAt
  <2> QED BY <2>3, <2>4
<1> QED BY <1>6, <1>7

\* The DEL is that of a worker that has everything,
LEMMA DeleteKeeps ==
    ASSUME IInv, TypeOK', NEW w \in Worker, Delete(w)
    PROVE  IInv'
<1>1. OthersStay(w) /\ pc[w] = "delete" /\ pc'[w] = "config" /\ hash' = {}
  BY FetchStays DEF IInv, TypeOK, Fetch, Delete, Goto
<1>3. ~Shared'
  BY <1>1 DEF IInv, Sharing, SharingAt, Shared, UploadedOnce, OthersStay, Delete
<1> QED BY <1>1, <1>3, Local DEF FetchingAt

\* a restarted worker has what its directory has,
LEMMA RestartKeeps ==
    ASSUME IInv, TypeOK', NEW w \in Worker, Restart(w)
    PROVE  IInv'
<1>1. OthersStay(w) /\ pc[w] = "down" /\ pc'[w] = "idle" /\ hash' = hash
  BY FetchStays DEF IInv, TypeOK, Fetch, Restart, Goto, redis
<1>4. ~Shared'
  BY <1>1 DEF IInv, Sharing, SharingAt, Shared, UploadedOnce, OthersStay, Restart
<1> QED BY <1>1, <1>4, Local DEF FetchingAt

\* and a fault ends what Sharing promises.
LEMMA FaultKeeps ==
    ASSUME IInv, TypeOK', NEW w \in Worker, Drop(w) \/ Crash(w)
    PROVE  IInv'
<1>1. /\ OthersStay(w) /\ faults' > 0 /\ pc'[w] = "down"
      /\ pc[w] \notin {"extract", "hget"} => UNCHANGED present
  BY FaultStays DEF IInv
<1>2. hash' = hash \/ (hash' = {} /\ pc[w] = "delete")
  BY DEF Drop, Crash, redis
<1>4. ~Shared'
  BY <1>1 DEF Shared, IInv, TypeOK
<1> QED BY <1>1, <1>2, <1>4, Local DEF FetchingAt

-----------------------------------------------------------------------------
(* The uploads and the clock.                                              *)

\* Another upload ends what the invariant promises,
LEMMA BeginUploadKeeps ==
    ASSUME IInv, TypeOK', BeginUpload
    PROVE  IInv'
<1>1. ~UploadedOnce'
  BY DEF IInv, TypeOK, BeginUpload, UploadedOnce
<1> QED BY <1>1 DEF IInv, WholeHash, Fetching, Sharing, Shared

\* moves one field after the other into the hash,
LEMMA PutFileKeeps ==
    ASSUME IInv, TypeOK', PutFile
    PROVE  IInv'
<1>1. ~UploadedOnce'
  BY DEF PutFile, IInv, WholeHash, UploadedOnce
<1> QED BY <1>1 DEF IInv, WholeHash, Fetching, Sharing, Shared

\* and an hour only makes a directory old.
LEMMA HourKeeps ==
    ASSUME IInv, TypeOK', NEW w \in Worker, Hour(w)
    PROVE  IInv'
BY DEF IInv, Hour, redis, directory, WholeHash, Fetching, FetchingAt, Sharing,
   SharingAt, Shared, UploadedOnce

-----------------------------------------------------------------------------
\* The invariant holds at first,
LEMMA Initial == Init => IInv
<1> SUFFICES ASSUME Init PROVE IInv
  OBVIOUS
<1>1. TypeOK
  BY PackageCacheAssumption DEF Init, TypeOK
<1>2. WholeHash
  BY DEF Init, WholeHash
<1>3. Fetching /\ Sharing
  BY DEF Init, Fetching, FetchingAt, Sharing, SharingAt
<1> QED BY <1>1, <1>2, <1>3 DEF IInv

\* and every step keeps it.
LEMMA Preserved == IInv /\ [Next]_vars => IInv'
<1> SUFFICES ASSUME IInv, [Next]_vars PROVE IInv'
  OBVIOUS
<1>1. TypeOK'
  BY TypePreserved DEF IInv
<1>2. CASE UNCHANGED vars
  BY <1>1, <1>2 DEF vars, redis, directory, IInv, WholeHash, Fetching, FetchingAt,
     Sharing, SharingAt, Shared, UploadedOnce
<1>3. CASE BeginUpload \/ PutFile \/ \E w \in Worker : Hour(w)
  BY <1>1, <1>3, BeginUploadKeeps, PutFileKeeps, HourKeeps
<1>4. ASSUME NEW w \in Worker, GetPackage(w) \/ Fetch(w) \/ Drop(w) \/ Crash(w)
      PROVE  IInv'
  BY <1>1, <1>4, GetPackageKeeps, ReadingKeeps, WritingKeeps, DeleteKeeps, RestartKeeps, FaultKeeps
     DEF Fetch
<1> QED BY <1>2, <1>3, <1>4 DEF Next

\* In every reachable state before a second upload Redis has all of the package or
\* nothing, and a fetch adds up to it.
THEOREM Invariance == Spec => []IInv
BY Initial, Preserved, PTL DEF Spec

\* Before a second upload and without a fault, whoever uses a persistent package
\* has all of it in its own directory, with any workers and any pruning.
THEOREM PersistentIsWhole == Spec => []PersistentWhole
<1>1. IInv => PersistentWhole
  BY DEF IInv, Sharing, SharingAt, Shared, PersistentWhole, WholePackage
<1> QED BY <1>1, Invariance, PTL

\* Before a second upload the hash is emptied only by a worker that has the whole
\* package, whatever faults there were and whether its DEL is answered.
THEOREM CopyIsKept == Spec => KeptBySomebody
<1>1. ASSUME IInv, [Next]_vars, UploadedOnce', hash # {}, hash' = {}
      PROVE  \E w \in Worker : cached'[w] = File
  <2>1. PICK w \in Worker : /\ pc[w] = "delete" /\ UNCHANGED <<uploads, directory>>
    <3>1. CASE UNCHANGED vars
      BY <1>1, <3>1 DEF vars, redis
    <3>2. CASE BeginUpload
      BY <1>1, <3>2 DEF BeginUpload, UploadedOnce, IInv, TypeOK
    <3>3. CASE PutFile \/ \E v \in Worker : Hour(v)
      BY <1>1, <3>3 DEF PutFile, Hour, redis
    <3>4. ASSUME NEW w \in Worker, GetPackage(w) \/ Fetch(w) \/ Drop(w) \/ Crash(w)
          PROVE  pc[w] = "delete" /\ UNCHANGED <<uploads, directory>>
      BY <1>1, <3>4 DEF GetPackage, Fetch, FetchUrl, Extract, ListFiles, GetFile, EndFiles,
         CheckPersistent, Delete, LoadConfig, EndJob, Restart, Drop, Crash, redis
    <3> QED BY <1>1, <3>1, <3>2, <3>3, <3>4 DEF Next
  <2> QED BY <1>1, <2>1 DEF IInv, Fetching, FetchingAt, UploadedOnce, directory
<1> QED BY <1>1, Invariance, PTL DEF Spec, KeptBySomebody
=============================================================================
