-------------------------- MODULE ConfigStore_proofs --------------------------
(***************************************************************************)
(* Theorems about ConfigStore, for any set of writers and values, any      *)
(* number of power cuts and failures, as long as no two calls of update()  *)
(* or resetToDefaults() overlap: update() takes its copy and persists it   *)
(* without a lock (ConfigManager.cpp:136), and two of them share one       *)
(* temporary file, so without that condition the theorems are false.       *)
(***************************************************************************)
EXTENDS ConfigStore, TLAPS

\* At most one thread is inside load(), update() or resetToDefaults().
Exclusive == \A s, t \in Threads : pc[s] # "idle" /\ pc[t] # "idle" => s = t

----------------------------------------------------------------------------
(* Type correctness.                                                       *)

LEMMA DefaultsAreConfigs == defaults \in Configs
BY ConfigConstants DEF defaults, Configs

LEMMA EmptyFile == {} \in Contents
BY DEF Contents

LEMMA ConfigTypeInit == Init => TypeOK
<1> SUFFICES ASSUME Init PROVE TypeOK  OBVIOUS
<1>1. /\ pc \in [Threads -> Places] /\ fd \in [Threads -> Inodes \union {None}]
      /\ \A t \in Threads : fd[t] = None /\ pc[t] \notin {"write", "sync"}
  BY DEF Init, Places
<1>2. content \in [Inodes -> Contents] /\ bak \in Contents /\ dirty \subseteq Inodes
  BY EmptyFile DEF Init
<1>3. cand \in [Threads -> Configs] /\ {memory, promised, attempted} \subseteq Configs
  BY DefaultsAreConfigs DEF Init
<1>4. /\ {primary, tmp, onDisk} \subseteq Inodes \union {None}
      /\ why \in {"seed", "recover", "revert"}
      /\ crashes \in 0..MaxCrashes /\ faults \in 0..MaxFaults
  BY ConfigConstants DEF Init
<1>5. bakDirty \in BOOLEAN /\ up \in BOOLEAN
  BY Zenon DEF Init
<1> QED  BY <1>1, <1>2, <1>3, <1>4, <1>5 DEF TypeOK

(* A new temporary gets an inode that nobody refers to.                    *)
LEMMA FreshInode ==
  ASSUME TypeOK, Exclusive, tmp = None,
         NEW t \in Threads, pc[t] = "open"
  PROVE  Fresh \in Inodes /\ Fresh \notin {primary, onDisk} /\ Fresh # None
<1>1. \A s \in Threads : fd[s] = None
  BY DEF Exclusive, TypeOK, Places
<1>2. \E k \in Inodes : k \notin InUse
  <2>1. PICK k \in Inodes : k \notin {primary, onDisk}
    BY EnoughInodes DEF TypeOK, None
  <2>2. k # None
    BY ConfigConstants DEF None
  <2> QED  BY <1>1, <2>1, <2>2 DEF InUse
<1>3. Fresh \in Inodes /\ Fresh \notin InUse
  BY <1>2 DEF Fresh
<1> QED  BY <1>3, ConfigConstants DEF InUse, None

LEMMA EndTypes ==
  ASSUME TypeOK, NEW ok \in BOOLEAN, LoadEnds(ok)
  PROVE  /\ memory' \in Configs /\ up' \in BOOLEAN
         /\ \E l \in {"idle", "load"} : Goto("boot", l)
<1>1. up' \in BOOLEAN
  BY Zenon DEF LoadEnds
<1>2. memory' \in Configs
  BY DEF LoadEnds, TypeOK, Threads
<1>3. \E l \in {"idle", "load"} : Goto("boot", l)
  BY <1>1 DEF LoadEnds
<1> QED  BY <1>1, <1>2, <1>3

LEMMA PersistTypeStep ==
  ASSUME TypeOK, Exclusive, NEW t \in Threads, Persist(t) PROVE TypeOK'
<1> USE ConfigConstants DEF TypeOK, Goto, Places
<1>1. CASE BackupBegins(t)
  BY <1>1 DEF BackupBegins, names, history, counters, Contents
<1>2. CASE BackupEnds(t)
  BY <1>2 DEF BackupEnds, names, history, counters
<1>3. CASE Open(t)
  <2> DEFINE i == IF tmp = None THEN Fresh ELSE tmp
  <2>1. i \in Inodes /\ i # None
    BY <1>3, FreshInode DEF Open
  <2>2. /\ tmp' = i /\ fd' = [fd EXCEPT ![t] = i]
        /\ content' = [content EXCEPT ![i] = {}] /\ dirty' = dirty \union {i}
        /\ pc[t] = "open" /\ pc' = [pc EXCEPT ![t] = "write"]
        /\ UNCHANGED <<primary, onDisk, bak, bakDirty, cand, memory, up, why, history, counters>>
    BY <1>3, Zenon DEF Open
  <2> HIDE DEF i
  <2> QED  BY EmptyFile, <2>1, <2>2 DEF history, counters
<1>4. CASE Write(t)
  BY <1>4 DEF Write, names, history, counters, Contents
<1>5. CASE Sync(t)
  BY <1>5 DEF Sync, Close, names, history, counters
<1>6. CASE Rename(t)
  BY <1>6 DEF Rename, data, history, counters
<1>7. CASE DirSync(t)
  BY <1>7 DEF DirSync, data, history, counters
<1>8. CASE Fail(t)
  <2>1. /\ memory' \in Configs /\ up' \in BOOLEAN
        /\ \E l \in {"idle", "load"} : Goto(t, l)
    BY <1>8, EndTypes DEF Fail, Threads
  <2> QED  BY <1>8, <2>1 DEF Fail, Close, data, history, counters
<1>9. CASE Publish(t)
  <2>1. /\ memory' \in Configs /\ promised' \in Configs /\ up' \in BOOLEAN
        /\ \E l \in {"idle", "load"} : Goto(t, l)
    <3>1. CASE t = "boot" /\ LoadEnds(TRUE) /\ UNCHANGED promised
      BY <3>1, EndTypes
    <3>2. CASE t \in Writers /\ Goto(t, "idle") /\ memory' = cand[t] /\ promised' = cand[t]
               /\ UNCHANGED up
      BY <3>2
    <3> QED  BY <1>9, <3>1, <3>2 DEF Publish
  <2> QED  BY <1>9, <2>1 DEF Publish, names, data, counters
<1>10. CASE DirSyncFails(t)
  BY <1>10 DEF DirSyncFails, names, data, history
<1> QED  BY <1>1, <1>2, <1>3, <1>4, <1>5, <1>6, <1>7, <1>8, <1>9, <1>10 DEF Persist

LEMMA LoadTypeStep ==
  ASSUME TypeOK, LoadAdopts \/ LoadSeeds \/ LoadRecovers \/ LoadReverts PROVE TypeOK'
<1> USE ConfigConstants DEF TypeOK, Goto, Places
<1>1. "boot" \in Threads
  BY DEF Threads
<1>2. CASE LoadAdopts
  <2>1. memory' \in Configs
    BY <1>2 DEF LoadAdopts, Readable, Contents
  <2> QED  BY <1>1, <1>2, <2>1 DEF LoadAdopts, names, data, history, counters
<1>3. ASSUME NEW c \in Configs, NEW r \in {"seed", "recover", "revert"}, LoadPersists(r, c)
      PROVE  TypeOK'
  BY <1>1, <1>3 DEF LoadPersists, data, history, counters
<1>4. CASE LoadRecovers
  BY <1>3, <1>4 DEF LoadRecovers, Contents
<1> QED  BY <1>2, <1>3, <1>4, DefaultsAreConfigs DEF LoadSeeds, LoadReverts

LEMMA ConfigTypeStep == TypeOK /\ Exclusive /\ [Next]_vars => TypeOK'
<1> SUFFICES ASSUME TypeOK, Exclusive, [Next]_vars PROVE TypeOK'  OBVIOUS
<1> USE ConfigConstants
<1>1. ASSUME NEW w \in Writers, update(w) \/ resetToDefaults(w) PROVE TypeOK'
  <2>1. PICK c \in Configs : Begin(w, c)
    BY <1>1, DefaultsAreConfigs DEF update, resetToDefaults, TypeOK, Configs
  <2> QED
    BY <2>1 DEF Begin, Goto, TypeOK, Places, Threads, names, data, history, counters
<1>2. CASE LoadAdopts \/ LoadSeeds \/ LoadRecovers \/ LoadReverts
  BY <1>2, LoadTypeStep
<1>3. CASE \E t \in Threads : Persist(t)
  BY <1>3, PersistTypeStep
<1>4. CASE Writeback
  BY <1>4 DEF Writeback, TypeOK, names, threads, history, counters
<1>5. CASE Crash
  <2>1. content' \in [Inodes -> Contents] /\ bak' \in Contents
    BY <1>5, EmptyFile DEF Crash, TypeOK
  <2>2. /\ pc' \in [Threads -> Places] /\ fd' \in [Threads -> Inodes \union {None}]
        /\ \A t \in Threads : fd'[t] = None /\ pc'[t] \notin {"write", "sync"}
    BY <1>5 DEF Crash, Places
  <2>3. /\ {primary', tmp', onDisk'} \subseteq Inodes \union {None}
        /\ dirty' \subseteq Inodes /\ crashes' \in 0..MaxCrashes
        /\ UNCHANGED <<cand, memory, why, promised, attempted, faults>>
    BY <1>5 DEF Crash, TypeOK, history
  <2>4. bakDirty' \in BOOLEAN /\ up' \in BOOLEAN
    BY <1>5, Zenon DEF Crash
  <2> QED  BY <2>1, <2>2, <2>3, <2>4 DEF TypeOK
<1>6. CASE Rot
  BY <1>6 DEF Rot, Readable, TypeOK, Contents, names, threads, history
<1>7. CASE UNCHANGED vars
  BY <1>7 DEF vars, TypeOK, names, data, threads, history, counters
<1> QED  BY <1>1, <1>2, <1>3, <1>4, <1>5, <1>6, <1>7 DEF Next

(* Every variable keeps its type and a descriptor is open exactly where    *)
(* atomicWriteFile() uses it: one that fails never leaks it.               *)
THEOREM ConfigTypeCorrect == Spec /\ []Exclusive => []TypeOK
BY ConfigTypeInit, ConfigTypeStep, PTL DEF Spec

----------------------------------------------------------------------------
(* The inductive invariant, for a file nothing but the program has touched. *)

Stored(i) == i \notin dirty /\ content[i] \in {{promised}, {attempted}}

(* What config.json names, now and after a power cut, is complete and on   *)
(* the disk; the two differ only between the rename and its sync.  There   *)
(* is none before the first boot has seeded the defaults.                  *)
FilesInv ==
  /\ why = "seed"
  /\ \A i \in {primary, onDisk} \ {None} : Stored(i)
  /\ primary = None => onDisk = None
  /\ onDisk = None => ~up /\ promised = defaults /\ attempted = defaults
  /\ (\A t \in Threads : pc[t] # "dirsync") => primary = onDisk
  /\ tmp # None => tmp \notin {primary, onDisk}

(* How far the thread in persist() has got with its candidate.             *)
ThreadInv ==
  \A t \in Threads :
    /\ pc[t] \in {"write", "sync"} => fd[t] = tmp
    /\ pc[t] = "sync" => content[tmp] = {cand[t]}
    /\ pc[t] = "rename" => tmp # None /\ tmp \notin dirty /\ content[tmp] = {cand[t]}
    /\ pc[t] \in {"dirsync", "publish"} => primary # None /\ content[primary] = {cand[t]}

(* Whose change it is, and what memory holds meanwhile.                    *)
PhaseInv ==
  /\ up <=> pc["boot"] = "idle"
  /\ pc["boot"] \notin {"idle", "load"} =>
       cand["boot"] = defaults /\ promised = defaults /\ attempted = defaults
  /\ \A w \in Writers : pc[w] # "idle" => up /\ promised = memory /\ attempted = cand[w]
  /\ up => memory \in {promised, attempted}
  /\ up /\ (\A w \in Writers : pc[w] \notin {"dirsync", "publish"}) => content[primary] = {memory}

StoreInv == faults = 0 => FilesInv /\ ThreadInv /\ PhaseInv

LEMMA StoreInit == Init => StoreInv
BY ConfigConstants DEF Init, StoreInv, FilesInv, ThreadInv, PhaseInv, Threads, None

(* The candidate becomes current: where the active thread is in persist(), *)
(* its candidate is the change that was begun last.                        *)
LEMMA CandidateAttempted ==
  ASSUME FilesInv, PhaseInv, NEW t \in Threads, pc[t] \notin {"idle", "load"}
  PROVE  cand[t] = attempted
BY DEF PhaseInv, Threads

LEMMA BackupStoreStep ==
  ASSUME TypeOK, Exclusive, FilesInv, ThreadInv, PhaseInv,
         NEW t \in Threads, BackupBegins(t) \/ BackupEnds(t)
  PROVE  FilesInv' /\ ThreadInv' /\ PhaseInv'
BY ConfigConstants
   DEF BackupBegins, BackupEnds, Goto, TypeOK, Exclusive, FilesInv, ThreadInv, PhaseInv,
       Stored, names, history, counters, Threads, Places

LEMMA OpenStoreStep ==
  ASSUME TypeOK, Exclusive, FilesInv, ThreadInv, PhaseInv, NEW t \in Threads, Open(t)
  PROVE  FilesInv' /\ ThreadInv' /\ PhaseInv'
<1> DEFINE i == IF tmp = None THEN Fresh ELSE tmp
<1>1. i \in Inodes /\ i # None /\ i \notin {primary, onDisk}
  BY FreshInode DEF Open, FilesInv, TypeOK
<1>2. /\ tmp' = i /\ fd' = [fd EXCEPT ![t] = i]
      /\ content' = [content EXCEPT ![i] = {}] /\ dirty' = dirty \union {i}
      /\ pc[t] = "open" /\ pc' = [pc EXCEPT ![t] = "write"]
      /\ UNCHANGED <<primary, onDisk, bak, bakDirty, cand, memory, up, why, history, counters>>
  BY Zenon DEF Open, Goto
<1> HIDE DEF i
<1>3. UNCHANGED <<promised, attempted>>
  BY <1>2 DEF history
<1>4. FilesInv'
  BY <1>1, <1>2, <1>3, ConfigConstants DEF FilesInv, Stored, TypeOK
<1>5. ThreadInv'
  BY <1>1, <1>2, <1>3, ConfigConstants DEF ThreadInv, TypeOK, Exclusive
<1>6. PhaseInv'
  BY <1>1, <1>2, <1>3, ConfigConstants DEF PhaseInv, FilesInv, TypeOK, Threads
<1> QED  BY <1>4, <1>5, <1>6

LEMMA WriteStoreStep ==
  ASSUME TypeOK, Exclusive, FilesInv, ThreadInv, PhaseInv, NEW t \in Threads,
         Write(t) \/ Sync(t)
  PROVE  FilesInv' /\ ThreadInv' /\ PhaseInv'
<1>1. fd[t] = tmp /\ tmp \in Inodes /\ tmp # None /\ tmp \notin {primary, onDisk}
  BY DEF Write, Sync, TypeOK, ThreadInv, FilesInv
<1>2. /\ UNCHANGED <<primary, tmp, onDisk, cand, memory, up, why, promised, attempted>>
      /\ \A i \in Inodes \ {tmp} : content'[i] = content[i] /\ (i \in dirty' <=> i \in dirty)
      /\ pc[t] \in {"write", "sync"} /\ \E l \in {"sync", "rename"} : pc' = [pc EXCEPT ![t] = l]
  BY <1>1 DEF Write, Sync, Goto, TypeOK, names, history
<1>3. \A i \in {primary, onDisk} \ {None} :
         i \in Inodes \ {tmp} /\ content'[i] = content[i] /\ (i \in dirty' <=> i \in dirty)
  BY <1>1, <1>2 DEF TypeOK
<1>4. FilesInv'
  BY <1>1, <1>2, <1>3 DEF FilesInv, Stored, TypeOK
<1>5. ThreadInv'
  BY <1>1, ConfigConstants DEF Write, Sync, Goto, Close, ThreadInv, TypeOK, Exclusive, names
<1>6. PhaseInv'
  <2>1. primary = None => ~up
    BY DEF FilesInv
  <2> QED  BY <1>1, <1>2, <1>3, <2>1, ConfigConstants DEF PhaseInv, TypeOK, Threads
<1> QED  BY <1>4, <1>5, <1>6

LEMMA RenameStoreStep ==
  ASSUME TypeOK, Exclusive, FilesInv, ThreadInv, PhaseInv, NEW t \in Threads,
         Rename(t) \/ DirSync(t)
  PROVE  FilesInv' /\ ThreadInv' /\ PhaseInv'
<1>1. cand[t] = attempted
  BY CandidateAttempted DEF Rename, DirSync
<1>2. FilesInv'
  BY <1>1, ConfigConstants
     DEF Rename, DirSync, Goto, FilesInv, ThreadInv, Stored, TypeOK, Exclusive, data, history
<1>3. ThreadInv'
  BY ConfigConstants DEF Rename, DirSync, Goto, ThreadInv, TypeOK, Exclusive, data
<1>4. PhaseInv'
  BY <1>1, ConfigConstants
     DEF Rename, DirSync, Goto, PhaseInv, FilesInv, TypeOK, Exclusive, Threads, data, history
<1> QED  BY <1>2, <1>3, <1>4

(* A call that fails before the rename leaves everything as it was; one    *)
(* that is through has put its candidate where a power cut leaves it.      *)
LEMMA FailStoreStep ==
  ASSUME TypeOK, Exclusive, FilesInv, ThreadInv, PhaseInv, NEW t \in Threads, Fail(t)
  PROVE  FilesInv' /\ ThreadInv' /\ PhaseInv'
<1>1. /\ UNCHANGED <<primary, onDisk, content, dirty, cand, why, promised, attempted>>
      /\ tmp' \in {tmp, None} /\ pc[t] \in {"open", "write", "sync", "rename"}
      /\ fd' = [fd EXCEPT ![t] = None]
  BY DEF Fail, Close, data, history
<1>2. CASE t = "boot"
  <2>1. ~up /\ ~up' /\ pc' = [pc EXCEPT ![t] = "load"]
    BY <1>1, <1>2, ConfigConstants DEF Fail, LoadEnds, Goto, FilesInv, PhaseInv
  <2>2. \A w \in Writers : pc[w] = "idle" /\ pc'[w] = "idle"
    BY <1>1, <1>2, <2>1, ConfigConstants DEF Exclusive, TypeOK, Threads
  <2>3. FilesInv' /\ ThreadInv'
    BY <1>1, <1>2, <2>1, <2>2 DEF FilesInv, ThreadInv, Stored, TypeOK, Threads
  <2>4. PhaseInv'
    BY <1>1, <1>2, <2>1, <2>2 DEF PhaseInv, TypeOK
  <2> QED  BY <2>3, <2>4
<1>3. CASE t \in Writers
  <2>1. UNCHANGED <<memory, up>> /\ pc' = [pc EXCEPT ![t] = "idle"]
    BY <1>3, ConfigConstants DEF Fail, Goto
  <2>2. FilesInv'
    BY <1>1, <2>1 DEF FilesInv, Stored, TypeOK
  <2>3. ThreadInv'
    BY <1>1, <2>1 DEF ThreadInv, TypeOK, Exclusive
  <2>4. PhaseInv'
    BY <1>1, <1>3, <2>1, ConfigConstants DEF PhaseInv, TypeOK, Threads
  <2> QED  BY <2>2, <2>3, <2>4
<1> QED  BY <1>2, <1>3 DEF Threads

LEMMA PublishStoreStep ==
  ASSUME TypeOK, Exclusive, FilesInv, ThreadInv, PhaseInv, NEW t \in Threads, Publish(t)
  PROVE  FilesInv' /\ ThreadInv' /\ PhaseInv'
<1>1. /\ UNCHANGED <<primary, tmp, onDisk, content, dirty, fd, cand, why, attempted>>
      /\ pc[t] = "publish" /\ primary # None /\ content[primary] = {cand[t]}
      /\ primary = onDisk
  BY DEF Publish, names, data, ThreadInv, FilesInv, Exclusive
<1>2. cand[t] = attempted
  BY CandidateAttempted DEF Publish
<1>3. /\ pc' = [pc EXCEPT ![t] = "idle"] /\ memory' = cand[t] /\ up'
      /\ promised' \in {promised, cand[t]}
  <2>1. CASE t = "boot"
    BY <2>1, ConfigConstants DEF Publish, LoadEnds, Goto, FilesInv
  <2>2. CASE t \in Writers
    BY <2>2, ConfigConstants DEF Publish, Goto, PhaseInv
  <2> QED  BY <2>1, <2>2 DEF Threads
<1>4. \A s \in Threads : pc'[s] = "idle"
  BY <1>1, <1>3 DEF Exclusive, TypeOK
<1>5. FilesInv'
  BY <1>1, <1>2, <1>3, <1>4 DEF FilesInv, Stored
<1>6. ThreadInv'
  BY <1>4 DEF ThreadInv
<1>7. PhaseInv'
  BY <1>1, <1>2, <1>3, <1>4 DEF PhaseInv, Threads
<1> QED  BY <1>5, <1>6, <1>7

(* A boot adopts what is stored, and the other branches of load() are only *)
(* taken before anything is.                                               *)
LEMMA LoadStoreStep ==
  ASSUME TypeOK, Exclusive, FilesInv, ThreadInv, PhaseInv,
         LoadAdopts \/ LoadSeeds \/ LoadRecovers \/ LoadReverts
  PROVE  FilesInv' /\ ThreadInv' /\ PhaseInv'
<1>1. "boot" \in Threads /\ pc["boot"] = "load"
  BY DEF Threads, LoadAdopts, LoadSeeds, LoadRecovers, LoadReverts, LoadPersists
<1>2. \A s \in Threads : s # "boot" => pc[s] = "idle"
  BY <1>1 DEF Exclusive
<1>3. primary = onDisk
  BY <1>1, <1>2 DEF FilesInv
<1>4. CASE LoadAdopts
  <2>1. /\ UNCHANGED <<primary, tmp, onDisk, content, dirty, fd, cand, why, promised, attempted>>
        /\ primary # None /\ content[primary] # {} /\ memory' \in content[primary] /\ up'
        /\ pc' = [pc EXCEPT !["boot"] = "idle"]
    BY <1>4 DEF LoadAdopts, Readable, Goto, names, data, history
  <2>2. memory' \in {promised, attempted} /\ content[primary] = {memory'}
    BY <2>1 DEF FilesInv, Stored
  <2>3. \A s \in Threads : pc'[s] = "idle"
    BY <1>1, <1>2, <2>1 DEF TypeOK
  <2>4. FilesInv'
    BY <1>3, <2>1, <2>3 DEF FilesInv, Stored
  <2>5. ThreadInv' /\ PhaseInv'
    BY <2>1, <2>2, <2>3 DEF ThreadInv, PhaseInv, Threads
  <2> QED  BY <2>4, <2>5
<1>5. CASE LoadSeeds
  <2>1. /\ primary = None /\ primary' = None /\ why' = "seed"
        /\ UNCHANGED <<tmp, onDisk, content, dirty, fd, memory, up, promised, attempted>>
        /\ cand' = [cand EXCEPT !["boot"] = defaults] /\ pc' = [pc EXCEPT !["boot"] = "backup"]
    BY <1>5 DEF LoadSeeds, LoadPersists, Goto, data, history
  <2>2. FilesInv' /\ ThreadInv'
    BY <1>1, <1>2, <1>3, <2>1 DEF FilesInv, ThreadInv, Stored, TypeOK
  <2>3. PhaseInv'
    BY <1>1, <1>2, <1>3, <2>1, ConfigConstants DEF FilesInv, PhaseInv, TypeOK, Threads
  <2> QED  BY <2>2, <2>3
<1>6. ~LoadRecovers /\ ~LoadReverts
  BY DEF LoadRecovers, LoadReverts, Readable, FilesInv, Stored
<1> QED  BY <1>4, <1>5, <1>6

LEMMA BeginStoreStep ==
  ASSUME TypeOK, Exclusive, Exclusive', FilesInv, ThreadInv, PhaseInv,
         NEW w \in Writers, NEW c, Begin(w, c)
  PROVE  FilesInv' /\ ThreadInv' /\ PhaseInv'
<1>1. /\ up /\ pc[w] = "idle" /\ pc' = [pc EXCEPT ![w] = "backup"]
      /\ cand' = [cand EXCEPT ![w] = c] /\ promised' = memory /\ attempted' = c
      /\ UNCHANGED <<primary, tmp, onDisk, content, dirty, fd, memory, up, why>>
  BY DEF Begin, Goto, names, data
<1>2. w \in Threads /\ w # "boot"
  BY ConfigConstants DEF Threads
<1>3. \A s \in Threads : pc[s] = "idle"
  BY <1>1, <1>2 DEF Exclusive, TypeOK
<1>4. primary = onDisk /\ primary # None /\ content[primary] = {memory}
  BY <1>1, <1>3 DEF FilesInv, PhaseInv, Threads
<1>5. FilesInv'
  BY <1>1, <1>2, <1>3, <1>4 DEF FilesInv, Stored, TypeOK
<1>6. ThreadInv'
  BY <1>1, <1>2, <1>3 DEF ThreadInv, TypeOK
<1>7. PhaseInv'
  BY <1>1, <1>2, <1>3, <1>4 DEF PhaseInv, TypeOK, Threads
<1> QED  BY <1>5, <1>6, <1>7

(* A power cut loses nothing that a name on the disk refers to.            *)
LEMMA CrashStoreStep ==
  ASSUME TypeOK, FilesInv, ThreadInv, PhaseInv, Crash
  PROVE  FilesInv' /\ ThreadInv' /\ PhaseInv'
<1>1. /\ primary' \in {primary, onDisk} /\ onDisk' = primary' /\ tmp' = None /\ dirty' = {}
      /\ \A i \in Inodes : i \notin dirty => content'[i] = content[i]
      /\ pc' = [t \in Threads |-> IF t = "boot" THEN "load" ELSE "idle"]
      /\ ~up' /\ UNCHANGED <<cand, why, promised, attempted>>
  BY DEF Crash, history
<1>2. ASSUME primary' # None
      PROVE  primary' \notin dirty' /\ content'[primary'] \in {{promised'}, {attempted'}}
  <2>1. PICK i \in {primary, onDisk} \ {None} : i = primary'
    BY <1>1, <1>2
  <2>2. i \in Inodes /\ i \notin dirty /\ content[i] \in {{promised}, {attempted}}
    BY <2>1 DEF FilesInv, TypeOK, Stored
  <2>3. content'[i] = content[i]
    BY <1>1, <2>2
  <2> QED  BY <1>1, <2>1, <2>2, <2>3
<1>3. primary' = None => promised = defaults /\ attempted = defaults
  BY <1>1 DEF FilesInv
<1>4. FilesInv'
  BY <1>1, <1>2, <1>3 DEF FilesInv, Stored
<1>5. ThreadInv' /\ PhaseInv'
  BY <1>1, ConfigConstants DEF ThreadInv, PhaseInv, Threads
<1> QED  BY <1>4, <1>5

(* Damage is never repaired; Rot and a failed directory sync do some.      *)
LEMMA SoundBefore ==
  ASSUME TypeOK, [Next]_vars, faults' = 0
  PROVE  ~Rot /\ faults = 0 /\ \A t \in Threads : ~DirSyncFails(t)
<1>1. ~Rot /\ \A t \in Threads : ~DirSyncFails(t)
  BY DEF Rot, DirSyncFails, TypeOK
<1>2. ASSUME NEW t \in Threads, Persist(t) PROVE UNCHANGED faults
  BY <1>1, <1>2 DEF Persist, BackupBegins, BackupEnds, Open, Write, Sync, Rename, DirSync, Fail,
              Publish, counters
<1>3. CASE LoadAdopts \/ LoadSeeds \/ LoadRecovers \/ LoadReverts
  BY <1>1, <1>3 DEF LoadAdopts, LoadSeeds, LoadRecovers, LoadReverts, LoadPersists, counters
<1>4. CASE \E w \in Writers : update(w) \/ resetToDefaults(w)
  BY <1>1, <1>4 DEF update, resetToDefaults, Begin, counters
<1>5. CASE Writeback \/ Crash \/ UNCHANGED vars
  BY <1>1, <1>5 DEF Writeback, Crash, vars, counters
<1> QED  BY <1>1, <1>2, <1>3, <1>4, <1>5 DEF Next

LEMMA StoreStep ==
  TypeOK /\ Exclusive /\ Exclusive' /\ StoreInv /\ [Next]_vars => StoreInv'
<1> SUFFICES ASSUME TypeOK, Exclusive, Exclusive', StoreInv, [Next]_vars, faults' = 0
             PROVE  FilesInv' /\ ThreadInv' /\ PhaseInv'
  BY DEF StoreInv
<1>1. ~Rot /\ faults = 0 /\ \A t \in Threads : ~DirSyncFails(t)
  BY SoundBefore
<1>2. FilesInv /\ ThreadInv /\ PhaseInv
  BY <1>1 DEF StoreInv
<1>3. ASSUME NEW w \in Writers, update(w) \/ resetToDefaults(w)
      PROVE  FilesInv' /\ ThreadInv' /\ PhaseInv'
  BY <1>2, <1>3, BeginStoreStep DEF update, resetToDefaults
<1>4. CASE LoadAdopts \/ LoadSeeds \/ LoadRecovers \/ LoadReverts
  BY <1>2, <1>4, LoadStoreStep
<1>5. ASSUME NEW t \in Threads, Persist(t) PROVE FilesInv' /\ ThreadInv' /\ PhaseInv'
  BY <1>1, <1>2, <1>5, BackupStoreStep, OpenStoreStep, WriteStoreStep, RenameStoreStep,
     FailStoreStep, PublishStoreStep DEF Persist
<1>6. CASE Writeback
  BY <1>2, <1>6 DEF Writeback, FilesInv, ThreadInv, PhaseInv, Stored, names, threads, history
<1>7. CASE Crash
  BY <1>2, <1>7, CrashStoreStep
<1>8. CASE UNCHANGED vars
  BY <1>2, <1>8 DEF vars, FilesInv, ThreadInv, PhaseInv, Stored, names, data, threads, history
<1> QED  BY <1>1, <1>3, <1>4, <1>5, <1>6, <1>7, <1>8 DEF Next

LEMMA StoreInvariant == Spec /\ []Exclusive => [](TypeOK /\ StoreInv)
BY ConfigTypeInit, ConfigTypeStep, StoreInit, StoreStep, PTL DEF Spec

----------------------------------------------------------------------------
(* ConfigManager.h:18-19, "A crash never leaves a partial config.json":    *)
(* the temporary is complete and synced before it takes the name, and no   *)
(* later call truncates what the name refers to.                           *)
THEOREM NeverPartialHolds == Spec /\ []Exclusive => []NeverPartial
<1>1. TypeOK /\ StoreInv => NeverPartial
  BY DEF NeverPartial, StoreInv, FilesInv, Stored
<1> QED  BY <1>1, StoreInvariant, PTL

(* An acknowledged change survives every power cut, and one that was cut   *)
(* short is there entirely or not at all.                                  *)
THEOREM DurableHolds == Spec /\ []Exclusive => []Durable
<1>1. TypeOK /\ StoreInv => Durable
  BY DEF Durable, StoreInv, PhaseInv
<1> QED  BY <1>1, StoreInvariant, PTL

(* Whatever failed or was cut short, a device at rest runs the             *)
(* configuration it would boot with.                                       *)
THEOREM MemoryMatchesDiskHolds == Spec /\ []Exclusive => []MemoryMatchesDisk
<1>1. TypeOK /\ StoreInv => MemoryMatchesDisk
  BY DEF MemoryMatchesDisk, StoreInv, FilesInv, PhaseInv, Threads
<1> QED  BY <1>1, StoreInvariant, PTL

----------------------------------------------------------------------------
(* The refinement of ConfigRegister.                                       *)

(* What a writer is about to store is one change of what is in force.      *)
ChangeInv == \A w \in Writers : pc[w] # "idle" => cand[w] \in Register!Changes(memory)

LEMMA OneChange ==
  ASSUME TypeOK, NEW w \in Writers, update(w) \/ resetToDefaults(w)
  PROVE  \E c \in Register!Changes(memory) : Begin(w, c)
<1>1. defaults \in Register!Changes(memory)
  BY DEF Register!Changes, Register!Factory, defaults
<1>2. \A f \in Fields, v \in Values : [memory EXCEPT ![f] = v] \in Register!Changes(memory)
  BY DEF Register!Changes
<1> QED  BY <1>1, <1>2 DEF update, resetToDefaults

LEMMA ChangeStep ==
  TypeOK /\ Exclusive /\ Exclusive' /\ ChangeInv /\ [Next]_vars => ChangeInv'
<1> SUFFICES ASSUME TypeOK, Exclusive, Exclusive', ChangeInv, [Next]_vars,
                    NEW w \in Writers, pc'[w] # "idle"
             PROVE  cand'[w] \in Register!Changes(memory')
  BY DEF ChangeInv
<1>1. w \in Threads /\ w # "boot" /\ "boot" \in Threads
  BY ConfigConstants DEF Threads
<1>2. ASSUME UNCHANGED <<cand, memory>>, pc[w] # "idle" PROVE cand'[w] \in Register!Changes(memory')
  BY <1>2 DEF ChangeInv
<1>3. ASSUME NEW v \in Writers, update(v) \/ resetToDefaults(v)
      PROVE  cand'[w] \in Register!Changes(memory')
  <2>1. PICK c \in Register!Changes(memory) : Begin(v, c)
    BY <1>3, OneChange
  <2>2. v \in Threads /\ pc'[v] # "idle"
    BY <2>1 DEF Begin, Goto, TypeOK, Threads
  <2>3. v = w
    BY <1>1, <2>2 DEF Exclusive
  <2> QED  BY <1>1, <2>1, <2>3 DEF Begin, TypeOK
<1>4. CASE LoadAdopts \/ LoadSeeds \/ LoadRecovers \/ LoadReverts
  <2>1. pc["boot"] = "load" /\ pc'[w] = pc[w]
    BY <1>1, <1>4
       DEF LoadAdopts, LoadSeeds, LoadRecovers, LoadReverts, LoadPersists, Goto, TypeOK
  <2> QED  BY <1>1, <2>1 DEF Exclusive
<1>5. ASSUME NEW t \in Threads, Persist(t) PROVE cand'[w] \in Register!Changes(memory')
  <2>1. pc[t] # "idle" /\ UNCHANGED cand
    BY <1>5 DEF Persist, BackupBegins, BackupEnds, Open, Write, Sync, Rename, DirSync,
                DirSyncFails, Fail, Publish
  <2>2. pc'[w] = pc[w] \/ t = w
    BY <1>1, <1>5
       DEF Persist, BackupBegins, BackupEnds, Open, Write, Sync, Rename, DirSync, DirSyncFails, Fail,
           Publish, LoadEnds, Goto, TypeOK
  <2>3. t = w
    BY <1>1, <2>1, <2>2 DEF Exclusive
  <2>4. UNCHANGED memory
    BY <1>1, <1>5, <2>3
       DEF Persist, BackupBegins, BackupEnds, Open, Write, Sync, Rename, DirSync, DirSyncFails, Fail,
           Publish, Goto, TypeOK
  <2> QED  BY <1>2, <2>1, <2>3, <2>4
<1>6. CASE Crash
  BY <1>1, <1>6 DEF Crash
<1>7. CASE Writeback \/ Rot \/ UNCHANGED vars
  BY <1>2, <1>7 DEF Writeback, Rot, vars, threads
<1> QED  BY <1>3, <1>4, <1>5, <1>6, <1>7 DEF Next

(* Steps a caller cannot tell from none.                                   *)
LEMMA Unseen ==
  ASSUME UNCHANGED <<up, faults>>, up => memory' = memory, Outcomes' = Outcomes
  PROVE  UNCHANGED Register!registerVars
BY DEF Register!registerVars, Running

(* A thread in persist() that has not renamed anything yet.                *)
LEMMA PreparationUnseen ==
  ASSUME TypeOK, Exclusive, FilesInv, ThreadInv, PhaseInv, NEW t \in Threads,
         BackupBegins(t) \/ BackupEnds(t) \/ Open(t) \/ Write(t) \/ Sync(t) \/ Fail(t)
  PROVE  UNCHANGED Register!registerVars
<1>1. CASE BackupBegins(t) \/ BackupEnds(t)
  BY <1>1, Unseen DEF BackupBegins, BackupEnds, Outcomes, Found, names, counters
<1>2. CASE Open(t)
  <2> DEFINE i == IF tmp = None THEN Fresh ELSE tmp
  <2>1. i \in Inodes /\ i # None /\ i \notin {primary, onDisk}
    BY <1>2, FreshInode DEF Open, FilesInv, TypeOK
  <2>2. /\ content' = [content EXCEPT ![i] = {}]
        /\ UNCHANGED <<primary, onDisk, memory, up, faults>>
    BY <1>2, Zenon DEF Open, counters
  <2> HIDE DEF i
  <2> QED  BY <2>1, <2>2, Unseen DEF Outcomes, Found, TypeOK
<1>3. CASE Write(t) \/ Sync(t)
  <2>1. fd[t] = tmp /\ tmp \in Inodes /\ tmp # None /\ tmp \notin {primary, onDisk}
    BY <1>3 DEF Write, Sync, TypeOK, ThreadInv, FilesInv
  <2> QED  BY <1>3, <2>1, Unseen DEF Write, Sync, Outcomes, Found, TypeOK, names, counters
<1>4. CASE Fail(t)
  <2>1. UNCHANGED <<primary, onDisk, content, faults>> /\ pc[t] \in {"open", "write", "sync", "rename"}
    BY <1>4 DEF Fail, data, counters
  <2>2. UNCHANGED up /\ (up => memory' = memory)
    <3>1. CASE t = "boot"
      BY <1>4, <2>1, <3>1, ConfigConstants DEF Fail, LoadEnds, FilesInv, PhaseInv, TypeOK
    <3>2. CASE t \in Writers
      BY <1>4, <3>2, ConfigConstants DEF Fail
    <3> QED  BY <3>1, <3>2 DEF Threads
  <2> QED  BY <2>1, <2>2, Unseen DEF Outcomes, Found
<1> QED  BY <1>1, <1>2, <1>3, <1>4

(* While load() seeds, there is nothing but the defaults to be found.      *)
LEMMA SeedingFinds ==
  ASSUME FilesInv, PhaseInv, pc["boot"] \notin {"idle", "load"}
  PROVE  Outcomes = {defaults} /\ cand["boot"] = defaults /\ ~up
BY DEF FilesInv, PhaseInv, Stored, Outcomes, Found

(* The rename is where a change may begin to survive.                      *)
LEMMA RenameOffers ==
  ASSUME TypeOK, Exclusive, FilesInv, ThreadInv, PhaseInv, ChangeInv, NEW t \in Threads, Rename(t)
  PROVE  Register!Offer \/ UNCHANGED Register!registerVars
<1>1. /\ primary' = tmp /\ pc[t] = "rename" /\ tmp # None /\ content[tmp] = {cand[t]}
      /\ UNCHANGED <<onDisk, content, memory, up, faults>>
  BY DEF Rename, ThreadInv, data, counters
<1>2. Outcomes' = {cand[t]} \union Found(onDisk)
  BY <1>1 DEF Outcomes, Found
<1>3. primary = onDisk
  BY <1>1 DEF FilesInv, Exclusive
<1>4. CASE t = "boot"
  BY <1>1, <1>2, <1>3, <1>4, SeedingFinds, Unseen DEF Outcomes
<1>5. CASE t \in Writers
  <2>1. up /\ content[primary] = {memory} /\ primary # None
    BY <1>1, <1>5 DEF PhaseInv, FilesInv, Exclusive, Threads
  <2>2. Outcomes = {memory} /\ Outcomes' = {memory, cand[t]}
    BY <1>2, <1>3, <2>1 DEF Outcomes, Found
  <2>3. cand[t] \in Register!Changes(memory)
    BY <1>1, <1>5 DEF ChangeInv
  <2>4. memory \in Running /\ UNCHANGED <<Running, faults>>
    BY <1>1, <2>1 DEF Running
  <2> QED  BY <2>2, <2>3, <2>4 DEF Register!Offer
<1> QED  BY <1>4, <1>5 DEF Threads

(* The sync of the directory is where it can no longer be taken back.      *)
LEMMA DirSyncSettles ==
  ASSUME TypeOK, Exclusive, FilesInv, ThreadInv, PhaseInv, NEW t \in Threads, DirSync(t)
  PROVE  Register!Settle \/ UNCHANGED Register!registerVars
<1>1. /\ onDisk' = primary /\ pc[t] = "dirsync" /\ primary # None /\ content[primary] = {cand[t]}
      /\ UNCHANGED <<primary, content, memory, up, faults>>
  BY DEF DirSync, ThreadInv, data, counters
<1>2. Outcomes' = {cand[t]} /\ Outcomes = {cand[t]} \union Found(onDisk)
  BY <1>1 DEF Outcomes, Found
<1>3. CASE t = "boot"
  BY <1>1, <1>2, <1>3, SeedingFinds, Unseen
<1>4. CASE t \in Writers
  <2>1. up /\ promised = memory /\ attempted = cand[t]
    BY <1>1, <1>4 DEF PhaseInv
  <2>2. Found(onDisk) \in {{memory}, {cand[t]}}
    BY <2>1 DEF FilesInv, Stored, Found
  <2>3. CASE Outcomes' = Outcomes
    BY <1>1, <2>3, Unseen
  <2>4. CASE Outcomes' # Outcomes
    <3>1. Outcomes = {memory, cand[t]} /\ memory # cand[t]
      BY <1>2, <2>2, <2>4
    <3>2. Running = {memory} /\ UNCHANGED <<Running, faults>>
      BY <1>1, <2>1 DEF Running
    <3> QED  BY <1>2, <3>1, <3>2 DEF Register!Settle
  <2> QED  BY <2>3, <2>4
<1> QED  BY <1>3, <1>4 DEF Threads

(* publish is the acknowledgement of a change, or the end of a first boot. *)
LEMMA PublishAcknowledges ==
  ASSUME TypeOK, Exclusive, FilesInv, ThreadInv, PhaseInv, NEW t \in Threads, Publish(t)
  PROVE  Register!Acknowledge \/ Register!Boot
<1>1. /\ pc[t] = "publish" /\ primary # None /\ content[primary] = {cand[t]}
      /\ primary = onDisk /\ UNCHANGED <<primary, onDisk, content, faults>>
  BY DEF Publish, ThreadInv, FilesInv, Exclusive, names, data, counters
<1>2. Outcomes = {cand[t]} /\ UNCHANGED <<Outcomes, faults>>
  BY <1>1 DEF Outcomes, Found
<1>3. CASE t = "boot"
  <2>1. ~up /\ up' /\ memory' = cand[t]
    BY <1>1, <1>3, ConfigConstants DEF Publish, LoadEnds, FilesInv, PhaseInv
  <2> QED  BY <1>2, <2>1 DEF Register!Boot, Running
<1>4. CASE t \in Writers
  <2>1. up /\ up' /\ memory' = cand[t]
    BY <1>1, <1>4, ConfigConstants DEF Publish, PhaseInv
  <2> QED  BY <1>2, <2>1 DEF Register!Acknowledge, Running
<1> QED  BY <1>3, <1>4 DEF Threads

LEMMA LoadBoots ==
  ASSUME TypeOK, Exclusive, FilesInv, PhaseInv,
         LoadAdopts \/ LoadSeeds \/ LoadRecovers \/ LoadReverts
  PROVE  Register!Boot \/ UNCHANGED Register!registerVars
<1>1. "boot" \in Threads /\ pc["boot"] = "load"
  BY DEF Threads, LoadAdopts, LoadSeeds, LoadRecovers, LoadReverts, LoadPersists
<1>2. primary = onDisk /\ ~up
  BY <1>1 DEF Exclusive, FilesInv, PhaseInv
<1>3. CASE LoadAdopts
  <2>1. /\ primary # None /\ content[primary] # {} /\ memory' \in content[primary] /\ up'
        /\ UNCHANGED <<primary, onDisk, content, faults>>
    BY <1>3 DEF LoadAdopts, Readable, names, data, counters
  <2>2. content[primary] = {memory'}
    BY <2>1 DEF FilesInv, Stored
  <2>3. Outcomes = {memory'} /\ UNCHANGED <<Outcomes, faults>>
    BY <1>2, <2>1, <2>2 DEF Outcomes, Found
  <2> QED  BY <1>2, <2>1, <2>3 DEF Register!Boot, Running
<1>4. CASE LoadSeeds
  BY <1>2, <1>4, Unseen DEF LoadSeeds, LoadPersists, Outcomes, Found, data, counters
<1>5. ~LoadRecovers /\ ~LoadReverts
  BY DEF LoadRecovers, LoadReverts, Readable, FilesInv, Stored
<1> QED  BY <1>3, <1>4, <1>5

LEMMA CrashCuts ==
  ASSUME TypeOK, FilesInv, PhaseInv, Crash PROVE Register!PowerCut
<1>1. /\ primary' \in {primary, onDisk} /\ onDisk' = primary' /\ ~up' /\ UNCHANGED faults
      /\ \A i \in Inodes : i \notin dirty => content'[i] = content[i]
  BY DEF Crash
<1>2. PICK i \in {primary, onDisk} : i = primary'
  BY <1>1
<1>3. Outcomes' = Found(i)
  <2>1. CASE i = None
    BY <1>1, <1>2, <2>1 DEF Outcomes, Found
  <2>2. CASE i # None
    BY <1>1, <1>2, <2>2 DEF Outcomes, Found, FilesInv, Stored, TypeOK
  <2> QED  BY <2>1, <2>2
<1>4. PICK d : Found(i) = {d}
  BY <1>2 DEF Found, FilesInv, Stored
<1>5. d \in Outcomes /\ Outcomes' = {d}
  BY <1>2, <1>3, <1>4 DEF Outcomes
<1>6. Running' = {}
  BY <1>1 DEF Running
<1> QED  BY <1>1, <1>5, <1>6 DEF Register!PowerCut

LEMMA RegisterStep ==
  TypeOK /\ Exclusive /\ Exclusive' /\ StoreInv /\ ChangeInv /\ [Next]_vars
    => [Register!RegisterNext]_(Register!registerVars)
<1> SUFFICES ASSUME TypeOK, Exclusive, Exclusive', StoreInv, ChangeInv, [Next]_vars, faults' = 0
             PROVE  \/ Register!Offer \/ Register!Settle \/ Register!Acknowledge
                    \/ Register!PowerCut \/ Register!Boot \/ UNCHANGED Register!registerVars
  BY DEF Register!RegisterNext, Register!Damaged
<1>1. ~Rot /\ faults = 0 /\ \A t \in Threads : ~DirSyncFails(t)
  BY SoundBefore
<1>2. FilesInv /\ ThreadInv /\ PhaseInv
  BY <1>1 DEF StoreInv
<1>3. CASE \E w \in Writers : update(w) \/ resetToDefaults(w)
  BY <1>3, Unseen DEF update, resetToDefaults, Begin, Outcomes, Found, names, data, counters
<1>4. CASE LoadAdopts \/ LoadSeeds \/ LoadRecovers \/ LoadReverts
  BY <1>2, <1>4, LoadBoots
<1>5. ASSUME NEW t \in Threads, Persist(t)
      PROVE  \/ Register!Offer \/ Register!Settle \/ Register!Acknowledge
             \/ Register!Boot \/ UNCHANGED Register!registerVars
  BY <1>1, <1>2, <1>5, PreparationUnseen, RenameOffers, DirSyncSettles, PublishAcknowledges
     DEF Persist
<1>6. CASE Crash
  BY <1>2, <1>6, CrashCuts
<1>7. CASE Writeback
  BY <1>7, Unseen DEF Writeback, Outcomes, Found, names, counters
<1>8. CASE UNCHANGED vars
  BY <1>8, Unseen DEF vars, Outcomes, Found, names, data, counters
<1> QED  BY <1>1, <1>3, <1>4, <1>5, <1>6, <1>7, <1>8 DEF Next

(* For callers that take turns, ConfigManager is ConfigRegister: wherever  *)
(* the power goes and whichever system call fails, a change starts from    *)
(* the configuration in force, touches one field or resets them all, and   *)
(* is in force only once no power cut can take it back.                    *)
THEOREM KeepsRegisterHolds == Spec /\ []Exclusive => KeepsRegister
<1>1. Init => ChangeInv
  BY ConfigConstants DEF Init, ChangeInv, Threads
<1>2. Init => Register!RegisterInit
  BY DEF Init, Register!RegisterInit, Running, Outcomes, Found, Register!Factory, defaults
<1> QED
  BY <1>1, <1>2, StoreInvariant, ChangeStep, RegisterStep, PTL
     DEF Spec, KeepsRegister, Register!RegisterSpec

----------------------------------------------------------------------------
(* The condition is met by a device with one writer: load() and update()   *)
(* exclude each other by themselves.                                       *)
BootFirst ==
  /\ up <=> pc["boot"] = "idle"
  /\ \A w \in Writers : pc[w] # "idle" => up

LEMMA BootFirstStep == BootFirst /\ pc \in [Threads -> Places] /\ [Next]_vars => BootFirst'
<1> SUFFICES ASSUME BootFirst, pc \in [Threads -> Places], [Next]_vars PROVE BootFirst'
  OBVIOUS
<1> USE ConfigConstants DEF BootFirst, Goto, Threads
<1>1. CASE \E w \in Writers : update(w) \/ resetToDefaults(w)
  BY <1>1 DEF update, resetToDefaults, Begin
<1>2. CASE LoadAdopts \/ LoadSeeds \/ LoadRecovers \/ LoadReverts
  BY <1>2 DEF LoadAdopts, LoadSeeds, LoadRecovers, LoadReverts, LoadPersists
<1>3. ASSUME NEW t \in Threads, Persist(t) PROVE BootFirst'
  <2>1. CASE Fail(t) \/ Publish(t)
    <3>1. CASE t = "boot"
      BY <2>1, <3>1 DEF Fail, Publish, LoadEnds
    <3>2. CASE t \in Writers
      BY <2>1, <3>2 DEF Fail, Publish
    <3> QED  BY <3>1, <3>2
  <2>2. CASE ~Fail(t) /\ ~Publish(t)
    BY <1>3, <2>2 DEF Persist, BackupBegins, BackupEnds, Open, Write, Sync, Rename, DirSync,
                     DirSyncFails
  <2> QED  BY <2>1, <2>2
<1>4. CASE Crash
  BY <1>4 DEF Crash
<1>5. CASE Writeback \/ Rot \/ UNCHANGED vars
  BY <1>5 DEF Writeback, Rot, vars, threads
<1> QED  BY <1>1, <1>2, <1>3, <1>4, <1>5 DEF Next

(* One writer is enough for Exclusive, and so for the theorems above.      *)
THEOREM OneWriterExclusive ==
  ASSUME \A a, b \in Writers : a = b PROVE Spec => []Exclusive
<1>1. TypeOK /\ BootFirst => Exclusive
  BY DEF BootFirst, Exclusive, Threads
<1>2. Init => BootFirst
  BY ConfigConstants DEF Init, BootFirst, Threads
<1>3. TypeOK /\ BootFirst /\ [Next]_vars => BootFirst'
  BY BootFirstStep DEF TypeOK
<1> QED
  BY <1>1, <1>2, <1>3, ConfigTypeInit, ConfigTypeStep, PTL DEF Spec
=============================================================================
