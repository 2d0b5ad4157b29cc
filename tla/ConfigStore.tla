----------------------------- MODULE ConfigStore -----------------------------
(***************************************************************************)
(* The persisted configuration: ConfigManager (src/config) on top of       *)
(* atomicWriteFile (src/core/AtomicFile.cpp), with power cuts, failing     *)
(* system calls and faults of the medium.  Config.json and its temporary   *)
(* sibling are directory entries that name inodes: a thread that writes to *)
(* a descriptor writes to the inode, whatever it is called by then.        *)
(*                                                                         *)
(* A configuration is a value for each of some fields, of which a mutator  *)
(* changes one; ConfigValidator accepts every one of them (a rejected      *)
(* update returns before it touches anything).                             *)
(***************************************************************************)
EXTENDS Naturals

CONSTANTS
  Writers,    \* threads that call update() or resetToDefaults()
  Fields,     \* what one mutator changes
  Values,     \* values of a field; 0 is the default
  Inodes,     \* enough for every entry and every open descriptor
  MaxCrashes, \* power cuts
  MaxFaults   \* times the medium fails the program unnoticed

ASSUME ConfigConstants ==
  /\ "boot" \notin Writers
  /\ Values \subseteq Nat /\ 0 \in Values
  /\ Inodes \subseteq Nat \ {0}
  /\ MaxCrashes \in Nat /\ MaxFaults \in Nat

\* One for config.json, one for what it was before the rename is durable, and
\* one for the temporary: enough while one thread is in persist().
ASSUME EnoughInodes == \A i, j \in Inodes \union {0} : \E k \in Inodes : k \notin {i, j}

Threads == Writers \union {"boot"}    \* load() runs on the main thread
Configs == [Fields -> Values]
defaults == [f \in Fields |-> 0]
None == 0                             \* a name or a descriptor without an inode

\* What a file holds is the set of configurations one can read from it: one, or
\* none if it is truncated, half written, damaged or missing.
Contents == {{}} \union {{c} : c \in Configs}

VARIABLES
  primary, tmp, \* the inodes called config.json and config.json.tmp
  onDisk,       \* what config.json is after a power cut, until the directory is synced
  content,      \* what each inode holds
  dirty,        \* inodes with data that has not reached the disk
  bak, bakDirty,\* the same for config.json.bak
  pc, fd, cand, \* each thread: its place in persist(), its descriptor, its candidate
  memory,       \* ConfigManager::config_
  up,           \* load() has returned success
  why,          \* which branch of load() called persist()
  promised,     \* history: the configuration in force, last acknowledged or loaded,
  attempted,    \* history: ... and the one the latest change was to install
  crashes, faults

names == <<primary, tmp, onDisk>>
data == <<content, dirty, bak, bakDirty>>
threads == <<pc, fd, cand>>
history == <<promised, attempted>>
counters == <<crashes, faults>>
vars == <<names, data, threads, memory, up, why, history, counters>>

Goto(t, l) == pc' = [pc EXCEPT ![t] = l]
Close(t) == fd' = [fd EXCEPT ![t] = None]
Readable == primary # None /\ content[primary] # {}
----------------------------------------------------------------------------
(***************************************************************************)
(* update() and resetToDefaults(): take a copy under the lock, change it   *)
(* outside, and persist it.                                                *)
(***************************************************************************)
Begin(w, c) ==
  /\ up /\ pc[w] = "idle" /\ Goto(w, "backup")
  /\ cand' = [cand EXCEPT ![w] = c]
  /\ promised' = memory /\ attempted' = c
  /\ UNCHANGED <<names, data, fd, memory, up, why, counters>>

\* Mutant: the mutator gets a fresh configuration in place of a copy.
updateFresh(w) == \E f \in Fields, v \in Values : Begin(w, [defaults EXCEPT ![f] = v])

update(w) == \E f \in Fields, v \in Values : Begin(w, [memory EXCEPT ![f] = v])
resetToDefaults(w) == Begin(w, defaults)

(***************************************************************************)
(* load().  Good: adopt.  Missing: seed the defaults.  Unreadable: set the *)
(* file aside and persist the backup or, failing that, the defaults.       *)
(***************************************************************************)
LoadAdopts ==
  /\ pc["boot"] = "load" /\ Goto("boot", "idle")
  /\ Readable
  /\ \E c \in content[primary] : memory' = c
  /\ up' = TRUE
  /\ UNCHANGED <<names, data, fd, cand, why, history, counters>>

LoadPersists(reason, c) ==
  /\ pc["boot"] = "load" /\ Goto("boot", "backup")
  /\ primary' = None
  /\ why' = reason
  /\ cand' = [cand EXCEPT !["boot"] = c]
  /\ UNCHANGED <<tmp, onDisk, data, fd, memory, up, history, counters>>

LoadSeeds == primary = None /\ LoadPersists("seed", defaults)
LoadRecovers == primary # None /\ ~Readable /\ \E c \in bak : LoadPersists("recover", c)
LoadReverts == primary # None /\ ~Readable /\ bak = {} /\ LoadPersists("revert", defaults)
----------------------------------------------------------------------------
(***************************************************************************)
(* persist().  The backup is a plain copy: the old one is truncated first, *)
(* and nothing syncs the new one.                                          *)
(***************************************************************************)
BackupBegins(t) ==
  /\ pc[t] = "backup"
  /\ \/ primary # None /\ Goto(t, "copying") /\ bak' = {} /\ bakDirty' = TRUE
     \/ primary = None /\ Goto(t, "open") /\ UNCHANGED <<bak, bakDirty>>
  /\ UNCHANGED <<names, content, dirty, fd, cand, memory, up, why, history, counters>>

BackupEnds(t) ==
  /\ pc[t] = "copying" /\ Goto(t, "open")
  /\ bak' = IF primary = None THEN bak ELSE content[primary]
  /\ bakDirty' = TRUE
  /\ UNCHANGED <<names, content, dirty, fd, cand, memory, up, why, history, counters>>

\* An inode no name and no descriptor refers to.
InUse == {primary, tmp, onDisk} \union {fd[t] : t \in Threads}
Fresh == CHOOSE i \in Inodes : i \notin InUse

\* open(O_CREAT | O_TRUNC): the temporary's name is the same for everybody.
Open(t) ==
  LET i == IF tmp = None THEN Fresh ELSE tmp
  IN /\ pc[t] = "open" /\ Goto(t, "write")
     /\ tmp' = i
     /\ fd' = [fd EXCEPT ![t] = i]
     /\ content' = [content EXCEPT ![i] = {}]
     /\ dirty' = dirty \union {i}
     /\ UNCHANGED <<primary, onDisk, bak, bakDirty, cand, memory, up, why, history, counters>>

\* Every writer writes its whole candidate from offset 0.
Write(t) ==
  /\ pc[t] = "write" /\ Goto(t, "sync")
  /\ content' = [content EXCEPT ![fd[t]] = {cand[t]}]
  /\ dirty' = dirty \union {fd[t]}
  /\ UNCHANGED <<names, bak, bakDirty, fd, cand, memory, up, why, history, counters>>

\* Mutant: the data is not synced before the rename.
SyncSkipped(t) ==
  /\ pc[t] = "sync" /\ Goto(t, "rename")
  /\ Close(t)
  /\ UNCHANGED <<names, data, cand, memory, up, why, history, counters>>

Sync(t) ==
  /\ pc[t] = "sync" /\ Goto(t, "rename")
  /\ dirty' = dirty \ {fd[t]}
  /\ Close(t)
  /\ UNCHANGED <<names, content, bak, bakDirty, cand, memory, up, why, history, counters>>

Rename(t) ==
  /\ pc[t] = "rename" /\ tmp # None /\ Goto(t, "dirsync")
  /\ primary' = tmp /\ tmp' = None
  /\ UNCHANGED <<onDisk, data, fd, cand, memory, up, why, history, counters>>

DirSync(t) ==
  /\ pc[t] = "dirsync" /\ Goto(t, "publish")
  /\ onDisk' = primary
  /\ UNCHANGED <<primary, tmp, data, fd, cand, memory, up, why, history, counters>>

\* The directory cannot be opened or synced, which nobody is told.
DirSyncFails(t) ==
  /\ pc[t] = "dirsync" /\ Goto(t, "publish")
  /\ faults < MaxFaults /\ faults' = faults + 1
  /\ UNCHANGED <<names, data, fd, cand, memory, up, why, history, crashes>>

\* load() after its persist(), whose result only the seeding branch looks at.
\* A load that fails ends the process, and the service manager starts it again.
LoadEnds(ok) ==
  /\ memory' = cand["boot"]
  /\ up' = (why = "recover" \/ (why = "seed" /\ ok))
  /\ Goto("boot", IF up' THEN "idle" ELSE "load")

\* Mutant: memory takes the candidate whether or not it was written.
FailAnyway(t) ==
  /\ \/ pc[t] = "open" /\ UNCHANGED tmp
     \/ pc[t] \in {"write", "sync"} /\ tmp' = None
     \/ pc[t] = "rename" /\ tmp' = None
  /\ Close(t)
  /\ \/ t = "boot" /\ LoadEnds(FALSE)
     \/ t \in Writers /\ Goto(t, "idle") /\ memory' = cand[t] /\ UNCHANGED up
  /\ UNCHANGED <<primary, onDisk, data, cand, why, history, counters>>

\* open, write, fsync or rename fails: remove the temporary, whoever made it,
\* and report an error; the change never happened.
Fail(t) ==
  /\ \/ pc[t] = "open" /\ UNCHANGED tmp
     \/ pc[t] \in {"write", "sync"} /\ tmp' = None
     \/ pc[t] = "rename" /\ tmp' = None
  /\ Close(t)
  /\ \/ t = "boot" /\ LoadEnds(FALSE)
     \/ t \in Writers /\ Goto(t, "idle") /\ UNCHANGED <<memory, up>>
  /\ UNCHANGED <<primary, onDisk, data, cand, why, history, counters>>

\* Written: the candidate becomes the configuration in memory.
Publish(t) ==
  /\ pc[t] = "publish"
  /\ \/ t = "boot" /\ LoadEnds(TRUE) /\ UNCHANGED promised
     \/ /\ t \in Writers /\ Goto(t, "idle")
        /\ memory' = cand[t] /\ promised' = cand[t] /\ UNCHANGED up
  /\ UNCHANGED <<names, data, fd, cand, why, attempted, counters>>
----------------------------------------------------------------------------
(***************************************************************************)
(* The surroundings.                                                       *)
(***************************************************************************)
\* The kernel writes dirty data back in its own time.
Writeback ==
  /\ \/ \E i \in dirty : dirty' = dirty \ {i} /\ UNCHANGED bakDirty
     \/ bakDirty /\ bakDirty' = FALSE /\ UNCHANGED dirty
  /\ UNCHANGED <<names, content, bak, threads, memory, up, why, history, counters>>

\* A power cut: unsynced data may be lost, and so may an unsynced rename.  A
\* temporary left behind is truncated by the next open, as if it were not there.
Crash ==
  /\ crashes < MaxCrashes /\ crashes' = crashes + 1
  /\ primary' \in {primary, onDisk} /\ onDisk' = primary'
  /\ tmp' = None
  /\ \E lost \in SUBSET dirty :
       content' = [i \in Inodes |-> IF i \in lost THEN {} ELSE content[i]]
  /\ bak' \in {bak, IF bakDirty THEN {} ELSE bak}
  /\ dirty' = {} /\ bakDirty' = FALSE
  /\ pc' = [t \in Threads |-> IF t = "boot" THEN "load" ELSE "idle"]
  /\ fd' = [t \in Threads |-> None]
  /\ up' = FALSE
  /\ UNCHANGED <<cand, memory, why, history, faults>>

\* The stored file is damaged behind the program's back.
Rot ==
  /\ faults < MaxFaults /\ faults' = faults + 1
  /\ Readable /\ content' = [content EXCEPT ![primary] = {}]
  /\ UNCHANGED <<names, dirty, bak, bakDirty, threads, memory, up, why, history, crashes>>
----------------------------------------------------------------------------
\* The first boot: nothing is stored yet.
Init ==
  /\ primary = None /\ tmp = None /\ onDisk = None
  /\ content = [i \in Inodes |-> {}] /\ dirty = {} /\ bak = {} /\ bakDirty = FALSE
  /\ pc = [t \in Threads |-> IF t = "boot" THEN "load" ELSE "idle"]
  /\ fd = [t \in Threads |-> None] /\ cand = [t \in Threads |-> defaults]
  /\ memory = defaults /\ up = FALSE /\ why = "seed"
  /\ promised = defaults /\ attempted = defaults
  /\ crashes = 0 /\ faults = 0

Persist(t) ==
  \/ BackupBegins(t) \/ BackupEnds(t) \/ Open(t) \/ Write(t) \/ Sync(t)
  \/ Rename(t) \/ DirSync(t) \/ DirSyncFails(t) \/ Fail(t) \/ Publish(t)

Next ==
  \/ \E w \in Writers : update(w) \/ resetToDefaults(w)
  \/ LoadAdopts \/ LoadSeeds \/ LoadRecovers \/ LoadReverts
  \/ \E t \in Threads : Persist(t)
  \/ Writeback \/ Crash \/ Rot

Spec == Init /\ [][Next]_vars
----------------------------------------------------------------------------
Places == {"idle", "load", "backup", "copying", "open", "write", "sync", "rename",
           "dirsync", "publish"}

\* Every variable has its type; a descriptor is open exactly where it is used.
TypeOK ==
  /\ {primary, tmp, onDisk} \subseteq Inodes \union {None}
  /\ content \in [Inodes -> Contents] /\ dirty \subseteq Inodes
  /\ bak \in Contents /\ bakDirty \in BOOLEAN
  /\ pc \in [Threads -> Places] /\ cand \in [Threads -> Configs]
  /\ fd \in [Threads -> Inodes \union {None}]
  /\ \A t \in Threads : fd[t] # None <=> pc[t] \in {"write", "sync"}
  /\ memory \in Configs /\ up \in BOOLEAN /\ why \in {"seed", "recover", "revert"}
  /\ promised \in Configs /\ attempted \in Configs
  /\ crashes \in 0..MaxCrashes /\ faults \in 0..MaxFaults

\* ConfigManager.h:18-19: "A crash never leaves a partial config.json."
NeverPartial == ~up /\ faults = 0 /\ primary # None => content[primary] # {}

\* An acknowledged change survives every power cut that follows it, and one
\* that was cut short is there entirely or not at all (AtomicFile.cpp:44-60).
Durable == up /\ faults = 0 => memory \in {promised, attempted}

\* Whatever failed or was cut short, a device at rest runs the configuration
\* it would boot with (ConfigManager.cpp:146-151).
MemoryMatchesDisk ==
  up /\ faults = 0 /\ (\A t \in Threads : pc[t] = "idle") =>
    /\ primary # None /\ primary = onDisk
    /\ content[primary] = {memory}

\* What a boot that finds this inode under the name runs with: no file means
\* the first boot, which seeds the defaults.
Found(i) == IF i = None THEN {defaults} ELSE content[i]
Running == IF up THEN {memory} ELSE {}
Outcomes == Found(primary) \union Found(onDisk)

\* The whole of persist() looks like one change to a caller, wherever the power
\* goes and whichever call fails: it starts from the configuration in force,
\* replaces one field, is in force only once it is durable and is never half
\* there (ConfigManager.h:17-22, ConfigManager.cpp:132-166).
Register == INSTANCE ConfigRegister
              WITH running <- Running, outcomes <- Outcomes, sound <- faults = 0
KeepsRegister == Register!RegisterSpec

\* ConfigManager.h:23-24: "Corruption recovery on load: fall back to
\* config.json.bak, else seed defaults".
BackupBeforeDefaults ==
  [][ up' /\ ~up /\ bak # {} /\ faults > 0 =>
        why # "seed" \/ pc["boot"] = "load" ]_vars
=============================================================================
