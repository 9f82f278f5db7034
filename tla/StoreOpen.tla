----------------------------- MODULE StoreOpen -----------------------------
(***************************************************************************)
(* How a process comes to work on the store: the runtime lock of the       *)
(* desktop program (runtime_lock.rs), and Store::open (store.rs) with the  *)
(* creation of a database under a temporary name, the staged copy and the  *)
(* verified backup that precede an upgrade (backup.rs), and the migrations *)
(* (migrations.rs), with processes killed, power lost and other programs   *)
(* of the user at work on the lock file and on the database.               *)
(*                                                                         *)
(* A database is a record: ino, the file; ver, its schema version; rows,   *)
(* a stamp of its content; side, the files SQLite keeps beside it; whole,  *)
(* whether its bytes are on the disk; named, whether its name is.          *)
(***************************************************************************)
EXTENDS Naturals, FiniteSets

CONSTANTS Procs,        \* processes of the program
          Latest,       \* LATEST_SCHEMA_VERSION
          MaxOutside,   \* steps of the user's other programs
          MaxFaults,    \* kills, power losses and failing calls
          MaxWrites,    \* changes of the rows, by anyone
          None          \* no file, no record

ASSUME BoundsAssumption ==
  /\ Latest \in Nat \ {0}
  /\ {MaxOutside, MaxFaults, MaxWrites} \subseteq Nat

VARIABLES
  lockAt,    \* the file the lock's name leads to, or None
  lockOf,    \* per process: the lock file it has open, or None
  held,      \* per process: it holds the operating system's lock on it
  swapped,   \* processes that held a validated lock when it was taken away
  db,        \* the database at its final path, or None
  backups,   \* the backups at their final names
  pc,        \* per process: the step it is at
  seal,      \* per process: the family as it was first enumerated, or None
  temp,      \* per process: the file it prepares under a private name
  handle,    \* per process: the file its connection has open, or None
  at,        \* per process: the schema version its migration has reached
  setUp,     \* processes whose window is up
  seen,      \* per process: the database at the last check before SQLite opens it
  opened,    \* what was opened for an upgrade: found or just made, as last checked or not
  inodes,    \* files created so far
  writes, outside, faults

vars == <<lockAt, lockOf, held, swapped, db, backups, pc, seal, temp, handle,
          at, setUp, seen, opened, inodes, writes, outside, faults>>

lockVars == <<lockAt, lockOf, held, swapped>>
diskVars == <<db, backups>>
workVars == <<seal, temp, handle, at, seen>>
envVars  == <<writes, outside, faults>>

Versions == 1 .. Latest

(***************************************************************************)
(* The files SQLite leaves beside a database: none after a clean close; a  *)
(* rollback journal while the journal mode is changed; a WAL, first        *)
(* without and then with its shared memory, while a connection is open.    *)
(***************************************************************************)
Sides == {{}, {"journal"}, {"wal"}, {"wal", "shm"}}

Databases == [ino : Nat, ver : Versions, rows : Nat, side : Sides,
              whole : BOOLEAN, named : BOOLEAN]
Copies    == [ver : Versions, rows : Nat, synced : BOOLEAN]
Backups   == [ver : Versions, rows : Nat, whole : BOOLEAN, named : BOOLEAN]

(* None is none of the values it stands beside.                            *)
ASSUME NoneAssumption == None \notin Nat \cup Databases \cup Copies

Steps == {"off", "lock", "relock", "check", "look",
          "make", "built", "made", "publish", "named", "reread",
          "enumerate", "copy", "compare", "recover", "back", "backed",
          "backup", "backedUp", "unstage", "verify", "open",
          "configure", "wal", "migrate", "reconcile", "close", "closing",
          "running"}

Granted == {p \in Procs : held[p] /\ pc[p] \notin {"off", "lock", "relock"}}

TypeOK ==
  /\ lockAt \in Nat \cup {None}
  /\ lockOf \in [Procs -> Nat \cup {None}]
  /\ held \in [Procs -> BOOLEAN]
  /\ swapped \subseteq Procs
  /\ db \in Databases \cup {None}
  /\ backups \subseteq Backups
  /\ pc \in [Procs -> Steps]
  /\ seal \in [Procs -> Databases \cup {None}]
  /\ temp \in [Procs -> Copies \cup {None}]
  /\ handle \in [Procs -> Nat \cup {None}]
  /\ at \in [Procs -> 0 .. Latest]
  /\ setUp \subseteq Procs
  /\ seen \in [Procs -> Databases \cup {None}]
  /\ opened \subseteq [ver : Versions, rows : Nat, sealed : BOOLEAN, asSeen : BOOLEAN]
  /\ {inodes, writes, outside, faults} \subseteq Nat

(***************************************************************************)
(* A first start, or one that finds a database of any version, closed      *)
(* cleanly or left by a killed process.                                    *)
(***************************************************************************)
Init ==
  /\ lockAt = None
  /\ lockOf = [p \in Procs |-> None]
  /\ held = [p \in Procs |-> FALSE]
  /\ swapped = {}
  /\ \/ db = None
     \/ \E v \in Versions, s \in Sides :
          db = [ino |-> 1, ver |-> v, rows |-> 0, side |-> s,
                whole |-> TRUE, named |-> TRUE]
  /\ backups = {}
  /\ pc = [p \in Procs |-> "off"]
  /\ seal = [p \in Procs |-> None]
  /\ temp = [p \in Procs |-> None]
  /\ handle = [p \in Procs |-> None]
  /\ at = [p \in Procs |-> 0]
  /\ setUp = {}
  /\ seen = [p \in Procs |-> None]
  /\ opened = {}
  /\ inodes = 1
  /\ writes = 0 /\ outside = 0 /\ faults = 0

Goto(p, step) == pc' = [pc EXCEPT ![p] = step]

----------------------------------------------------------------------------
(* Mutants of the operators below, as a mistake in the code would make them. *)

RevalidatedNever(p) == TRUE
LastLookNone(p) == db # None
NameFreeAlways == TRUE
FamilyClosed(d) == d.side = {}

----------------------------------------------------------------------------
(***************************************************************************)
(* The end of a failed call: temporary files and the staging directory go, *)
(* the connection is dropped. A process that was starting ends, and the    *)
(* system drops its lock; one whose window is up reports the error.        *)
(***************************************************************************)
Released(p) ==
  /\ lockOf' = [lockOf EXCEPT ![p] = None]
  /\ held' = [held EXCEPT ![p] = FALSE]
  /\ swapped' = swapped \ {p}
  /\ UNCHANGED lockAt

Dropped(p) ==
  /\ seal' = [seal EXCEPT ![p] = None]
  /\ temp' = [temp EXCEPT ![p] = None]
  /\ handle' = [handle EXCEPT ![p] = None]
  /\ at' = [at EXCEPT ![p] = 0]
  /\ seen' = [seen EXCEPT ![p] = None]

Refuse(p) ==
  /\ Dropped(p)
  /\ IF p \in setUp
     THEN Goto(p, "running") /\ UNCHANGED lockVars
     ELSE Goto(p, "off") /\ Released(p)
  /\ UNCHANGED setUp

----------------------------------------------------------------------------
(* The runtime lock.                                                       *)

LockUnchanged(p) == UNCHANGED <<workVars, diskVars, setUp, opened, envVars>>

(***************************************************************************)
(* The private directory is prepared and the lock file in it opened, made  *)
(* when its name is free.                                                  *)
(***************************************************************************)
OpenLock(p) ==
  /\ pc[p] = "off"
  /\ IF lockAt = None
     THEN /\ lockAt' = inodes + 1
          /\ inodes' = inodes + 1
     ELSE UNCHANGED <<lockAt, inodes>>
  /\ lockOf' = [lockOf EXCEPT ![p] = lockAt']
  /\ Goto(p, "lock")
  /\ UNCHANGED <<held, swapped>>
  /\ LockUnchanged(p)

(* One private regular file, without aliases, behind handle and name.      *)
LockIsAt(p) == lockAt = lockOf[p]

LockFree(p) == \A q \in Procs \ {p} : ~(held[q] /\ lockOf[q] = lockOf[p])

(* The file is compared with what stands at its name, then locked.         *)
TryLock(p) ==
  /\ pc[p] = "lock"
  /\ IF LockIsAt(p) /\ LockFree(p)
     THEN /\ held' = [held EXCEPT ![p] = TRUE]
          /\ Goto(p, "relock")
          /\ UNCHANGED <<lockAt, lockOf, swapped, workVars, setUp>>
     ELSE Refuse(p)
  /\ UNCHANGED <<diskVars, opened, inodes, envVars>>

(* The second look, with the lock held.                                    *)
Revalidated(p) == LockIsAt(p)

Revalidate(p) ==
  /\ pc[p] = "relock"
  /\ IF Revalidated(p)
     THEN Goto(p, "check") /\ UNCHANGED <<lockVars, workVars, setUp>>
     ELSE Refuse(p)
  /\ UNCHANGED <<diskVars, opened, inodes, envVars>>

VerifyIntegrity(p) ==
  /\ pc[p] = "check"
  /\ IF LockIsAt(p)
     THEN Goto(p, "look") /\ UNCHANGED <<lockVars, workVars, setUp>>
     ELSE Refuse(p)
  /\ UNCHANGED <<diskVars, opened, inodes, envVars>>

----------------------------------------------------------------------------
(* Opening the store.                                                      *)

OpenUnchanged == UNCHANGED <<lockVars, setUp, inodes, envVars>>
Otherwise(p)  == Refuse(p) /\ UNCHANGED <<diskVars, opened, inodes, envVars>>

(* prepare_database_path: is there a database?                             *)
Look(p) ==
  /\ pc[p] = "look"
  /\ Goto(p, IF db = None THEN "make" ELSE "enumerate")
  /\ UNCHANGED <<diskVars, workVars, opened>>
  /\ OpenUnchanged

----------------------------------------------------------------------------
(* A database is made under a private name and published whole.            *)

(***************************************************************************)
(* All migrations in the temporary file, then its full check, a complete   *)
(* checkpoint, and the close that leaves no file beside it.                *)
(***************************************************************************)
Make(p) ==
  /\ pc[p] = "make"
  /\ temp' = [temp EXCEPT ![p] = [ver |-> Latest, rows |-> 0, synced |-> FALSE]]
  /\ Goto(p, "built")
  /\ UNCHANGED <<diskVars, seal, handle, at, seen, opened>>
  /\ OpenUnchanged

ContentSynced(p) == [temp EXCEPT ![p].synced = TRUE]

SyncMade(p) ==
  /\ pc[p] = "built"
  /\ temp' = ContentSynced(p)
  /\ Goto(p, "publish")
  /\ UNCHANGED <<diskVars, seal, handle, at, seen, opened>>
  /\ OpenUnchanged

(***************************************************************************)
(* persist_noclobber: a name that is taken is left as it is. The crate is  *)
(* taken to rename in one step. Where it links the name and then unlinks   *)
(* the other one, a kill in between would leave a file with two links.     *)
(***************************************************************************)
NameFree == db = None

Publish(p) ==
  /\ pc[p] = "publish"
  /\ IF NameFree
     THEN /\ inodes' = inodes + 1
          /\ db' = [ino |-> inodes', ver |-> temp[p].ver, rows |-> temp[p].rows,
                    side |-> {}, whole |-> temp[p].synced, named |-> FALSE]
          /\ temp' = [temp EXCEPT ![p] = None]
          /\ Goto(p, "named")
          /\ UNCHANGED <<lockVars, seal, handle, at, seen, setUp>>
     ELSE /\ Refuse(p)
          /\ UNCHANGED <<db, inodes>>
  /\ UNCHANGED <<backups, opened, envVars>>

(***************************************************************************)
(* One directory holds the database and its backups. Syncing it makes all  *)
(* their names last: sync_directory does, and so does SQLite with the      *)
(* first commit after it has created a journal or a WAL.                   *)
(***************************************************************************)
NamesSynced(b) == {[x EXCEPT !.named = TRUE] : x \in b}

Committed(d) == [d EXCEPT !.named = TRUE]

(* sync_directory, then the security of what stands at the name.           *)
SyncName(p) ==
  /\ pc[p] = "named"
  /\ IF db # None
     THEN /\ db' = Committed(db)
          /\ backups' = NamesSynced(backups)
          /\ Goto(p, "reread")
          /\ UNCHANGED <<workVars, opened>>
          /\ OpenUnchanged
     ELSE Otherwise(p)

(* The new database is read back through a read-only connection.           *)
Reread(p) ==
  /\ pc[p] = "reread"
  /\ IF db # None
     THEN /\ seen' = [seen EXCEPT ![p] = db]
          /\ Goto(p, "open")
          /\ UNCHANGED <<diskVars, seal, temp, handle, at, opened>>
          /\ OpenUnchanged
     ELSE Otherwise(p)

----------------------------------------------------------------------------
(* An existing database is sealed, and backed up when it must be upgraded. *)

(***************************************************************************)
(* A WAL and a rollback journal exclude each other, and shared memory is   *)
(* nothing without its WAL.                                                *)
(***************************************************************************)
FamilySafe(d) ==
  /\ ~({"wal", "journal"} \subseteq d.side)
  /\ "shm" \in d.side => "wal" \in d.side

(* A lone file whose header says it is of the latest version.              *)
CleanCurrent(d) == d.side = {} /\ d.ver = Latest

Enumerate(p) ==
  /\ pc[p] = "enumerate"
  /\ IF db # None /\ FamilySafe(db)
     THEN /\ seal' = [seal EXCEPT ![p] = db]
          /\ Goto(p, IF CleanCurrent(db) THEN "verify" ELSE "copy")
          /\ UNCHANGED <<diskVars, temp, handle, at, seen, opened>>
          /\ OpenUnchanged
     ELSE Otherwise(p)

(***************************************************************************)
(* The identity of every member: owner, links, mode, size and times. Any   *)
(* write to any member, and any replacement, changes it.                   *)
(***************************************************************************)
Identity(d) == Committed(d)

SealHolds(p) == db # None /\ Identity(db) = Identity(seal[p])

(* What SQLite will find in a copy: the rows of the WAL or the journal too. *)
CopyOf(d) == [ver |-> d.ver, rows |-> d.rows, synced |-> TRUE]

(* Main file, WAL and journal are copied into the staging directory.       *)
CopyFamily(p) ==
  /\ pc[p] = "copy"
  /\ IF db # None /\ db.ino = seal[p].ino
     THEN /\ temp' = [temp EXCEPT ![p] = CopyOf(db)]
          /\ Goto(p, "compare")
          /\ UNCHANGED <<diskVars, seal, handle, at, seen, opened>>
          /\ OpenUnchanged
     ELSE Otherwise(p)

(* The second enumeration must equal the first.                            *)
CompareFamily(p) ==
  /\ pc[p] = "compare"
  /\ IF SealHolds(p)
     THEN /\ Goto(p, "recover")
          /\ UNCHANGED <<diskVars, workVars, opened>>
          /\ OpenUnchanged
     ELSE Otherwise(p)

(***************************************************************************)
(* SQLite recovers the copy; it must pass every check. What is older than  *)
(* the latest version is backed up through the online backup.              *)
(***************************************************************************)
(* The registry, a gapless run of the compiled migrations, and user_version. *)
VersionOf(d) == d.ver

NeedsBackup(v) == v < Latest

RecoverStaged(p) ==
  /\ pc[p] = "recover"
  /\ at' = [at EXCEPT ![p] = VersionOf(temp[p])]
  /\ temp' = [temp EXCEPT ![p].synced = FALSE]
  /\ Goto(p, IF NeedsBackup(VersionOf(temp[p])) THEN "back" ELSE "unstage")
  /\ UNCHANGED <<diskVars, seal, handle, seen, opened>>
  /\ OpenUnchanged

SyncBackup(p) ==
  /\ pc[p] = "back"
  /\ temp' = ContentSynced(p)
  /\ Goto(p, "backup")
  /\ UNCHANGED <<diskVars, seal, handle, at, seen, opened>>
  /\ OpenUnchanged

(* The backup's name is unique, so no other file can be in its way.        *)
PublishBackup(p) ==
  /\ pc[p] = "backup"
  /\ backups' = backups \cup
       {[ver |-> temp[p].ver, rows |-> temp[p].rows,
         whole |-> temp[p].synced, named |-> FALSE]}
  /\ Goto(p, "backedUp")
  /\ UNCHANGED <<db, workVars, opened>>
  /\ OpenUnchanged

SyncBackupName(p) ==
  /\ pc[p] = "backedUp"
  /\ backups' = NamesSynced(backups)
  /\ db' = IF db = None THEN None ELSE Committed(db)
  /\ Goto(p, "unstage")
  /\ UNCHANGED <<workVars, opened>>
  /\ OpenUnchanged

(* The seal once more; then the staging directory is removed.              *)
Unstage(p) ==
  /\ pc[p] = "unstage"
  /\ IF SealHolds(p)
     THEN /\ temp' = [temp EXCEPT ![p] = None]
          /\ Goto(p, "verify")
          /\ UNCHANGED <<diskVars, seal, handle, at, seen, opened>>
          /\ OpenUnchanged
     ELSE Otherwise(p)

(* verify_before_read_write: the last look before SQLite opens the file.   *)
LastLook(p) == SealHolds(p)

VerifySeal(p) ==
  /\ pc[p] = "verify"
  /\ IF LastLook(p)
     THEN /\ seen' = [seen EXCEPT ![p] = db]
          /\ at' = [at EXCEPT ![p] = IF CleanCurrent(seal[p]) THEN Latest ELSE @]
          /\ Goto(p, "open")
          /\ UNCHANGED <<diskVars, seal, temp, handle, opened>>
          /\ OpenUnchanged
     ELSE Otherwise(p)

----------------------------------------------------------------------------
(* The read-write connection and the migrations.                           *)

Expected(p) == IF seal[p] = None THEN db.ver ELSE at[p]

VersionAgrees(p) == VersionOf(db) = Expected(p)

(***************************************************************************)
(* Quick check and preflight through the read-write connection: the        *)
(* version must be the one that was backed up. What was prepared has then  *)
(* served.                                                                 *)
(***************************************************************************)
OpenReadWrite(p) ==
  /\ pc[p] = "open"
  /\ IF db # None /\ VersionAgrees(p)
     THEN /\ handle' = [handle EXCEPT ![p] = db.ino]
          /\ at' = [at EXCEPT ![p] = VersionOf(db)]
          /\ opened' = IF db.ver = Latest THEN opened
                       ELSE opened \cup
                              {[ver |-> db.ver, rows |-> db.rows,
                                sealed |-> seal[p] # None,
                                asSeen |-> Identity(db) = Identity(seen[p])]}
          /\ seal' = [seal EXCEPT ![p] = None]
          /\ seen' = [seen EXCEPT ![p] = None]
          /\ Goto(p, "configure")
          /\ UNCHANGED <<diskVars, temp>>
          /\ OpenUnchanged
     ELSE Otherwise(p)

(* verify_database_security: the connection's file is the one at the path. *)
Bound(p) == db # None /\ db.ino = handle[p]

(***************************************************************************)
(* The first read, and journal_mode = WAL. A database in WAL mode gets its  *)
(* WAL at the read; for one in rollback mode, as a backup may be that was  *)
(* put back, the switch itself writes a journal.                           *)
(***************************************************************************)
BeginConfigure(p) ==
  /\ pc[p] = "configure"
  /\ IF Bound(p)
     THEN /\ \E s \in IF db.side = {} THEN {{"journal"}, {"wal", "shm"}}
                                      ELSE {db.side} :
               db' = [db EXCEPT !.side = s]
          /\ Goto(p, "wal")
          /\ UNCHANGED <<backups, workVars, opened>>
          /\ OpenUnchanged
     ELSE Otherwise(p)

EndConfigure(p) ==
  /\ pc[p] = "wal"
  /\ IF Bound(p)
     THEN /\ db' = [db EXCEPT !.side = {"wal", "shm"}]
          /\ at' = [at EXCEPT ![p] = VersionOf(db)]
          /\ Goto(p, "migrate")
          /\ UNCHANGED <<backups, seal, temp, handle, seen, opened>>
          /\ OpenUnchanged
     ELSE Otherwise(p)

(***************************************************************************)
(* One migration is one immediate transaction: schema, registry row and    *)
(* user_version commit together. It fails when another process has applied *)
(* it meanwhile.                                                           *)
(***************************************************************************)
Applied(d) == [Committed(d) EXCEPT !.ver = @ + 1]

ApplyMigration(p) ==
  /\ pc[p] = "migrate"
  /\ at[p] < Latest
  /\ IF Bound(p) /\ db.ver = at[p]
     THEN /\ db' = Applied(db)
          /\ at' = [at EXCEPT ![p] = @ + 1]
          /\ UNCHANGED <<pc, backups, seal, temp, handle, seen, opened>>
          /\ OpenUnchanged
     ELSE Otherwise(p)

(* validate_schema_manifest and the checks of every row.                   *)
SchemaCurrent(d) == VersionOf(d) = Latest

(* Reconcile, validate_current_schema, quick check, and the file's identity. *)
Reconcile(p) ==
  /\ pc[p] = "migrate"
  /\ at[p] = Latest
  /\ IF Bound(p) /\ SchemaCurrent(db)
     THEN /\ Goto(p, IF p \in setUp THEN "running" ELSE "close")
          /\ UNCHANGED <<diskVars, workVars, opened>>
          /\ OpenUnchanged
     ELSE Otherwise(p)

(***************************************************************************)
(* initialize_store_at closes the store it opened and the window comes up. *)
(* The last connection checkpoints and removes shared memory and WAL.      *)
(***************************************************************************)
LastHandle(p) == \A q \in Procs \ {p} : handle[q] # handle[p]

Close(p) ==
  /\ pc[p] = "close"
  /\ IF Bound(p)
     THEN /\ db' = [db EXCEPT !.side = IF LastHandle(p) THEN {"wal"} ELSE @]
          /\ Goto(p, "closing")
          /\ UNCHANGED <<backups, workVars, opened>>
          /\ OpenUnchanged
     ELSE Otherwise(p)

Closed(p) ==
  /\ pc[p] = "closing"
  /\ db' = IF Bound(p) /\ LastHandle(p) THEN [db EXCEPT !.side = {}] ELSE db
  /\ setUp' = setUp \cup {p}
  /\ Dropped(p)
  /\ Goto(p, "running")
  /\ UNCHANGED <<lockVars, backups, opened, inodes, envVars>>

(***************************************************************************)
(* A scan opens the store again; the lock is not looked at any more. With  *)
(* the store open it writes, and closes it when it ends.                   *)
(***************************************************************************)
Reopen(p) ==
  /\ pc[p] = "running" /\ handle[p] = None
  /\ Goto(p, "look")
  /\ UNCHANGED <<diskVars, workVars, opened>>
  /\ OpenUnchanged

Write(p) ==
  /\ pc[p] = "running" /\ handle[p] # None
  /\ Bound(p)
  /\ writes < MaxWrites
  /\ writes' = writes + 1
  /\ db' = [Committed(db) EXCEPT !.rows = writes']
  /\ UNCHANGED <<lockVars, backups, pc, workVars, setUp, opened, inodes,
                 outside, faults>>

EndScan(p) ==
  /\ pc[p] = "running" /\ handle[p] # None
  /\ Goto(p, "close")
  /\ UNCHANGED <<diskVars, workVars, opened>>
  /\ OpenUnchanged

----------------------------------------------------------------------------
(* What the program does not choose.                                       *)

(* Any call fails: disk full, busy, a deadline, an error of a device.      *)
CallFails(p) ==
  /\ pc[p] \notin {"off", "running"}
  /\ faults < MaxFaults
  /\ faults' = faults + 1
  /\ Refuse(p)
  /\ UNCHANGED <<diskVars, opened, inodes, writes, outside>>

(* A killed process leaves the disk as it is; the system drops its lock.   *)
Kill(p) ==
  /\ pc[p] # "off"
  /\ faults < MaxFaults
  /\ faults' = faults + 1
  /\ Dropped(p)
  /\ Released(p)
  /\ Goto(p, "off")
  /\ setUp' = setUp \ {p}
  /\ UNCHANGED <<diskVars, opened, inodes, writes, outside>>

(***************************************************************************)
(* A name that was not synced may be gone; bytes that were not are.        *)
(***************************************************************************)
Survives(x, kept) == x.named \/ x \in kept

PowerLoss ==
  /\ faults < MaxFaults
  /\ faults' = faults + 1
  /\ \E kept \in SUBSET {x \in backups \cup ({db} \ {None}) : ~x.named} :
       /\ backups' = {x \in backups : Survives(x, kept)}
       /\ db' = IF db # None /\ Survives(db, kept) THEN db ELSE None
  /\ lockOf' = [p \in Procs |-> None]
  /\ held' = [p \in Procs |-> FALSE]
  /\ swapped' = {}
  /\ pc' = [p \in Procs |-> "off"]
  /\ seal' = [p \in Procs |-> None]
  /\ temp' = [p \in Procs |-> None]
  /\ handle' = [p \in Procs |-> None]
  /\ at' = [p \in Procs |-> 0]
  /\ seen' = [p \in Procs |-> None]
  /\ setUp' = {}
  /\ UNCHANGED <<lockAt, opened, inodes, writes, outside>>

(* Somebody removes the lock file he takes for a stale one.                *)
RemoveLock ==
  /\ outside < MaxOutside
  /\ lockAt # None
  /\ outside' = outside + 1
  /\ lockAt' = None
  /\ swapped' = swapped \cup Granted
  /\ UNCHANGED <<lockOf, held, diskVars, pc, workVars, setUp, opened, inodes,
                 writes, faults>>

(* Somebody puts another database at the path, a backup for one.           *)
PutDatabase ==
  /\ outside < MaxOutside
  /\ writes < MaxWrites
  /\ outside' = outside + 1
  /\ writes' = writes + 1
  /\ inodes' = inodes + 1
  /\ \E v \in Versions :
       db' = [ino |-> inodes', ver |-> v, rows |-> writes', side |-> {},
              whole |-> TRUE, named |-> TRUE]
  /\ UNCHANGED <<lockVars, backups, pc, workVars, setUp, opened, faults>>

(* Another program writes to the database.                                 *)
WriteOutside ==
  /\ outside < MaxOutside
  /\ writes < MaxWrites
  /\ db # None
  /\ outside' = outside + 1
  /\ writes' = writes + 1
  /\ db' = [Committed(db) EXCEPT !.rows = writes']
  /\ UNCHANGED <<lockVars, backups, pc, workVars, setUp, opened, inodes, faults>>

----------------------------------------------------------------------------
Opening(p) ==
  \/ OpenLock(p) \/ TryLock(p) \/ Revalidate(p) \/ VerifyIntegrity(p) \/ Look(p)
  \/ Make(p) \/ SyncMade(p) \/ Publish(p) \/ SyncName(p) \/ Reread(p)
  \/ Enumerate(p) \/ CopyFamily(p) \/ CompareFamily(p) \/ RecoverStaged(p)
  \/ SyncBackup(p) \/ PublishBackup(p) \/ SyncBackupName(p) \/ Unstage(p)
  \/ VerifySeal(p) \/ OpenReadWrite(p) \/ BeginConfigure(p) \/ EndConfigure(p)
  \/ ApplyMigration(p) \/ Reconcile(p) \/ Close(p) \/ Closed(p)

Using(p) == Reopen(p) \/ Write(p) \/ EndScan(p)

Environment ==
  \/ PowerLoss \/ RemoveLock \/ PutDatabase \/ WriteOutside
  \/ \E p \in Procs : CallFails(p) \/ Kill(p)

Next ==
  \/ \E p \in Procs : Opening(p) \/ Using(p)
  \/ Environment

Spec == Init /\ [][Next]_vars

(***************************************************************************)
(* A call that can return returns, and the user starts the program again   *)
(* when it has ended. Nobody need scan.                                    *)
(***************************************************************************)
FairSpec == Spec /\ \A p \in Procs : WF_vars(Opening(p))

----------------------------------------------------------------------------
(* Properties.                                                             *)

(***************************************************************************)
(* AppRuntimeLock::acquire (runtime_lock.rs:89): two processes are never   *)
(* both past it, unless the lock file of one was removed while it held it. *)
(***************************************************************************)
OneProcess ==
  \A p, q \in Granted : p # q => p \in swapped \/ q \in swapped

(***************************************************************************)
(* stage_unix_source_family and create_verified_backup (backup.rs:380,     *)
(* 1278): whatever an existing store's opening finds in need of an upgrade *)
(* has a backup of its very version, whole, behind a name no power loss    *)
(* takes; of its very rows too, when nobody wrote in the moment between    *)
(* the last check and the open.                                            *)
(***************************************************************************)
BackedUp ==
  \A u \in {o \in opened : o.sealed} :
    \E b \in backups :
      /\ b.ver = u.ver /\ b.whole /\ b.named
      /\ u.asSeen => b.rows = u.rows

(***************************************************************************)
(* initialize_database (store.rs:3895) and every step after it: what       *)
(* stands at the database's name is whole, and the program neither         *)
(* replaces nor removes it; a power loss takes it only while nothing has   *)
(* been written to it since it was made.                                   *)
(***************************************************************************)
Replaced == db # None /\ (db' = None \/ db'.ino # db.ino)

StoreKept ==
  /\ [](db # None => db.whole)
  /\ [][Replaced => \/ outside' # outside
                    \/ faults' # faults /\ db.rows = 0 /\ opened = {}]_vars

(***************************************************************************)
(* open_inner_with_operations (store.rs:3468): however often the program   *)
(* was killed in the midst of a creation, a backup, a migration or a       *)
(* close, a later start comes up on a database of the latest version.      *)
(***************************************************************************)
ComesUp == []<>(\E p \in Procs : p \in setUp)

=============================================================================
