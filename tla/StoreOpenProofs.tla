-------------------------- MODULE StoreOpenProofs --------------------------
(***************************************************************************)
(* The safety properties of StoreOpen, for any number of processes, schema *)
(* versions, failures and outside programs.                                *)
(*                                                                         *)
(* The content of the database only moves forward: Before orders it by the *)
(* stamp of its rows, then by its version. A copy taken between two equal  *)
(* looks at the family is therefore a copy of what was looked at, and so   *)
(* is the backup made of it.                                               *)
(***************************************************************************)
EXTENDS StoreOpen, TLAPS

\* Who has the lock file open, who holds it, and whose window is up.
LockInv ==
  /\ \A p \in Procs :
       /\ held[p] => pc[p] \notin {"off", "lock"} /\ lockOf[p] # None
       /\ pc[p] # "off" => lockOf[p] # None
       /\ p \in setUp => pc[p] \notin {"off", "lock", "relock", "check"}
       /\ p \in Granted \ swapped => lockAt = lockOf[p]
  /\ \A p, q \in Procs : held[p] /\ held[q] /\ p # q => lockOf[p] # lockOf[q]

\* An existing family is under a seal from its first enumeration to the open.
Sealed == {"copy", "compare", "recover", "back", "backup", "backedUp", "unstage", "verify"}
Prepared == {"built", "publish", "compare", "recover", "back", "backup", "backedUp", "unstage"}

WorkInv ==
  \A p \in Procs :
    /\ pc[p] \in Sealed => seal[p] # None
    /\ seal[p] # None => pc[p] \in Sealed \cup {"open"} /\ db # None
    /\ pc[p] \in Prepared \ {"unstage"} => temp[p] # None
    /\ pc[p] \in {"built", "publish"} => temp[p].ver = Latest /\ temp[p].rows = 0
    /\ pc[p] = "publish" => temp[p].synced

\* What stands at the database's name: whole, and unnamed only while it is new.
NameInv ==
  /\ db # None => db.whole /\ db.rows <= writes
  /\ db = None \/ ~db.named => opened = {}
  /\ db # None /\ ~db.named => db.rows = 0 /\ db.ver = Latest

\* The content of x is not newer than that of y.
Before(x, y) == x.rows < y.rows \/ (x.rows = y.rows /\ x.ver <= y.ver)

SameContent(x, y) == x.rows = y.rows /\ x.ver = y.ver

\* A backup of this content; behind a name that lasts, unless just published.
Backup(B, d, named) ==
  \E b \in B : SameContent(b, d) /\ b.whole /\ (named => b.named)

BackOf(p) ==
  /\ seal[p] # None => Before(seal[p], db)
  /\ pc[p] = "compare" => Before(seal[p], temp[p]) /\ Before(temp[p], db)
  /\ pc[p] \in {"recover", "back", "backup"} => SameContent(temp[p], seal[p])
  /\ pc[p] \in {"back", "backup", "backedUp", "unstage"} => at[p] = seal[p].ver
  /\ pc[p] = "verify" => CleanCurrent(seal[p]) \/ at[p] = seal[p].ver
  /\ pc[p] = "backup" => temp[p].synced
  /\ pc[p] = "backedUp" => Backup(backups, seal[p], FALSE)
  /\ pc[p] \in {"unstage", "verify"} /\ seal[p].ver # Latest => Backup(backups, seal[p], TRUE)
  /\ pc[p] = "open" /\ seal[p] # None =>
       /\ at[p] = seal[p].ver
       /\ seen[p] # None /\ seen[p].rows = seal[p].rows
       /\ seal[p].ver # Latest => Backup(backups, seal[p], TRUE)

BackInv == (\A p \in Procs : BackOf(p)) /\ BackedUp

Inv == TypeOK /\ LockInv /\ WorkInv /\ NameInv /\ BackInv

\* The types in three parts: who is where, what is on the disk, what is prepared.
ControlOK ==
  /\ lockAt \in Nat \cup {None} /\ lockOf \in [Procs -> Nat \cup {None}]
  /\ held \in [Procs -> BOOLEAN] /\ swapped \subseteq Procs
  /\ pc \in [Procs -> Steps] /\ setUp \subseteq Procs
  /\ inodes \in Nat /\ writes \in Nat /\ outside \in Nat /\ faults \in Nat

Upgrades == [ver : Versions, rows : Nat, sealed : BOOLEAN, asSeen : BOOLEAN]
DiskOK == db \in Databases \cup {None} /\ backups \subseteq Backups /\ opened \subseteq Upgrades

PreparedOK ==
  /\ seal \in [Procs -> Databases \cup {None}] /\ temp \in [Procs -> Copies \cup {None}]
  /\ handle \in [Procs -> Nat \cup {None}] /\ at \in [Procs -> 0 .. Latest]
  /\ seen \in [Procs -> Databases \cup {None}]

\* The types come in three parts, one for each kind of state the opening of a
\* store touches.
LEMMA TypeParts == TypeOK <=> ControlOK /\ DiskOK /\ PreparedOK
  BY DEF TypeOK, ControlOK, DiskOK, PreparedOK, Upgrades

\* None stands for an absent file, lock or handle: it is no number, no database
\* and no copy.
LEMMA Names == None \notin Nat /\ None \notin Databases /\ None \notin Copies
  BY NoneAssumption

\* What is at the database's name has a file number, a version that was
\* compiled in, rows, side files and a name that may or may not last.
LEMMA DbFields ==
  ASSUME NEW d \in Databases
  PROVE  /\ d # None /\ d.ino \in Nat /\ d.ver \in Nat /\ d.ver >= 1 /\ d.ver <= Latest
         /\ d.rows \in Nat /\ d.side \in Sides /\ d.whole \in BOOLEAN /\ d.named \in BOOLEAN
  BY Names, BoundsAssumption DEF Databases, Versions

\* The same file with the same content; its name lasts if it did.
Same(d, e) ==
  /\ e \in Databases /\ e.ino = d.ino /\ SameContent(e, d) /\ e.whole = d.whole
  /\ d.named => e.named

\* A commit makes the name of a new database last and changes nothing of its
\* content.
LEMMA Committing ==
  ASSUME NEW d \in Databases
  PROVE  Same(d, Committed(d)) /\ Committed(d).named = TRUE /\ Committed(d).side = d.side
  BY DEF Databases, Committed, Same, SameContent

Sided(d, s) == [d EXCEPT !.side = s]

\* Entering WAL mode, a checkpoint and the last close change the side files of
\* the database only.
LEMMA Siding ==
  ASSUME NEW d \in Databases, NEW s \in Sides
  PROVE  Same(d, Sided(d, s))
  BY DEF Databases, Same, SameContent, Sided

Written(d, n) == [Committed(d) EXCEPT !.rows = n]

\* A transaction of a scan, or of another program, changes the rows and makes
\* the name last; file, version and wholeness stay.
LEMMA Writing ==
  ASSUME NEW d \in Databases, NEW n \in Nat
  PROVE  LET e == Written(d, n)
         IN /\ e \in Databases /\ e.rows = n /\ e.named = TRUE
            /\ e.ino = d.ino /\ e.ver = d.ver /\ e.whole = d.whole
  <1> DEFINE e == Written(d, n)
  <1>1. Committed(d) \in Databases
    BY Committing DEF Same
  <1>2. e \in Databases /\ e.rows = n /\ e.ino = Committed(d).ino /\ e.ver = Committed(d).ver
        /\ e.whole = Committed(d).whole /\ e.named = Committed(d).named
    BY <1>1 DEF Databases, Written
  <1> QED
    BY <1>2, Committing DEF Same, SameContent

\* apply_registered_migration takes the database one version on, in one
\* transaction that leaves rows and file alone.
LEMMA Applying ==
  ASSUME NEW d \in Databases, d.ver < Latest
  PROVE  /\ Applied(d) \in Databases /\ Applied(d).ver = d.ver + 1 /\ Applied(d).named = TRUE
         /\ Applied(d).ino = d.ino /\ Applied(d).rows = d.rows /\ Applied(d).whole = d.whole
  <1>1. Committed(d) \in Databases /\ Committed(d).ver = d.ver
    BY Committing DEF Same, SameContent
  <1>2. d.ver + 1 \in Versions
    BY DbFields, BoundsAssumption DEF Versions
  <1>3. /\ Applied(d) \in Databases /\ Applied(d).ver = d.ver + 1
        /\ Applied(d).named = Committed(d).named /\ Applied(d).ino = Committed(d).ino
        /\ Applied(d).rows = Committed(d).rows /\ Applied(d).whole = Committed(d).whole
    BY <1>1, <1>2 DEF Databases, Applied
  <1> QED
    BY <1>3, Committing DEF Same, SameContent

\* A copy holds what was copied, and syncing it changes nothing of that.
SyncedAs(c, b) == [c EXCEPT !.synced = b]

\* The copy of a family holds the version and the rows of what was copied.
LEMMA Copying ==
  ASSUME NEW d \in Databases
  PROVE  CopyOf(d) \in Copies /\ CopyOf(d) # None /\ CopyOf(d).ver = d.ver /\ CopyOf(d).rows = d.rows
  <1>1. CopyOf(d) \in Copies /\ CopyOf(d).ver = d.ver /\ CopyOf(d).rows = d.rows
    BY DEF Databases, Copies, CopyOf
  <1> QED
    BY <1>1, Names

\* A staged copy is never absent and holds a version, rows and a mark whether
\* its bytes are synced.
LEMMA CopyFields ==
  ASSUME NEW c \in Copies
  PROVE  c # None /\ c.ver \in Nat /\ c.rows \in Nat /\ c.synced \in BOOLEAN
  BY Names DEF Copies, Versions

\* Recovering a staged copy or syncing the backup made of it changes the mark
\* of its bytes only.
LEMMA Syncing ==
  ASSUME NEW c \in Copies, NEW b \in BOOLEAN
  PROVE  /\ c # None /\ c.ver \in Versions /\ c.rows \in Nat /\ c.synced \in BOOLEAN
         /\ SyncedAs(c, b) \in Copies /\ SyncedAs(c, b) # None
         /\ SyncedAs(c, b).ver = c.ver /\ SyncedAs(c, b).rows = c.rows
         /\ SyncedAs(c, b).synced = b
  BY Names DEF Copies, SyncedAs

\* Syncing the directory changes nothing of a backup but that its name lasts.
LEMMA Naming ==
  ASSUME NEW B \in SUBSET Backups
  PROVE  /\ NamesSynced(B) \subseteq Backups
         /\ \A b \in B : \E c \in NamesSynced(B) :
              SameContent(c, b) /\ c.whole = b.whole /\ c.named
  <1>1. ASSUME NEW b \in B PROVE LET c == [b EXCEPT !.named = TRUE]
                                 IN c \in Backups /\ SameContent(c, b) /\ c.whole = b.whole /\ c.named
    BY DEF Backups, SameContent
  <1> QED
    BY <1>1 DEF NamesSynced

\* What a step may do to the database but for a power loss: nothing, a change
\* that moves its content forward and never makes its name less lasting, or the
\* publication of a new one where there was none.
Advanced ==
  /\ db # None /\ db' \in Databases /\ Before(db, db') /\ db'.whole /\ db'.rows <= writes'
  /\ db.named => db'.named
  /\ ~db'.named => SameContent(db', db) /\ ~db.named
  /\ db'.ino # db.ino => outside' # outside
Created ==
  /\ db = None /\ db' \in Databases /\ db'.whole /\ db'.rows = 0 /\ db'.ver = Latest
  /\ opened' = opened
Put ==
  /\ db = None /\ db' \in Databases /\ db'.whole /\ db'.named /\ db'.rows <= writes'
\* What is opened for an upgrade is no database of the latest version.
UpgradeMove ==
  /\ writes <= writes'
  /\ db = None \/ db.ver = Latest => opened' = opened

DbMove == db' = db \/ Advanced \/ Created \/ Put

\* At the first start of the program, with a store or without one, everything
\* is as the invariant says.
LEMMA InitInv == Init => Inv
  <1> SUFFICES ASSUME Init PROVE Inv
    OBVIOUS
  <1> USE Names, BoundsAssumption DEF Init
  <1>1. TypeOK
    <2>1. ASSUME NEW v \in Versions, NEW s \in Sides
          PROVE  [ino |-> 1, ver |-> v, rows |-> 0, side |-> s, whole |-> TRUE, named |-> TRUE]
                   \in Databases
      BY DEF Databases
    <2>2. pc \in [Procs -> Steps] /\ at \in [Procs -> 0 .. Latest]
      BY DEF Steps
    <2>3. db \in Databases \cup {None}
      BY <2>1
    <2> QED
      BY <2>2, <2>3 DEF TypeOK
  <1>2. LockInv
    BY DEF LockInv, Granted
  <1>3. WorkInv /\ NameInv
    BY DEF WorkInv, NameInv, Sealed, Prepared
  <1>4. BackInv
    BY DEF BackInv, BackOf, BackedUp
  <1> QED
    BY <1>1, <1>2, <1>3, <1>4 DEF Inv

\* Every step leaves the lock file, the holders and the place of each process
\* what they should be.
LEMMA ControlStep ==
  ASSUME ControlOK, [Next]_vars
  PROVE  ControlOK'
  <1> USE Names DEF ControlOK, Steps, vars, lockVars, diskVars, workVars, envVars, Goto,
      Refuse, Dropped, Released, Otherwise, OpenUnchanged, LockUnchanged
  <1>1. ASSUME NEW p \in Procs, OpenLock(p) PROVE ControlOK'
    BY <1>1 DEF OpenLock
  <1>2. ASSUME NEW p \in Procs, TryLock(p) PROVE ControlOK'
    BY <1>2 DEF TryLock, LockIsAt, LockFree
  <1>3. ASSUME NEW p \in Procs, Revalidate(p) PROVE ControlOK'
    BY <1>3 DEF Revalidate, Revalidated, LockIsAt
  <1>4. ASSUME NEW p \in Procs, VerifyIntegrity(p) PROVE ControlOK'
    BY <1>4 DEF VerifyIntegrity, LockIsAt
  <1>5. ASSUME NEW p \in Procs, Look(p) PROVE ControlOK'
    BY <1>5 DEF Look
  <1>6. ASSUME NEW p \in Procs, Make(p) PROVE ControlOK'
    BY <1>6 DEF Make
  <1>7. ASSUME NEW p \in Procs, SyncMade(p) PROVE ControlOK'
    BY <1>7 DEF SyncMade, ContentSynced
  <1>8. ASSUME NEW p \in Procs, Publish(p) PROVE ControlOK'
    <2>1. inodes' \in Nat /\ lockAt' = lockAt
      BY <1>8 DEF Publish
    <2> QED
      BY <1>8, <2>1 DEF Publish, NameFree
  <1>9. ASSUME NEW p \in Procs, SyncName(p) PROVE ControlOK'
    BY <1>9 DEF SyncName
  <1>10. ASSUME NEW p \in Procs, Reread(p) PROVE ControlOK'
    BY <1>10 DEF Reread
  <1>11. ASSUME NEW p \in Procs, Enumerate(p) PROVE ControlOK'
    BY <1>11 DEF Enumerate, FamilySafe, CleanCurrent
  <1>12. ASSUME NEW p \in Procs, CopyFamily(p) PROVE ControlOK'
    BY <1>12 DEF CopyFamily
  <1>13. ASSUME NEW p \in Procs, CompareFamily(p) PROVE ControlOK'
    BY <1>13 DEF CompareFamily
  <1>14. ASSUME NEW p \in Procs, RecoverStaged(p) PROVE ControlOK'
    BY <1>14 DEF RecoverStaged, VersionOf, NeedsBackup
  <1>15. ASSUME NEW p \in Procs, SyncBackup(p) PROVE ControlOK'
    BY <1>15 DEF SyncBackup, ContentSynced
  <1>16. ASSUME NEW p \in Procs, PublishBackup(p) PROVE ControlOK'
    BY <1>16 DEF PublishBackup
  <1>17. ASSUME NEW p \in Procs, SyncBackupName(p) PROVE ControlOK'
    BY <1>17 DEF SyncBackupName
  <1>18. ASSUME NEW p \in Procs, Unstage(p) PROVE ControlOK'
    BY <1>18 DEF Unstage
  <1>19. ASSUME NEW p \in Procs, VerifySeal(p) PROVE ControlOK'
    BY <1>19 DEF VerifySeal, LastLook, CleanCurrent
  <1>20. ASSUME NEW p \in Procs, OpenReadWrite(p) PROVE ControlOK'
    BY <1>20 DEF OpenReadWrite, VersionAgrees, VersionOf, Expected
  <1>21. ASSUME NEW p \in Procs, BeginConfigure(p) PROVE ControlOK'
    BY <1>21 DEF BeginConfigure, Bound
  <1>22. ASSUME NEW p \in Procs, EndConfigure(p) PROVE ControlOK'
    BY <1>22 DEF EndConfigure, Bound, VersionOf
  <1>23. ASSUME NEW p \in Procs, ApplyMigration(p) PROVE ControlOK'
    BY <1>23 DEF ApplyMigration, Bound
  <1>24. ASSUME NEW p \in Procs, Reconcile(p) PROVE ControlOK'
    BY <1>24 DEF Reconcile, Bound, SchemaCurrent, VersionOf
  <1>25. ASSUME NEW p \in Procs, Close(p) PROVE ControlOK'
    BY <1>25 DEF Close, Bound, LastHandle
  <1>26. ASSUME NEW p \in Procs, Closed(p) PROVE ControlOK'
    BY <1>26 DEF Closed, Bound, LastHandle
  <1>27. ASSUME NEW p \in Procs, Reopen(p) PROVE ControlOK'
    BY <1>27 DEF Reopen
  <1>28. ASSUME NEW p \in Procs, Write(p) PROVE ControlOK'
    BY <1>28 DEF Write, Bound
  <1>29. ASSUME NEW p \in Procs, EndScan(p) PROVE ControlOK'
    BY <1>29 DEF EndScan
  <1>30. ASSUME NEW p \in Procs, CallFails(p) PROVE ControlOK'
    <2>1. faults' \in Nat
      BY <1>30 DEF CallFails
    <2>2. /\ lockAt' = lockAt /\ lockOf' \in [Procs -> Nat \cup {None}]
          /\ held' \in [Procs -> BOOLEAN] /\ swapped' \subseteq Procs /\ setUp' = setUp
      BY <1>30 DEF CallFails
    <2> QED
      BY <1>30, <2>1, <2>2 DEF CallFails
  <1>31. ASSUME NEW p \in Procs, Kill(p) PROVE ControlOK'
    BY <1>31 DEF Kill
  <1>32. CASE PowerLoss
    BY <1>32 DEF PowerLoss, Survives
  <1>33. CASE RemoveLock
    BY <1>33 DEF RemoveLock, Granted
  <1>34. CASE PutDatabase
    BY <1>34 DEF PutDatabase
  <1>35. CASE WriteOutside
    BY <1>35 DEF WriteOutside
  <1>36. CASE UNCHANGED vars
    BY <1>36
  <1> QED
    BY <1>1, <1>2, <1>3, <1>4, <1>5, <1>6, <1>7, <1>8, <1>9, <1>10, <1>11, <1>12, <1>13,
       <1>14, <1>15, <1>16, <1>17, <1>18, <1>19, <1>20, <1>21, <1>22, <1>23, <1>24, <1>25,
       <1>26, <1>27, <1>28, <1>29, <1>30, <1>31, <1>32, <1>33, <1>34, <1>35, <1>36
       DEF Next, Opening, Using, Environment

\* A process past TryLock holds the file it opened, no other holds the same
\* one, and the file is the one at the lock's path unless somebody removed it
\* (AppRuntimeLock::acquire looks again after it locked).
LEMMA LockStep ==
  ASSUME TypeOK, LockInv, [Next]_vars
  PROVE  LockInv'
  <1> USE Names DEF TypeOK, LockInv, Granted, vars, lockVars, diskVars, workVars, envVars,
      Goto, Refuse, Dropped, Released, Otherwise, OpenUnchanged, LockUnchanged
  <1>1. ASSUME NEW p \in Procs, OpenLock(p) PROVE LockInv'
    BY <1>1 DEF OpenLock
  <1>2. ASSUME NEW p \in Procs, TryLock(p) PROVE LockInv'
    BY <1>2 DEF TryLock, LockIsAt, LockFree
  <1>3. ASSUME NEW p \in Procs, Revalidate(p) PROVE LockInv'
    BY <1>3 DEF Revalidate, Revalidated, LockIsAt
  <1>4. ASSUME NEW p \in Procs, VerifyIntegrity(p) PROVE LockInv'
    BY <1>4 DEF VerifyIntegrity, LockIsAt
  <1>5. ASSUME NEW p \in Procs, Look(p) PROVE LockInv'
    BY <1>5 DEF Look
  <1>6. ASSUME NEW p \in Procs, Make(p) PROVE LockInv'
    BY <1>6 DEF Make
  <1>7. ASSUME NEW p \in Procs, SyncMade(p) PROVE LockInv'
    BY <1>7 DEF SyncMade, ContentSynced
  <1>8. ASSUME NEW p \in Procs, Publish(p) PROVE LockInv'
    BY <1>8 DEF Publish, NameFree
  <1>9. ASSUME NEW p \in Procs, SyncName(p) PROVE LockInv'
    BY <1>9 DEF SyncName, Committed, NamesSynced
  <1>10. ASSUME NEW p \in Procs, Reread(p) PROVE LockInv'
    BY <1>10 DEF Reread
  <1>11. ASSUME NEW p \in Procs, Enumerate(p) PROVE LockInv'
    BY <1>11 DEF Enumerate, FamilySafe, CleanCurrent
  <1>12. ASSUME NEW p \in Procs, CopyFamily(p) PROVE LockInv'
    BY <1>12 DEF CopyFamily, CopyOf
  <1>13. ASSUME NEW p \in Procs, CompareFamily(p) PROVE LockInv'
    BY <1>13 DEF CompareFamily, SealHolds, Identity, Committed
  <1>14. ASSUME NEW p \in Procs, RecoverStaged(p) PROVE LockInv'
    BY <1>14 DEF RecoverStaged, VersionOf, NeedsBackup
  <1>15. ASSUME NEW p \in Procs, SyncBackup(p) PROVE LockInv'
    BY <1>15 DEF SyncBackup, ContentSynced
  <1>16. ASSUME NEW p \in Procs, PublishBackup(p) PROVE LockInv'
    BY <1>16 DEF PublishBackup
  <1>17. ASSUME NEW p \in Procs, SyncBackupName(p) PROVE LockInv'
    BY <1>17 DEF SyncBackupName, NamesSynced, Committed
  <1>18. ASSUME NEW p \in Procs, Unstage(p) PROVE LockInv'
    BY <1>18 DEF Unstage, SealHolds, Identity, Committed
  <1>19. ASSUME NEW p \in Procs, VerifySeal(p) PROVE LockInv'
    BY <1>19 DEF VerifySeal, LastLook, CleanCurrent, SealHolds, Identity, Committed
  <1>20. ASSUME NEW p \in Procs, OpenReadWrite(p) PROVE LockInv'
    BY <1>20 DEF OpenReadWrite, VersionAgrees, VersionOf, Identity, Expected, Committed
  <1>21. ASSUME NEW p \in Procs, BeginConfigure(p) PROVE LockInv'
    BY <1>21 DEF BeginConfigure, Bound
  <1>22. ASSUME NEW p \in Procs, EndConfigure(p) PROVE LockInv'
    BY <1>22 DEF EndConfigure, Bound, VersionOf
  <1>23. ASSUME NEW p \in Procs, ApplyMigration(p) PROVE LockInv'
    BY <1>23 DEF ApplyMigration, Bound, Applied, Committed
  <1>24. ASSUME NEW p \in Procs, Reconcile(p) PROVE LockInv'
    BY <1>24 DEF Reconcile, Bound, SchemaCurrent, VersionOf
  <1>25. ASSUME NEW p \in Procs, Close(p) PROVE LockInv'
    BY <1>25 DEF Close, Bound, LastHandle
  <1>26. ASSUME NEW p \in Procs, Closed(p) PROVE LockInv'
    BY <1>26 DEF Closed, Bound, LastHandle
  <1>27. ASSUME NEW p \in Procs, Reopen(p) PROVE LockInv'
    BY <1>27 DEF Reopen
  <1>28. ASSUME NEW p \in Procs, Write(p) PROVE LockInv'
    BY <1>28 DEF Write, Bound, Committed
  <1>29. ASSUME NEW p \in Procs, EndScan(p) PROVE LockInv'
    BY <1>29 DEF EndScan
  <1>30. ASSUME NEW p \in Procs, CallFails(p) PROVE LockInv'
    BY <1>30 DEF CallFails
  <1>31. ASSUME NEW p \in Procs, Kill(p) PROVE LockInv'
    BY <1>31 DEF Kill
  <1>32. CASE PowerLoss
    BY <1>32 DEF PowerLoss, Survives
  <1>33. CASE RemoveLock
    BY <1>33 DEF RemoveLock
  <1>34. CASE PutDatabase
    BY <1>34 DEF PutDatabase, Versions
  <1>35. CASE WriteOutside
    BY <1>35 DEF WriteOutside, Committed
  <1>36. CASE UNCHANGED vars
    BY <1>36
  <1> QED
    BY <1>1, <1>2, <1>3, <1>4, <1>5, <1>6, <1>7, <1>8, <1>9, <1>10, <1>11, <1>12, <1>13,
       <1>14, <1>15, <1>16, <1>17, <1>18, <1>19, <1>20, <1>21, <1>22, <1>23, <1>24, <1>25,
       <1>26, <1>27, <1>28, <1>29, <1>30, <1>31, <1>32, <1>33, <1>34, <1>35, <1>36
       DEF Next, Opening, Using, Environment

\* A change of the side files or of the lasting of the name only is an advance
\* of the database.
LEMMA SameMoves ==
  ASSUME DiskOK, NameInv, db # None, Same(db, db'), writes' = writes
  PROVE  DbMove
  <1>1. db \in Databases
    BY DEF DiskOK
  <1>2. db' # None /\ db'.ver = db.ver /\ db'.rows = db.rows /\ db.ver \in Nat /\ db.rows \in Nat
    BY <1>1, DbFields DEF Same, SameContent
  <1> QED
    BY <1>1, <1>2 DEF Same, DbMove, Advanced, Before, SameContent, NameInv

\* But for a power loss, a step leaves the database alone, moves its content
\* forward, or makes one where there was none (initialize_database publishes
\* without replacing).
LEMMA DbStep ==
  ASSUME ControlOK, DiskOK, WorkInv, NameInv, [Next]_vars
  PROVE  PowerLoss \/ DbMove
  <1> USE DEF ControlOK, DiskOK, DbMove, NameInv, vars, lockVars, diskVars, workVars,
      envVars, Goto, Refuse, Dropped, Released, Otherwise, OpenUnchanged, LockUnchanged
  <1>1. ASSUME NEW p \in Procs, OpenLock(p) PROVE PowerLoss \/ DbMove
    BY <1>1 DEF OpenLock
  <1>2. ASSUME NEW p \in Procs, TryLock(p) PROVE PowerLoss \/ DbMove
    BY <1>2 DEF TryLock, LockIsAt, LockFree
  <1>3. ASSUME NEW p \in Procs, Revalidate(p) PROVE PowerLoss \/ DbMove
    BY <1>3 DEF Revalidate, Revalidated, LockIsAt
  <1>4. ASSUME NEW p \in Procs, VerifyIntegrity(p) PROVE PowerLoss \/ DbMove
    BY <1>4 DEF VerifyIntegrity, LockIsAt
  <1>5. ASSUME NEW p \in Procs, Look(p) PROVE PowerLoss \/ DbMove
    BY <1>5 DEF Look
  <1>6. ASSUME NEW p \in Procs, Make(p) PROVE PowerLoss \/ DbMove
    BY <1>6 DEF Make
  <1>7. ASSUME NEW p \in Procs, SyncMade(p) PROVE PowerLoss \/ DbMove
    BY <1>7 DEF SyncMade, ContentSynced
  <1>8. ASSUME NEW p \in Procs, Publish(p) PROVE PowerLoss \/ DbMove
    <2>1. CASE NameFree
      <3>1. PICK i \in Nat :
              db' = [ino |-> i, ver |-> temp[p].ver, rows |-> temp[p].rows,
                     side |-> {}, whole |-> temp[p].synced, named |-> FALSE]
        BY <1>8, <2>1 DEF Publish
      <3>2. temp[p].ver = Latest /\ temp[p].rows = 0 /\ temp[p].synced
        BY <1>8 DEF Publish, WorkInv, Prepared
      <3>3. Latest \in Versions /\ {} \in Sides
        BY BoundsAssumption DEF Versions, Sides
      <3>4. /\ db' \in Databases /\ db'.rows = 0 /\ db'.ver = Latest /\ db'.whole
        BY <3>1, <3>2, <3>3 DEF Databases
      <3> QED
        BY <1>8, <2>1, <3>4 DEF Publish, NameFree, Created
    <2> QED
      BY <1>8, <2>1 DEF Publish
  <1>9. ASSUME NEW p \in Procs, SyncName(p) PROVE PowerLoss \/ DbMove
    <2>1. CASE db # None
      <3>1. db \in Databases /\ writes' = writes /\ db' = Committed(db)
        BY <1>9, <2>1 DEF SyncName
      <3>2. Same(db, db')
        BY <3>1, Committing
      <3>3. DbMove
        BY <2>1, <3>1, <3>2, SameMoves
      <3> QED
        BY <3>3
    <2> QED
      BY <1>9, <2>1 DEF SyncName
  <1>10. ASSUME NEW p \in Procs, Reread(p) PROVE PowerLoss \/ DbMove
    BY <1>10 DEF Reread
  <1>11. ASSUME NEW p \in Procs, Enumerate(p) PROVE PowerLoss \/ DbMove
    BY <1>11 DEF Enumerate, FamilySafe, CleanCurrent
  <1>12. ASSUME NEW p \in Procs, CopyFamily(p) PROVE PowerLoss \/ DbMove
    BY <1>12 DEF CopyFamily
  <1>13. ASSUME NEW p \in Procs, CompareFamily(p) PROVE PowerLoss \/ DbMove
    BY <1>13 DEF CompareFamily
  <1>14. ASSUME NEW p \in Procs, RecoverStaged(p) PROVE PowerLoss \/ DbMove
    BY <1>14 DEF RecoverStaged, VersionOf, NeedsBackup
  <1>15. ASSUME NEW p \in Procs, SyncBackup(p) PROVE PowerLoss \/ DbMove
    BY <1>15 DEF SyncBackup, ContentSynced
  <1>16. ASSUME NEW p \in Procs, PublishBackup(p) PROVE PowerLoss \/ DbMove
    BY <1>16 DEF PublishBackup
  <1>17. ASSUME NEW p \in Procs, SyncBackupName(p) PROVE PowerLoss \/ DbMove
    <2>1. CASE db # None
      <3>1. db \in Databases /\ writes' = writes /\ db' = Committed(db)
        BY <1>17, <2>1 DEF SyncBackupName
      <3>2. Same(db, db')
        BY <3>1, Committing
      <3>3. DbMove
        BY <2>1, <3>1, <3>2, SameMoves
      <3> QED
        BY <3>3
    <2> QED
      BY <1>17, <2>1 DEF SyncBackupName
  <1>18. ASSUME NEW p \in Procs, Unstage(p) PROVE PowerLoss \/ DbMove
    BY <1>18 DEF Unstage
  <1>19. ASSUME NEW p \in Procs, VerifySeal(p) PROVE PowerLoss \/ DbMove
    BY <1>19 DEF VerifySeal, LastLook, CleanCurrent
  <1>20. ASSUME NEW p \in Procs, OpenReadWrite(p) PROVE PowerLoss \/ DbMove
    BY <1>20 DEF OpenReadWrite, VersionAgrees, VersionOf, Expected
  <1>21. ASSUME NEW p \in Procs, BeginConfigure(p) PROVE PowerLoss \/ DbMove
    <2>1. CASE Bound(p)
      <3>1. db \in Databases /\ writes' = writes
        BY <1>21, <2>1 DEF BeginConfigure, Bound
      <3>2. PICK s \in Sides : db' = Sided(db, s)
        BY <1>21, <2>1, <3>1, DbFields DEF BeginConfigure, Sides, Sided
      <3>3. Same(db, db')
        BY <3>1, <3>2, Siding
      <3>4. DbMove
        BY <2>1, <3>1, <3>3, Names, SameMoves DEF Bound
      <3> QED
        BY <3>4
    <2> QED
      BY <1>21, <2>1 DEF BeginConfigure
  <1>22. ASSUME NEW p \in Procs, EndConfigure(p) PROVE PowerLoss \/ DbMove
    <2>1. CASE Bound(p)
      <3>1. db \in Databases /\ writes' = writes
        BY <1>22, <2>1 DEF EndConfigure, Bound
      <3>2. PICK s \in Sides : db' = Sided(db, s)
        BY <1>22, <2>1, <3>1, DbFields DEF EndConfigure, Sides, Sided
      <3>3. Same(db, db')
        BY <3>1, <3>2, Siding
      <3>4. DbMove
        BY <2>1, <3>1, <3>3, Names, SameMoves DEF Bound
      <3> QED
        BY <3>4
    <2> QED
      BY <1>22, <2>1 DEF EndConfigure
  <1>23. ASSUME NEW p \in Procs, ApplyMigration(p) PROVE PowerLoss \/ DbMove
    <2>1. CASE Bound(p) /\ db.ver = at[p]
      <3>1. db \in Databases /\ writes' = writes /\ db' = Applied(db) /\ db.ver < Latest
        BY <1>23, <2>1 DEF ApplyMigration, Bound
      <3>2. /\ db' \in Databases /\ db'.ver = db.ver + 1 /\ db'.named = TRUE
            /\ db'.ino = db.ino /\ db'.rows = db.rows /\ db'.whole = db.whole
        BY <3>1, Applying
      <3> QED
        BY <3>1, <3>2, DbFields, Names DEF Advanced, Before
    <2> QED
      BY <1>23, <2>1 DEF ApplyMigration
  <1>24. ASSUME NEW p \in Procs, Reconcile(p) PROVE PowerLoss \/ DbMove
    BY <1>24 DEF Reconcile, Bound, SchemaCurrent, VersionOf
  <1>25. ASSUME NEW p \in Procs, Close(p) PROVE PowerLoss \/ DbMove
    <2>1. CASE Bound(p)
      <3>1. db \in Databases /\ writes' = writes
        BY <1>25, <2>1 DEF Close, Bound
      <3>2. PICK s \in Sides : db' = Sided(db, s)
        BY <1>25, <2>1, <3>1, DbFields DEF Close, Sides, Sided
      <3>3. Same(db, db')
        BY <3>1, <3>2, Siding
      <3>4. DbMove
        BY <2>1, <3>1, <3>3, Names, SameMoves DEF Bound
      <3> QED
        BY <3>4
    <2> QED
      BY <1>25, <2>1 DEF Close
  <1>26. ASSUME NEW p \in Procs, Closed(p) PROVE PowerLoss \/ DbMove
    <2>1. CASE Bound(p) /\ LastHandle(p)
      <3>1. db \in Databases /\ writes' = writes
        BY <1>26, <2>1 DEF Closed, Bound
      <3>2. PICK s \in Sides : db' = Sided(db, s)
        BY <1>26, <2>1, <3>1, DbFields DEF Closed, Sides, Sided
      <3>3. Same(db, db')
        BY <3>1, <3>2, Siding
      <3>4. DbMove
        BY <2>1, <3>1, <3>3, Names, SameMoves DEF Bound
      <3> QED
        BY <3>4
    <2> QED
      BY <1>26, <2>1 DEF Closed
  <1>27. ASSUME NEW p \in Procs, Reopen(p) PROVE PowerLoss \/ DbMove
    BY <1>27 DEF Reopen
  <1>28. ASSUME NEW p \in Procs, Write(p) PROVE PowerLoss \/ DbMove
    <2>1. db \in Databases /\ writes' = writes + 1 /\ db' = Written(db, writes')
      BY <1>28 DEF Write, Bound, Written
    <2>2. writes' \in Nat /\ db.rows < writes'
      BY <2>1, DbFields
    <2>3. /\ db' \in Databases /\ db'.rows = writes' /\ db'.named = TRUE
          /\ db'.ino = db.ino /\ db'.ver = db.ver /\ db'.whole = db.whole
      BY <2>1, <2>2, Writing
    <2> QED
      BY <2>1, <2>2, <2>3, Names DEF Advanced, Before
  <1>29. ASSUME NEW p \in Procs, EndScan(p) PROVE PowerLoss \/ DbMove
    BY <1>29 DEF EndScan
  <1>30. ASSUME NEW p \in Procs, CallFails(p) PROVE PowerLoss \/ DbMove
    BY <1>30 DEF CallFails
  <1>31. ASSUME NEW p \in Procs, Kill(p) PROVE PowerLoss \/ DbMove
    BY <1>31 DEF Kill
  <1>32. CASE PowerLoss
    BY <1>32 DEF PowerLoss, Survives
  <1>33. CASE RemoveLock
    BY <1>33 DEF RemoveLock, Granted
  <1>34. CASE PutDatabase
    <2>1. PICK v \in Versions :
            db' = [ino |-> inodes', ver |-> v, rows |-> writes', side |-> {},
                   whole |-> TRUE, named |-> TRUE]
      BY <1>34 DEF PutDatabase
    <2>2. inodes' \in Nat /\ writes' \in Nat /\ writes' > writes /\ outside' # outside
      BY <1>34 DEF PutDatabase
    <2>3. /\ db' \in Databases /\ db'.rows = writes' /\ db'.whole = TRUE /\ db'.named = TRUE
      BY <2>1, <2>2 DEF Databases, Sides
    <2>4. CASE db = None
      BY <2>2, <2>3, <2>4 DEF Put
    <2>5. CASE db # None
      BY <2>2, <2>3, <2>5, DbFields DEF Advanced, Before
    <2> QED
      BY <2>4, <2>5
  <1>35. CASE WriteOutside
    <2>1. db \in Databases /\ writes' = writes + 1 /\ db' = Written(db, writes')
      BY <1>35 DEF WriteOutside, Bound, Written
    <2>2. writes' \in Nat /\ db.rows < writes'
      BY <2>1, DbFields
    <2>3. /\ db' \in Databases /\ db'.rows = writes' /\ db'.named = TRUE
          /\ db'.ino = db.ino /\ db'.ver = db.ver /\ db'.whole = db.whole
      BY <2>1, <2>2, Writing
    <2> QED
      BY <2>1, <2>2, <2>3, Names DEF Advanced, Before
  <1>36. CASE UNCHANGED vars
    BY <1>36
  <1> QED
    BY <1>1, <1>2, <1>3, <1>4, <1>5, <1>6, <1>7, <1>8, <1>9, <1>10, <1>11, <1>12, <1>13,
       <1>14, <1>15, <1>16, <1>17, <1>18, <1>19, <1>20, <1>21, <1>22, <1>23, <1>24, <1>25,
       <1>26, <1>27, <1>28, <1>29, <1>30, <1>31, <1>32, <1>33, <1>34, <1>35, <1>36
       DEF Next, Opening, Using, Environment

\* But for a power loss, a step only adds backups or syncs the directory they
\* are in.
LEMMA BackupsMove ==
  ASSUME [Next]_vars
  PROVE  PowerLoss \/ backups \subseteq backups' \/ backups' = NamesSynced(backups)
  <1> USE DEF vars, lockVars, diskVars, workVars, envVars, Goto, Refuse, Dropped, Released,
      Otherwise, OpenUnchanged, LockUnchanged
  <1>1. ASSUME NEW p \in Procs, OpenLock(p) PROVE PowerLoss \/ backups \subseteq backups' \/ backups' = NamesSynced(backups)
    BY <1>1 DEF OpenLock
  <1>2. ASSUME NEW p \in Procs, TryLock(p) PROVE PowerLoss \/ backups \subseteq backups' \/ backups' = NamesSynced(backups)
    BY <1>2 DEF TryLock, LockIsAt, LockFree
  <1>3. ASSUME NEW p \in Procs, Revalidate(p) PROVE PowerLoss \/ backups \subseteq backups' \/ backups' = NamesSynced(backups)
    BY <1>3 DEF Revalidate, Revalidated, LockIsAt
  <1>4. ASSUME NEW p \in Procs, VerifyIntegrity(p) PROVE PowerLoss \/ backups \subseteq backups' \/ backups' = NamesSynced(backups)
    BY <1>4 DEF VerifyIntegrity, LockIsAt
  <1>5. ASSUME NEW p \in Procs, Look(p) PROVE PowerLoss \/ backups \subseteq backups' \/ backups' = NamesSynced(backups)
    BY <1>5 DEF Look
  <1>6. ASSUME NEW p \in Procs, Make(p) PROVE PowerLoss \/ backups \subseteq backups' \/ backups' = NamesSynced(backups)
    BY <1>6 DEF Make
  <1>7. ASSUME NEW p \in Procs, SyncMade(p) PROVE PowerLoss \/ backups \subseteq backups' \/ backups' = NamesSynced(backups)
    BY <1>7 DEF SyncMade, ContentSynced
  <1>8. ASSUME NEW p \in Procs, Publish(p) PROVE PowerLoss \/ backups \subseteq backups' \/ backups' = NamesSynced(backups)
    BY <1>8 DEF Publish, NameFree
  <1>9. ASSUME NEW p \in Procs, SyncName(p) PROVE PowerLoss \/ backups \subseteq backups' \/ backups' = NamesSynced(backups)
    BY <1>9 DEF SyncName
  <1>10. ASSUME NEW p \in Procs, Reread(p) PROVE PowerLoss \/ backups \subseteq backups' \/ backups' = NamesSynced(backups)
    BY <1>10 DEF Reread
  <1>11. ASSUME NEW p \in Procs, Enumerate(p) PROVE PowerLoss \/ backups \subseteq backups' \/ backups' = NamesSynced(backups)
    BY <1>11 DEF Enumerate, FamilySafe, CleanCurrent
  <1>12. ASSUME NEW p \in Procs, CopyFamily(p) PROVE PowerLoss \/ backups \subseteq backups' \/ backups' = NamesSynced(backups)
    BY <1>12 DEF CopyFamily
  <1>13. ASSUME NEW p \in Procs, CompareFamily(p) PROVE PowerLoss \/ backups \subseteq backups' \/ backups' = NamesSynced(backups)
    BY <1>13 DEF CompareFamily
  <1>14. ASSUME NEW p \in Procs, RecoverStaged(p) PROVE PowerLoss \/ backups \subseteq backups' \/ backups' = NamesSynced(backups)
    BY <1>14 DEF RecoverStaged, VersionOf, NeedsBackup
  <1>15. ASSUME NEW p \in Procs, SyncBackup(p) PROVE PowerLoss \/ backups \subseteq backups' \/ backups' = NamesSynced(backups)
    BY <1>15 DEF SyncBackup, ContentSynced
  <1>16. ASSUME NEW p \in Procs, PublishBackup(p) PROVE PowerLoss \/ backups \subseteq backups' \/ backups' = NamesSynced(backups)
    BY <1>16 DEF PublishBackup
  <1>17. ASSUME NEW p \in Procs, SyncBackupName(p) PROVE PowerLoss \/ backups \subseteq backups' \/ backups' = NamesSynced(backups)
    BY <1>17 DEF SyncBackupName
  <1>18. ASSUME NEW p \in Procs, Unstage(p) PROVE PowerLoss \/ backups \subseteq backups' \/ backups' = NamesSynced(backups)
    BY <1>18 DEF Unstage
  <1>19. ASSUME NEW p \in Procs, VerifySeal(p) PROVE PowerLoss \/ backups \subseteq backups' \/ backups' = NamesSynced(backups)
    BY <1>19 DEF VerifySeal, LastLook, CleanCurrent
  <1>20. ASSUME NEW p \in Procs, OpenReadWrite(p) PROVE PowerLoss \/ backups \subseteq backups' \/ backups' = NamesSynced(backups)
    BY <1>20 DEF OpenReadWrite, VersionAgrees, VersionOf, Expected
  <1>21. ASSUME NEW p \in Procs, BeginConfigure(p) PROVE PowerLoss \/ backups \subseteq backups' \/ backups' = NamesSynced(backups)
    BY <1>21 DEF BeginConfigure, Bound
  <1>22. ASSUME NEW p \in Procs, EndConfigure(p) PROVE PowerLoss \/ backups \subseteq backups' \/ backups' = NamesSynced(backups)
    BY <1>22 DEF EndConfigure, Bound, VersionOf
  <1>23. ASSUME NEW p \in Procs, ApplyMigration(p) PROVE PowerLoss \/ backups \subseteq backups' \/ backups' = NamesSynced(backups)
    BY <1>23 DEF ApplyMigration, Bound
  <1>24. ASSUME NEW p \in Procs, Reconcile(p) PROVE PowerLoss \/ backups \subseteq backups' \/ backups' = NamesSynced(backups)
    BY <1>24 DEF Reconcile, Bound, SchemaCurrent, VersionOf
  <1>25. ASSUME NEW p \in Procs, Close(p) PROVE PowerLoss \/ backups \subseteq backups' \/ backups' = NamesSynced(backups)
    BY <1>25 DEF Close, Bound, LastHandle
  <1>26. ASSUME NEW p \in Procs, Closed(p) PROVE PowerLoss \/ backups \subseteq backups' \/ backups' = NamesSynced(backups)
    BY <1>26 DEF Closed, Bound, LastHandle
  <1>27. ASSUME NEW p \in Procs, Reopen(p) PROVE PowerLoss \/ backups \subseteq backups' \/ backups' = NamesSynced(backups)
    BY <1>27 DEF Reopen
  <1>28. ASSUME NEW p \in Procs, Write(p) PROVE PowerLoss \/ backups \subseteq backups' \/ backups' = NamesSynced(backups)
    BY <1>28 DEF Write, Bound
  <1>29. ASSUME NEW p \in Procs, EndScan(p) PROVE PowerLoss \/ backups \subseteq backups' \/ backups' = NamesSynced(backups)
    BY <1>29 DEF EndScan
  <1>30. ASSUME NEW p \in Procs, CallFails(p) PROVE PowerLoss \/ backups \subseteq backups' \/ backups' = NamesSynced(backups)
    BY <1>30 DEF CallFails
  <1>31. ASSUME NEW p \in Procs, Kill(p) PROVE PowerLoss \/ backups \subseteq backups' \/ backups' = NamesSynced(backups)
    BY <1>31 DEF Kill
  <1>32. CASE PowerLoss
    BY <1>32
  <1>33. CASE RemoveLock
    BY <1>33 DEF RemoveLock, Granted
  <1>34. CASE PutDatabase
    BY <1>34 DEF PutDatabase
  <1>35. CASE WriteOutside
    BY <1>35 DEF WriteOutside
  <1>36. CASE UNCHANGED vars
    BY <1>36
  <1> QED
    BY <1>1, <1>2, <1>3, <1>4, <1>5, <1>6, <1>7, <1>8, <1>9, <1>10, <1>11, <1>12, <1>13,
       <1>14, <1>15, <1>16, <1>17, <1>18, <1>19, <1>20, <1>21, <1>22, <1>23, <1>24, <1>25,
       <1>26, <1>27, <1>28, <1>29, <1>30, <1>31, <1>32, <1>33, <1>34, <1>35, <1>36
       DEF Next, Opening, Using, Environment

\* Only the read-write open begins an upgrade (open_inner_with_operations).
LEMMA OpenedMove ==
  ASSUME [Next]_vars
  PROVE  opened' = opened \/ \E r \in Procs : OpenReadWrite(r)
  <1> USE DEF vars, lockVars, diskVars, workVars, envVars, Goto, Refuse, Dropped, Released,
      Otherwise, OpenUnchanged, LockUnchanged
  <1>1. ASSUME NEW p \in Procs, OpenLock(p) PROVE opened' = opened \/ \E r \in Procs : OpenReadWrite(r)
    BY <1>1 DEF OpenLock
  <1>2. ASSUME NEW p \in Procs, TryLock(p) PROVE opened' = opened \/ \E r \in Procs : OpenReadWrite(r)
    BY <1>2 DEF TryLock, LockIsAt, LockFree
  <1>3. ASSUME NEW p \in Procs, Revalidate(p) PROVE opened' = opened \/ \E r \in Procs : OpenReadWrite(r)
    BY <1>3 DEF Revalidate, Revalidated, LockIsAt
  <1>4. ASSUME NEW p \in Procs, VerifyIntegrity(p) PROVE opened' = opened \/ \E r \in Procs : OpenReadWrite(r)
    BY <1>4 DEF VerifyIntegrity, LockIsAt
  <1>5. ASSUME NEW p \in Procs, Look(p) PROVE opened' = opened \/ \E r \in Procs : OpenReadWrite(r)
    BY <1>5 DEF Look
  <1>6. ASSUME NEW p \in Procs, Make(p) PROVE opened' = opened \/ \E r \in Procs : OpenReadWrite(r)
    BY <1>6 DEF Make
  <1>7. ASSUME NEW p \in Procs, SyncMade(p) PROVE opened' = opened \/ \E r \in Procs : OpenReadWrite(r)
    BY <1>7 DEF SyncMade, ContentSynced
  <1>8. ASSUME NEW p \in Procs, Publish(p) PROVE opened' = opened \/ \E r \in Procs : OpenReadWrite(r)
    BY <1>8 DEF Publish, NameFree
  <1>9. ASSUME NEW p \in Procs, SyncName(p) PROVE opened' = opened \/ \E r \in Procs : OpenReadWrite(r)
    BY <1>9 DEF SyncName
  <1>10. ASSUME NEW p \in Procs, Reread(p) PROVE opened' = opened \/ \E r \in Procs : OpenReadWrite(r)
    BY <1>10 DEF Reread
  <1>11. ASSUME NEW p \in Procs, Enumerate(p) PROVE opened' = opened \/ \E r \in Procs : OpenReadWrite(r)
    BY <1>11 DEF Enumerate, FamilySafe, CleanCurrent
  <1>12. ASSUME NEW p \in Procs, CopyFamily(p) PROVE opened' = opened \/ \E r \in Procs : OpenReadWrite(r)
    BY <1>12 DEF CopyFamily
  <1>13. ASSUME NEW p \in Procs, CompareFamily(p) PROVE opened' = opened \/ \E r \in Procs : OpenReadWrite(r)
    BY <1>13 DEF CompareFamily
  <1>14. ASSUME NEW p \in Procs, RecoverStaged(p) PROVE opened' = opened \/ \E r \in Procs : OpenReadWrite(r)
    BY <1>14 DEF RecoverStaged, VersionOf, NeedsBackup
  <1>15. ASSUME NEW p \in Procs, SyncBackup(p) PROVE opened' = opened \/ \E r \in Procs : OpenReadWrite(r)
    BY <1>15 DEF SyncBackup, ContentSynced
  <1>16. ASSUME NEW p \in Procs, PublishBackup(p) PROVE opened' = opened \/ \E r \in Procs : OpenReadWrite(r)
    BY <1>16 DEF PublishBackup
  <1>17. ASSUME NEW p \in Procs, SyncBackupName(p) PROVE opened' = opened \/ \E r \in Procs : OpenReadWrite(r)
    BY <1>17 DEF SyncBackupName
  <1>18. ASSUME NEW p \in Procs, Unstage(p) PROVE opened' = opened \/ \E r \in Procs : OpenReadWrite(r)
    BY <1>18 DEF Unstage
  <1>19. ASSUME NEW p \in Procs, VerifySeal(p) PROVE opened' = opened \/ \E r \in Procs : OpenReadWrite(r)
    BY <1>19 DEF VerifySeal, LastLook, CleanCurrent
  <1>20. ASSUME NEW p \in Procs, OpenReadWrite(p) PROVE opened' = opened \/ \E r \in Procs : OpenReadWrite(r)
    BY <1>20
  <1>21. ASSUME NEW p \in Procs, BeginConfigure(p) PROVE opened' = opened \/ \E r \in Procs : OpenReadWrite(r)
    BY <1>21 DEF BeginConfigure, Bound
  <1>22. ASSUME NEW p \in Procs, EndConfigure(p) PROVE opened' = opened \/ \E r \in Procs : OpenReadWrite(r)
    BY <1>22 DEF EndConfigure, Bound, VersionOf
  <1>23. ASSUME NEW p \in Procs, ApplyMigration(p) PROVE opened' = opened \/ \E r \in Procs : OpenReadWrite(r)
    BY <1>23 DEF ApplyMigration, Bound
  <1>24. ASSUME NEW p \in Procs, Reconcile(p) PROVE opened' = opened \/ \E r \in Procs : OpenReadWrite(r)
    BY <1>24 DEF Reconcile, Bound, SchemaCurrent, VersionOf
  <1>25. ASSUME NEW p \in Procs, Close(p) PROVE opened' = opened \/ \E r \in Procs : OpenReadWrite(r)
    BY <1>25 DEF Close, Bound, LastHandle
  <1>26. ASSUME NEW p \in Procs, Closed(p) PROVE opened' = opened \/ \E r \in Procs : OpenReadWrite(r)
    BY <1>26 DEF Closed, Bound, LastHandle
  <1>27. ASSUME NEW p \in Procs, Reopen(p) PROVE opened' = opened \/ \E r \in Procs : OpenReadWrite(r)
    BY <1>27 DEF Reopen
  <1>28. ASSUME NEW p \in Procs, Write(p) PROVE opened' = opened \/ \E r \in Procs : OpenReadWrite(r)
    BY <1>28 DEF Write, Bound
  <1>29. ASSUME NEW p \in Procs, EndScan(p) PROVE opened' = opened \/ \E r \in Procs : OpenReadWrite(r)
    BY <1>29 DEF EndScan
  <1>30. ASSUME NEW p \in Procs, CallFails(p) PROVE opened' = opened \/ \E r \in Procs : OpenReadWrite(r)
    BY <1>30 DEF CallFails
  <1>31. ASSUME NEW p \in Procs, Kill(p) PROVE opened' = opened \/ \E r \in Procs : OpenReadWrite(r)
    BY <1>31 DEF Kill
  <1>32. CASE PowerLoss
    BY <1>32 DEF PowerLoss, Survives
  <1>33. CASE RemoveLock
    BY <1>33 DEF RemoveLock, Granted
  <1>34. CASE PutDatabase
    BY <1>34 DEF PutDatabase
  <1>35. CASE WriteOutside
    BY <1>35 DEF WriteOutside
  <1>36. CASE UNCHANGED vars
    BY <1>36
  <1> QED
    BY <1>1, <1>2, <1>3, <1>4, <1>5, <1>6, <1>7, <1>8, <1>9, <1>10, <1>11, <1>12, <1>13,
       <1>14, <1>15, <1>16, <1>17, <1>18, <1>19, <1>20, <1>21, <1>22, <1>23, <1>24, <1>25,
       <1>26, <1>27, <1>28, <1>29, <1>30, <1>31, <1>32, <1>33, <1>34, <1>35, <1>36
       DEF Next, Opening, Using, Environment

\* Nothing but a power loss takes the database away or moves its content back.
LEMMA DbForward ==
  ASSUME ControlOK, DiskOK, WorkInv, NameInv, [Next]_vars, ~PowerLoss, db # None
  PROVE  db' # None /\ db' \in Databases /\ Before(db, db')
  <1>1. db \in Databases
    BY DEF DiskOK
  <1>2. CASE db' = db
    BY <1>1, <1>2, DbFields DEF Before
  <1>3. CASE Advanced
    BY <1>3, Names DEF Advanced
  <1> QED
    BY <1>2, <1>3, DbStep DEF DbMove, Created, Put

\* Every step publishes backups of compiled versions only, and begins upgrades
\* from such versions only.
LEMMA FilesStep ==
  ASSUME ControlOK, DiskOK, PreparedOK, WorkInv, [Next]_vars
  PROVE  backups' \subseteq Backups /\ opened' \subseteq Upgrades
  <1> USE Names DEF DiskOK, PreparedOK, ControlOK, vars, lockVars, diskVars, workVars,
      envVars, Goto, Refuse, Dropped, Released, Otherwise, OpenUnchanged, LockUnchanged
  <1>1. ASSUME NEW p \in Procs, OpenLock(p) PROVE backups' \subseteq Backups /\ opened' \subseteq Upgrades
    BY <1>1 DEF OpenLock
  <1>2. ASSUME NEW p \in Procs, TryLock(p) PROVE backups' \subseteq Backups /\ opened' \subseteq Upgrades
    BY <1>2 DEF TryLock, LockIsAt, LockFree
  <1>3. ASSUME NEW p \in Procs, Revalidate(p) PROVE backups' \subseteq Backups /\ opened' \subseteq Upgrades
    BY <1>3 DEF Revalidate, Revalidated, LockIsAt
  <1>4. ASSUME NEW p \in Procs, VerifyIntegrity(p) PROVE backups' \subseteq Backups /\ opened' \subseteq Upgrades
    BY <1>4 DEF VerifyIntegrity, LockIsAt
  <1>5. ASSUME NEW p \in Procs, Look(p) PROVE backups' \subseteq Backups /\ opened' \subseteq Upgrades
    BY <1>5 DEF Look
  <1>6. ASSUME NEW p \in Procs, Make(p) PROVE backups' \subseteq Backups /\ opened' \subseteq Upgrades
    BY <1>6 DEF Make
  <1>7. ASSUME NEW p \in Procs, SyncMade(p) PROVE backups' \subseteq Backups /\ opened' \subseteq Upgrades
    BY <1>7 DEF SyncMade, ContentSynced
  <1>8. ASSUME NEW p \in Procs, Publish(p) PROVE backups' \subseteq Backups /\ opened' \subseteq Upgrades
    BY <1>8 DEF Publish
  <1>9. ASSUME NEW p \in Procs, SyncName(p) PROVE backups' \subseteq Backups /\ opened' \subseteq Upgrades
    BY <1>9, Naming DEF SyncName
  <1>10. ASSUME NEW p \in Procs, Reread(p) PROVE backups' \subseteq Backups /\ opened' \subseteq Upgrades
    BY <1>10 DEF Reread
  <1>11. ASSUME NEW p \in Procs, Enumerate(p) PROVE backups' \subseteq Backups /\ opened' \subseteq Upgrades
    BY <1>11 DEF Enumerate, FamilySafe, CleanCurrent
  <1>12. ASSUME NEW p \in Procs, CopyFamily(p) PROVE backups' \subseteq Backups /\ opened' \subseteq Upgrades
    BY <1>12 DEF CopyFamily
  <1>13. ASSUME NEW p \in Procs, CompareFamily(p) PROVE backups' \subseteq Backups /\ opened' \subseteq Upgrades
    BY <1>13 DEF CompareFamily
  <1>14. ASSUME NEW p \in Procs, RecoverStaged(p) PROVE backups' \subseteq Backups /\ opened' \subseteq Upgrades
    BY <1>14 DEF RecoverStaged, VersionOf, NeedsBackup
  <1>15. ASSUME NEW p \in Procs, SyncBackup(p) PROVE backups' \subseteq Backups /\ opened' \subseteq Upgrades
    BY <1>15 DEF SyncBackup, ContentSynced
  <1>16. ASSUME NEW p \in Procs, PublishBackup(p) PROVE backups' \subseteq Backups /\ opened' \subseteq Upgrades
    <2>1. temp[p] \in Copies
      BY <1>16 DEF PublishBackup, WorkInv, Prepared
    <2>2. [ver |-> temp[p].ver, rows |-> temp[p].rows, whole |-> temp[p].synced, named |-> FALSE] \in Backups
      BY <2>1, Syncing DEF Backups
    <2> QED
      BY <1>16, <2>2 DEF PublishBackup
  <1>17. ASSUME NEW p \in Procs, SyncBackupName(p) PROVE backups' \subseteq Backups /\ opened' \subseteq Upgrades
    BY <1>17, Naming DEF SyncBackupName
  <1>18. ASSUME NEW p \in Procs, Unstage(p) PROVE backups' \subseteq Backups /\ opened' \subseteq Upgrades
    BY <1>18 DEF Unstage
  <1>19. ASSUME NEW p \in Procs, VerifySeal(p) PROVE backups' \subseteq Backups /\ opened' \subseteq Upgrades
    BY <1>19 DEF VerifySeal, LastLook, CleanCurrent
  <1>20. ASSUME NEW p \in Procs, OpenReadWrite(p) PROVE backups' \subseteq Backups /\ opened' \subseteq Upgrades
    <2>1. CASE db # None /\ VersionAgrees(p)
      <3>1. db.ver \in Versions /\ db.rows \in Nat
        BY <2>1, DbFields DEF Databases
      <3>2. [ver |-> db.ver, rows |-> db.rows, sealed |-> seal[p] # None,
             asSeen |-> Identity(db) = Identity(seen[p])] \in Upgrades
        BY <3>1 DEF Upgrades
      <3> QED
        BY <1>20, <2>1, <3>2 DEF OpenReadWrite
    <2> QED
      BY <1>20, <2>1 DEF OpenReadWrite
  <1>21. ASSUME NEW p \in Procs, BeginConfigure(p) PROVE backups' \subseteq Backups /\ opened' \subseteq Upgrades
    BY <1>21 DEF BeginConfigure
  <1>22. ASSUME NEW p \in Procs, EndConfigure(p) PROVE backups' \subseteq Backups /\ opened' \subseteq Upgrades
    BY <1>22 DEF EndConfigure
  <1>23. ASSUME NEW p \in Procs, ApplyMigration(p) PROVE backups' \subseteq Backups /\ opened' \subseteq Upgrades
    BY <1>23 DEF ApplyMigration
  <1>24. ASSUME NEW p \in Procs, Reconcile(p) PROVE backups' \subseteq Backups /\ opened' \subseteq Upgrades
    BY <1>24 DEF Reconcile, Bound, SchemaCurrent, VersionOf
  <1>25. ASSUME NEW p \in Procs, Close(p) PROVE backups' \subseteq Backups /\ opened' \subseteq Upgrades
    BY <1>25 DEF Close
  <1>26. ASSUME NEW p \in Procs, Closed(p) PROVE backups' \subseteq Backups /\ opened' \subseteq Upgrades
    BY <1>26 DEF Closed
  <1>27. ASSUME NEW p \in Procs, Reopen(p) PROVE backups' \subseteq Backups /\ opened' \subseteq Upgrades
    BY <1>27 DEF Reopen
  <1>28. ASSUME NEW p \in Procs, Write(p) PROVE backups' \subseteq Backups /\ opened' \subseteq Upgrades
    BY <1>28 DEF Write
  <1>29. ASSUME NEW p \in Procs, EndScan(p) PROVE backups' \subseteq Backups /\ opened' \subseteq Upgrades
    BY <1>29 DEF EndScan
  <1>30. ASSUME NEW p \in Procs, CallFails(p) PROVE backups' \subseteq Backups /\ opened' \subseteq Upgrades
    BY <1>30 DEF CallFails
  <1>31. ASSUME NEW p \in Procs, Kill(p) PROVE backups' \subseteq Backups /\ opened' \subseteq Upgrades
    BY <1>31 DEF Kill
  <1>32. CASE PowerLoss
    BY <1>32 DEF PowerLoss, Survives
  <1>33. CASE RemoveLock
    BY <1>33 DEF RemoveLock, Granted
  <1>34. CASE PutDatabase
    BY <1>34 DEF PutDatabase
  <1>35. CASE WriteOutside
    BY <1>35 DEF WriteOutside
  <1>36. CASE UNCHANGED vars
    BY <1>36
  <1> QED
    BY <1>1, <1>2, <1>3, <1>4, <1>5, <1>6, <1>7, <1>8, <1>9, <1>10, <1>11, <1>12, <1>13,
       <1>14, <1>15, <1>16, <1>17, <1>18, <1>19, <1>20, <1>21, <1>22, <1>23, <1>24, <1>25,
       <1>26, <1>27, <1>28, <1>29, <1>30, <1>31, <1>32, <1>33, <1>34, <1>35, <1>36
       DEF Next, Opening, Using, Environment

\* Every step keeps the seals, copies, handles and versions that an opening
\* process carries from call to call what they should be.
LEMMA PreparedStep ==
  ASSUME ControlOK, DiskOK, PreparedOK, WorkInv, [Next]_vars
  PROVE  PreparedOK'
  <1> USE Names, BoundsAssumption DEF DiskOK, PreparedOK, vars, lockVars, diskVars, workVars,
      envVars, Goto, Refuse, Dropped, Released, Otherwise, OpenUnchanged, LockUnchanged
  <1>1. ASSUME NEW p \in Procs, OpenLock(p) PROVE PreparedOK'
    BY <1>1 DEF OpenLock
  <1>2. ASSUME NEW p \in Procs, TryLock(p) PROVE PreparedOK'
    BY <1>2 DEF TryLock, LockIsAt, LockFree
  <1>3. ASSUME NEW p \in Procs, Revalidate(p) PROVE PreparedOK'
    BY <1>3 DEF Revalidate, Revalidated, LockIsAt
  <1>4. ASSUME NEW p \in Procs, VerifyIntegrity(p) PROVE PreparedOK'
    BY <1>4 DEF VerifyIntegrity, LockIsAt
  <1>5. ASSUME NEW p \in Procs, Look(p) PROVE PreparedOK'
    BY <1>5 DEF Look
  <1>6. ASSUME NEW p \in Procs, Make(p) PROVE PreparedOK'
    <2>1. [ver |-> Latest, rows |-> 0, synced |-> FALSE] \in Copies
      BY DEF Copies, Versions
    <2> QED
      BY <1>6, <2>1 DEF Make
  <1>7. ASSUME NEW p \in Procs, SyncMade(p) PROVE PreparedOK'
    <2>1. temp[p] \in Copies
      BY <1>7 DEF SyncMade, WorkInv, Prepared
    <2>2. [temp[p] EXCEPT !.synced = TRUE] \in Copies
      BY <2>1, Syncing DEF SyncedAs
    <2> QED
      BY <1>7, <2>2 DEF SyncMade, ContentSynced
  <1>8. ASSUME NEW p \in Procs, Publish(p) PROVE PreparedOK'
    BY <1>8 DEF Publish, NameFree
  <1>9. ASSUME NEW p \in Procs, SyncName(p) PROVE PreparedOK'
    BY <1>9 DEF SyncName
  <1>10. ASSUME NEW p \in Procs, Reread(p) PROVE PreparedOK'
    BY <1>10 DEF Reread
  <1>11. ASSUME NEW p \in Procs, Enumerate(p) PROVE PreparedOK'
    BY <1>11 DEF Enumerate, FamilySafe, CleanCurrent
  <1>12. ASSUME NEW p \in Procs, CopyFamily(p) PROVE PreparedOK'
    <2>1. CASE db # None /\ db.ino = seal[p].ino
      <3>1. CopyOf(db) \in Copies /\ CopyOf(db) # None
        BY <2>1, Copying DEF DiskOK
      <3> QED
        BY <1>12, <2>1, <3>1 DEF CopyFamily
    <2> QED
      BY <1>12, <2>1 DEF CopyFamily
  <1>13. ASSUME NEW p \in Procs, CompareFamily(p) PROVE PreparedOK'
    BY <1>13 DEF CompareFamily
  <1>14. ASSUME NEW p \in Procs, RecoverStaged(p) PROVE PreparedOK'
    <2>1. temp[p] \in Copies
      BY <1>14 DEF RecoverStaged, WorkInv, Prepared
    <2>2. temp[p].ver \in Versions /\ [temp[p] EXCEPT !.synced = FALSE] \in Copies
      BY <2>1, Syncing DEF SyncedAs
    <2>3. temp[p].ver \in 0 .. Latest
      BY <2>2 DEF Versions
    <2> QED
      BY <1>14, <2>2, <2>3 DEF RecoverStaged, VersionOf
  <1>15. ASSUME NEW p \in Procs, SyncBackup(p) PROVE PreparedOK'
    <2>1. temp[p] \in Copies
      BY <1>15 DEF SyncBackup, WorkInv, Prepared
    <2>2. [temp[p] EXCEPT !.synced = TRUE] \in Copies
      BY <2>1, Syncing DEF SyncedAs
    <2> QED
      BY <1>15, <2>2 DEF SyncBackup, ContentSynced
  <1>16. ASSUME NEW p \in Procs, PublishBackup(p) PROVE PreparedOK'
    BY <1>16 DEF PublishBackup
  <1>17. ASSUME NEW p \in Procs, SyncBackupName(p) PROVE PreparedOK'
    BY <1>17 DEF SyncBackupName
  <1>18. ASSUME NEW p \in Procs, Unstage(p) PROVE PreparedOK'
    BY <1>18 DEF Unstage
  <1>19. ASSUME NEW p \in Procs, VerifySeal(p) PROVE PreparedOK'
    BY <1>19 DEF VerifySeal, LastLook, CleanCurrent
  <1>20. ASSUME NEW p \in Procs, OpenReadWrite(p) PROVE PreparedOK'
    BY <1>20, DbFields DEF OpenReadWrite, VersionAgrees, VersionOf, Expected, Versions
  <1>21. ASSUME NEW p \in Procs, BeginConfigure(p) PROVE PreparedOK'
    BY <1>21 DEF BeginConfigure, Bound
  <1>22. ASSUME NEW p \in Procs, EndConfigure(p) PROVE PreparedOK'
    BY <1>22, DbFields DEF EndConfigure, Bound, VersionOf, Versions
  <1>23. ASSUME NEW p \in Procs, ApplyMigration(p) PROVE PreparedOK'
    BY <1>23, DbFields DEF ApplyMigration, Bound
  <1>24. ASSUME NEW p \in Procs, Reconcile(p) PROVE PreparedOK'
    BY <1>24 DEF Reconcile, Bound, SchemaCurrent, VersionOf
  <1>25. ASSUME NEW p \in Procs, Close(p) PROVE PreparedOK'
    BY <1>25 DEF Close, Bound, LastHandle
  <1>26. ASSUME NEW p \in Procs, Closed(p) PROVE PreparedOK'
    BY <1>26 DEF Closed, Bound, LastHandle
  <1>27. ASSUME NEW p \in Procs, Reopen(p) PROVE PreparedOK'
    BY <1>27 DEF Reopen
  <1>28. ASSUME NEW p \in Procs, Write(p) PROVE PreparedOK'
    BY <1>28 DEF Write, Bound
  <1>29. ASSUME NEW p \in Procs, EndScan(p) PROVE PreparedOK'
    BY <1>29 DEF EndScan
  <1>30. ASSUME NEW p \in Procs, CallFails(p) PROVE PreparedOK'
    BY <1>30 DEF CallFails
  <1>31. ASSUME NEW p \in Procs, Kill(p) PROVE PreparedOK'
    BY <1>31 DEF Kill
  <1>32. CASE PowerLoss
    BY <1>32 DEF PowerLoss, Survives
  <1>33. CASE RemoveLock
    BY <1>33 DEF RemoveLock, Granted
  <1>34. CASE PutDatabase
    BY <1>34 DEF PutDatabase
  <1>35. CASE WriteOutside
    BY <1>35 DEF WriteOutside
  <1>36. CASE UNCHANGED vars
    BY <1>36
  <1> QED
    BY <1>1, <1>2, <1>3, <1>4, <1>5, <1>6, <1>7, <1>8, <1>9, <1>10, <1>11, <1>12, <1>13,
       <1>14, <1>15, <1>16, <1>17, <1>18, <1>19, <1>20, <1>21, <1>22, <1>23, <1>24, <1>25,
       <1>26, <1>27, <1>28, <1>29, <1>30, <1>31, <1>32, <1>33, <1>34, <1>35, <1>36
       DEF Next, Opening, Using, Environment

\* But for a power loss, a process that is preparing an existing family keeps
\* its seal, and its copy until the staging directory is removed; a new
\* database is made empty, at the latest version, and synced before it is
\* published.
LEMMA WorkMove ==
  ASSUME ControlOK, DiskOK, PreparedOK, WorkInv, NameInv, [Next]_vars, ~PowerLoss
  PROVE  WorkInv'
  <1> USE Names DEF WorkInv, Sealed, Prepared, ControlOK, PreparedOK, vars, lockVars,
      diskVars, workVars, envVars, Goto, Refuse, Dropped, Released, Otherwise, OpenUnchanged,
      LockUnchanged
  <1>0. db # None => db' # None
    BY DbForward
  <1>1. ASSUME NEW p \in Procs, OpenLock(p) PROVE WorkInv'
    BY <1>1, <1>0 DEF OpenLock
  <1>2. ASSUME NEW p \in Procs, TryLock(p) PROVE WorkInv'
    BY <1>2, <1>0 DEF TryLock, LockIsAt, LockFree
  <1>3. ASSUME NEW p \in Procs, Revalidate(p) PROVE WorkInv'
    BY <1>3, <1>0 DEF Revalidate, Revalidated, LockIsAt
  <1>4. ASSUME NEW p \in Procs, VerifyIntegrity(p) PROVE WorkInv'
    BY <1>4, <1>0 DEF VerifyIntegrity, LockIsAt
  <1>5. ASSUME NEW p \in Procs, Look(p) PROVE WorkInv'
    BY <1>5, <1>0 DEF Look
  <1>6. ASSUME NEW p \in Procs, Make(p) PROVE WorkInv'
    <2>1. LET c == [ver |-> Latest, rows |-> 0, synced |-> FALSE]
          IN c \in Copies /\ c.ver = Latest /\ c.rows = 0
      BY BoundsAssumption DEF Copies, Versions
    <2> QED
      BY <1>6, <1>0, <2>1 DEF Make
  <1>7. ASSUME NEW p \in Procs, SyncMade(p) PROVE WorkInv'
    <2> DEFINE c == SyncedAs(temp[p], TRUE)
    <2>1. temp[p] \in Copies
      BY <1>7 DEF SyncMade
    <2>2. c \in Copies /\ c # None /\ c.synced = TRUE /\ c.ver = temp[p].ver /\ c.rows = temp[p].rows
      BY <2>1, Syncing
    <2>3. temp' = [temp EXCEPT ![p] = c]
      BY <1>7 DEF SyncMade, ContentSynced, SyncedAs
    <2> HIDE DEF c
    <2> QED
      BY <1>7, <1>0, <2>2, <2>3 DEF SyncMade, NeedsBackup
  <1>8. ASSUME NEW p \in Procs, Publish(p) PROVE WorkInv'
    BY <1>8, <1>0 DEF Publish, NameFree
  <1>9. ASSUME NEW p \in Procs, SyncName(p) PROVE WorkInv'
    BY <1>9, <1>0 DEF SyncName
  <1>10. ASSUME NEW p \in Procs, Reread(p) PROVE WorkInv'
    BY <1>10, <1>0 DEF Reread
  <1>11. ASSUME NEW p \in Procs, Enumerate(p) PROVE WorkInv'
    BY <1>11, <1>0 DEF Enumerate, FamilySafe, CleanCurrent
  <1>12. ASSUME NEW p \in Procs, CopyFamily(p) PROVE WorkInv'
    <2>1. CASE db # None /\ db.ino = seal[p].ino
      <3>1. CopyOf(db) \in Copies /\ CopyOf(db) # None
        BY <2>1, Copying DEF DiskOK
      <3> QED
        BY <1>12, <1>0, <2>1, <3>1 DEF CopyFamily
    <2> QED
      BY <1>12, <1>0, <2>1 DEF CopyFamily
  <1>13. ASSUME NEW p \in Procs, CompareFamily(p) PROVE WorkInv'
    BY <1>13, <1>0 DEF CompareFamily
  <1>14. ASSUME NEW p \in Procs, RecoverStaged(p) PROVE WorkInv'
    <2> DEFINE c == SyncedAs(temp[p], FALSE)
    <2>1. temp[p] \in Copies
      BY <1>14 DEF RecoverStaged
    <2>2. c \in Copies /\ c # None /\ c.synced = FALSE /\ c.ver = temp[p].ver /\ c.rows = temp[p].rows
      BY <2>1, Syncing
    <2>3. temp' = [temp EXCEPT ![p] = c]
      BY <1>14 DEF RecoverStaged, ContentSynced, SyncedAs
    <2> HIDE DEF c
    <2> QED
      BY <1>14, <1>0, <2>2, <2>3 DEF RecoverStaged, NeedsBackup
  <1>15. ASSUME NEW p \in Procs, SyncBackup(p) PROVE WorkInv'
    <2> DEFINE c == SyncedAs(temp[p], TRUE)
    <2>1. temp[p] \in Copies
      BY <1>15 DEF SyncBackup
    <2>2. c \in Copies /\ c # None /\ c.synced = TRUE /\ c.ver = temp[p].ver /\ c.rows = temp[p].rows
      BY <2>1, Syncing
    <2>3. temp' = [temp EXCEPT ![p] = c]
      BY <1>15 DEF SyncBackup, ContentSynced, SyncedAs
    <2> HIDE DEF c
    <2> QED
      BY <1>15, <1>0, <2>2, <2>3 DEF SyncBackup, NeedsBackup
  <1>16. ASSUME NEW p \in Procs, PublishBackup(p) PROVE WorkInv'
    BY <1>16, <1>0 DEF PublishBackup
  <1>17. ASSUME NEW p \in Procs, SyncBackupName(p) PROVE WorkInv'
    BY <1>17, <1>0 DEF SyncBackupName
  <1>18. ASSUME NEW p \in Procs, Unstage(p) PROVE WorkInv'
    BY <1>18, <1>0 DEF Unstage
  <1>19. ASSUME NEW p \in Procs, VerifySeal(p) PROVE WorkInv'
    BY <1>19, <1>0 DEF VerifySeal, LastLook, CleanCurrent
  <1>20. ASSUME NEW p \in Procs, OpenReadWrite(p) PROVE WorkInv'
    BY <1>20, <1>0 DEF OpenReadWrite, VersionAgrees, VersionOf, Expected
  <1>21. ASSUME NEW p \in Procs, BeginConfigure(p) PROVE WorkInv'
    BY <1>21, <1>0 DEF BeginConfigure, Bound
  <1>22. ASSUME NEW p \in Procs, EndConfigure(p) PROVE WorkInv'
    BY <1>22, <1>0 DEF EndConfigure, Bound, VersionOf
  <1>23. ASSUME NEW p \in Procs, ApplyMigration(p) PROVE WorkInv'
    BY <1>23, <1>0 DEF ApplyMigration, Bound
  <1>24. ASSUME NEW p \in Procs, Reconcile(p) PROVE WorkInv'
    BY <1>24, <1>0 DEF Reconcile, Bound, SchemaCurrent, VersionOf
  <1>25. ASSUME NEW p \in Procs, Close(p) PROVE WorkInv'
    BY <1>25, <1>0 DEF Close, Bound, LastHandle
  <1>26. ASSUME NEW p \in Procs, Closed(p) PROVE WorkInv'
    BY <1>26, <1>0 DEF Closed, Bound, LastHandle
  <1>27. ASSUME NEW p \in Procs, Reopen(p) PROVE WorkInv'
    BY <1>27, <1>0 DEF Reopen
  <1>28. ASSUME NEW p \in Procs, Write(p) PROVE WorkInv'
    BY <1>28, <1>0 DEF Write, Bound
  <1>29. ASSUME NEW p \in Procs, EndScan(p) PROVE WorkInv'
    BY <1>29, <1>0 DEF EndScan
  <1>30. ASSUME NEW p \in Procs, CallFails(p) PROVE WorkInv'
    BY <1>30, <1>0 DEF CallFails
  <1>31. ASSUME NEW p \in Procs, Kill(p) PROVE WorkInv'
    BY <1>31, <1>0 DEF Kill
  <1>32. CASE RemoveLock
    BY <1>32, <1>0 DEF RemoveLock, Granted
  <1>33. CASE PutDatabase
    BY <1>33, <1>0 DEF PutDatabase
  <1>34. CASE WriteOutside
    BY <1>34, <1>0 DEF WriteOutside
  <1>35. CASE UNCHANGED vars
    BY <1>35
  <1> QED
    BY <1>1, <1>2, <1>3, <1>4, <1>5, <1>6, <1>7, <1>8, <1>9, <1>10, <1>11, <1>12, <1>13,
       <1>14, <1>15, <1>16, <1>17, <1>18, <1>19, <1>20, <1>21, <1>22, <1>23, <1>24, <1>25,
       <1>26, <1>27, <1>28, <1>29, <1>30, <1>31, <1>32, <1>33, <1>34, <1>35
       DEF Next, Opening, Using, Environment

\* The work in hand stays consistent: of the work of the processes nothing
\* outlives a power loss.
LEMMA WorkStep ==
  ASSUME ControlOK, DiskOK, PreparedOK, WorkInv, NameInv, [Next]_vars
  PROVE  WorkInv'
  <1>1. CASE PowerLoss
    BY <1>1 DEF PowerLoss, WorkInv, Sealed, Prepared
  <1> QED
    BY <1>1, WorkMove

\* An upgrade is begun only on a database that is there and is not of the
\* latest version, and rows are never taken back from the count of writes.
LEMMA UpgradeStep ==
  ASSUME ControlOK, [Next]_vars
  PROVE  UpgradeMove
  <1> USE DEF ControlOK, UpgradeMove, vars, lockVars, diskVars, workVars, envVars, Goto, Refuse, Dropped,
      Released, Otherwise, OpenUnchanged, LockUnchanged
  <1>1. ASSUME NEW p \in Procs, OpenLock(p) PROVE UpgradeMove
    BY <1>1 DEF OpenLock
  <1>2. ASSUME NEW p \in Procs, TryLock(p) PROVE UpgradeMove
    BY <1>2 DEF TryLock, LockIsAt, LockFree
  <1>3. ASSUME NEW p \in Procs, Revalidate(p) PROVE UpgradeMove
    BY <1>3 DEF Revalidate, Revalidated, LockIsAt
  <1>4. ASSUME NEW p \in Procs, VerifyIntegrity(p) PROVE UpgradeMove
    BY <1>4 DEF VerifyIntegrity, LockIsAt
  <1>5. ASSUME NEW p \in Procs, Look(p) PROVE UpgradeMove
    BY <1>5 DEF Look
  <1>6. ASSUME NEW p \in Procs, Make(p) PROVE UpgradeMove
    BY <1>6 DEF Make
  <1>7. ASSUME NEW p \in Procs, SyncMade(p) PROVE UpgradeMove
    BY <1>7 DEF SyncMade, ContentSynced
  <1>8. ASSUME NEW p \in Procs, Publish(p) PROVE UpgradeMove
    BY <1>8 DEF Publish, NameFree
  <1>9. ASSUME NEW p \in Procs, SyncName(p) PROVE UpgradeMove
    BY <1>9 DEF SyncName
  <1>10. ASSUME NEW p \in Procs, Reread(p) PROVE UpgradeMove
    BY <1>10 DEF Reread
  <1>11. ASSUME NEW p \in Procs, Enumerate(p) PROVE UpgradeMove
    BY <1>11 DEF Enumerate, FamilySafe, CleanCurrent
  <1>12. ASSUME NEW p \in Procs, CopyFamily(p) PROVE UpgradeMove
    BY <1>12 DEF CopyFamily
  <1>13. ASSUME NEW p \in Procs, CompareFamily(p) PROVE UpgradeMove
    BY <1>13 DEF CompareFamily
  <1>14. ASSUME NEW p \in Procs, RecoverStaged(p) PROVE UpgradeMove
    BY <1>14 DEF RecoverStaged, VersionOf, NeedsBackup
  <1>15. ASSUME NEW p \in Procs, SyncBackup(p) PROVE UpgradeMove
    BY <1>15 DEF SyncBackup, ContentSynced
  <1>16. ASSUME NEW p \in Procs, PublishBackup(p) PROVE UpgradeMove
    BY <1>16 DEF PublishBackup
  <1>17. ASSUME NEW p \in Procs, SyncBackupName(p) PROVE UpgradeMove
    BY <1>17 DEF SyncBackupName
  <1>18. ASSUME NEW p \in Procs, Unstage(p) PROVE UpgradeMove
    BY <1>18 DEF Unstage
  <1>19. ASSUME NEW p \in Procs, VerifySeal(p) PROVE UpgradeMove
    BY <1>19 DEF VerifySeal, LastLook, CleanCurrent
  <1>20. ASSUME NEW p \in Procs, OpenReadWrite(p) PROVE UpgradeMove
    BY <1>20 DEF OpenReadWrite, VersionAgrees, VersionOf, Expected
  <1>21. ASSUME NEW p \in Procs, BeginConfigure(p) PROVE UpgradeMove
    BY <1>21 DEF BeginConfigure, Bound
  <1>22. ASSUME NEW p \in Procs, EndConfigure(p) PROVE UpgradeMove
    BY <1>22 DEF EndConfigure, Bound, VersionOf
  <1>23. ASSUME NEW p \in Procs, ApplyMigration(p) PROVE UpgradeMove
    BY <1>23 DEF ApplyMigration, Bound
  <1>24. ASSUME NEW p \in Procs, Reconcile(p) PROVE UpgradeMove
    BY <1>24 DEF Reconcile, Bound, SchemaCurrent, VersionOf
  <1>25. ASSUME NEW p \in Procs, Close(p) PROVE UpgradeMove
    BY <1>25 DEF Close, Bound, LastHandle
  <1>26. ASSUME NEW p \in Procs, Closed(p) PROVE UpgradeMove
    BY <1>26 DEF Closed, Bound, LastHandle
  <1>27. ASSUME NEW p \in Procs, Reopen(p) PROVE UpgradeMove
    BY <1>27 DEF Reopen
  <1>28. ASSUME NEW p \in Procs, Write(p) PROVE UpgradeMove
    BY <1>28 DEF Write, Bound
  <1>29. ASSUME NEW p \in Procs, EndScan(p) PROVE UpgradeMove
    BY <1>29 DEF EndScan
  <1>30. ASSUME NEW p \in Procs, CallFails(p) PROVE UpgradeMove
    BY <1>30 DEF CallFails
  <1>31. ASSUME NEW p \in Procs, Kill(p) PROVE UpgradeMove
    BY <1>31 DEF Kill
  <1>32. CASE PowerLoss
    BY <1>32 DEF PowerLoss, Survives
  <1>33. CASE RemoveLock
    BY <1>33 DEF RemoveLock, Granted
  <1>34. CASE PutDatabase
    BY <1>34 DEF PutDatabase
  <1>35. CASE WriteOutside
    BY <1>35 DEF WriteOutside
  <1>36. CASE UNCHANGED vars
    BY <1>36
  <1> QED
    BY <1>1, <1>2, <1>3, <1>4, <1>5, <1>6, <1>7, <1>8, <1>9, <1>10, <1>11, <1>12, <1>13,
       <1>14, <1>15, <1>16, <1>17, <1>18, <1>19, <1>20, <1>21, <1>22, <1>23, <1>24, <1>25,
       <1>26, <1>27, <1>28, <1>29, <1>30, <1>31, <1>32, <1>33, <1>34, <1>35, <1>36
       DEF Next, Opening, Using, Environment

\* What stands at the database's name stays whole, and a name that does not
\* last yet is that of an empty database at the latest version which nobody has
\* upgraded.
LEMMA NameStep ==
  ASSUME ControlOK, DiskOK, WorkInv, NameInv, [Next]_vars
  PROVE  NameInv'
  <1> USE Names DEF NameInv
  <1>1. CASE PowerLoss
    BY <1>1 DEF PowerLoss, Survives, DiskOK, envVars
  <1>2. CASE db' = db
    <2>1. db # None => db.rows \in Nat
      BY DbFields DEF DiskOK
    <2> QED
      BY <1>2, <2>1, UpgradeStep, ControlStep DEF UpgradeMove, ControlOK
  <1>3. CASE Advanced
    BY <1>3, UpgradeStep DEF Advanced, UpgradeMove, SameContent
  <1>4. CASE Created
    BY <1>4, ControlStep DEF Created, ControlOK
  <1>5. CASE Put
    BY <1>5 DEF Put
  <1> QED
    BY <1>1, <1>2, <1>3, <1>4, <1>5, DbStep DEF DbMove

-----------------------------------------------------------------------------
(* The backups. *)

\* Other processes leave the work of q alone; a call that ends lets it go.
Unmoved(q) ==
  /\ pc'[q] = pc[q] /\ seal'[q] = seal[q] /\ temp'[q] = temp[q]
  /\ at'[q] = at[q] /\ seen'[q] = seen[q]
Parted(q) == seal'[q] = None /\ pc'[q] \notin Sealed

\* Two looks at the family see the same content when they see the same identity
\* (SourceSeal compares the files' identities and digests).
LEMMA SealTells ==
  ASSUME NEW d \in Databases, NEW e \in Databases, Identity(d) = Identity(e)
  PROVE  SameContent(d, e)
  <1>1. Same(d, Committed(d)) /\ Same(e, Committed(e))
    BY Committing
  <1> QED
    BY <1>1 DEF Identity, Same, SameContent

\* A process that refuses gives up its seal and its work and leaves those of
\* every other process alone.
LEMMA Refusing ==
  ASSUME ControlOK, PreparedOK, NEW p \in Procs, NEW q \in Procs, Refuse(p)
  PROVE  IF p = q THEN Parted(q) ELSE Unmoved(q)
  BY DEF ControlOK, PreparedOK, Refuse, Dropped, Goto, Released, Parted, Unmoved, Sealed

\* A backup is there until a power loss, and after it too once its name lasts.
LEMMA BackupLasts ==
  ASSUME DiskOK, [Next]_vars, NEW d, NEW named \in BOOLEAN, Backup(backups, d, named),
         named \/ ~PowerLoss
  PROVE  Backup(backups', d, named)
  <1>1. CASE PowerLoss
    BY <1>1 DEF PowerLoss, Survives, Backup
  <1>2. CASE backups \subseteq backups'
    BY <1>2 DEF Backup
  <1>3. CASE backups' = NamesSynced(backups)
    <2>1. PICK b \in backups : SameContent(b, d) /\ b.whole
      BY DEF Backup
    <2>2. PICK c \in backups' : SameContent(c, b) /\ c.whole = b.whole /\ c.named
      BY <1>3, Naming DEF DiskOK
    <2> QED
      BY <2>1, <2>2 DEF Backup, SameContent
  <1> QED
    BY <1>1, <1>2, <1>3, BackupsMove

\* But for a power loss, each step of the preparation passes on what the next
\* relies on: the copy is of what was sealed, the version read is the copy's,
\* the backup is of the copy, its name lasts before the seal is looked at again
\* (stage_unix_source_family, create_verified_backup,
\* verify_before_read_write).
LEMMA BackMove ==
  ASSUME ControlOK, DiskOK, PreparedOK, WorkInv, NameInv,
         NEW q \in Procs, BackOf(q), [Next]_vars, ~PowerLoss
  PROVE  Unmoved(q) \/ Parted(q) \/ BackOf(q)'
  <1> USE DEF Unmoved, vars, lockVars, diskVars, workVars, envVars, Goto, Otherwise,
      OpenUnchanged, LockUnchanged
  <1>1. ASSUME NEW p \in Procs, OpenLock(p) PROVE Unmoved(q) \/ Parted(q) \/ BackOf(q)'
    BY <1>1, Refusing DEF OpenLock, WorkInv, Unmoved, Parted, Sealed, ControlOK, PreparedOK
  <1>2. ASSUME NEW p \in Procs, TryLock(p) PROVE Unmoved(q) \/ Parted(q) \/ BackOf(q)'
    BY <1>2, Refusing DEF TryLock, LockIsAt, LockFree, WorkInv, Unmoved, Parted, Sealed,
       ControlOK, PreparedOK
  <1>3. ASSUME NEW p \in Procs, Revalidate(p) PROVE Unmoved(q) \/ Parted(q) \/ BackOf(q)'
    BY <1>3, Refusing DEF Revalidate, Revalidated, LockIsAt, WorkInv, Unmoved, Parted,
       Sealed, ControlOK, PreparedOK
  <1>4. ASSUME NEW p \in Procs, VerifyIntegrity(p) PROVE Unmoved(q) \/ Parted(q) \/ BackOf(q)'
    BY <1>4, Refusing DEF VerifyIntegrity, LockIsAt, WorkInv, Unmoved, Parted, Sealed,
       ControlOK, PreparedOK
  <1>5. ASSUME NEW p \in Procs, Look(p) PROVE Unmoved(q) \/ Parted(q) \/ BackOf(q)'
    BY <1>5, Refusing DEF Look, WorkInv, Unmoved, Parted, Sealed, ControlOK, PreparedOK
  <1>6. ASSUME NEW p \in Procs, Make(p) PROVE Unmoved(q) \/ Parted(q) \/ BackOf(q)'
    BY <1>6, Refusing DEF Make, WorkInv, Unmoved, Parted, Sealed, ControlOK, PreparedOK
  <1>7. ASSUME NEW p \in Procs, SyncMade(p) PROVE Unmoved(q) \/ Parted(q) \/ BackOf(q)'
    BY <1>7, Refusing DEF SyncMade, ContentSynced, WorkInv, Unmoved, Parted, Sealed,
       ControlOK, PreparedOK
  <1>8. ASSUME NEW p \in Procs, Publish(p) PROVE Unmoved(q) \/ Parted(q) \/ BackOf(q)'
    BY <1>8, Refusing DEF Publish, NameFree, WorkInv, Unmoved, Parted, Sealed, ControlOK,
       PreparedOK
  <1>9. ASSUME NEW p \in Procs, SyncName(p) PROVE Unmoved(q) \/ Parted(q) \/ BackOf(q)'
    BY <1>9, Refusing DEF SyncName, WorkInv, Unmoved, Parted, Sealed, ControlOK, PreparedOK
  <1>10. ASSUME NEW p \in Procs, Reread(p) PROVE Unmoved(q) \/ Parted(q) \/ BackOf(q)'
    BY <1>10, Refusing DEF Reread, WorkInv, Unmoved, Parted, Sealed, ControlOK, PreparedOK
  <1>11. ASSUME NEW p \in Procs, Enumerate(p) PROVE Unmoved(q) \/ Parted(q) \/ BackOf(q)'
    <2>1. CASE p # q
      BY <1>11, <2>1, Refusing DEF Enumerate, ContentSynced, Unmoved, PreparedOK, ControlOK
    <2>2. CASE p = q
      <3>1. CASE db # None /\ FamilySafe(db)
        <4>1. db \in Databases /\ db' = db /\ seal'[q] = db /\ Before(db, db)
          BY <1>11, <2>2, <3>1, DbFields DEF Enumerate, Before, PreparedOK, ControlOK, DiskOK
        <4>2. pc'[q] = "copy" \/ (pc'[q] = "verify" /\ CleanCurrent(db))
          BY <1>11, <2>2, <3>1 DEF Enumerate, PreparedOK, ControlOK, DiskOK
        <4> QED
          BY <4>1, <4>2 DEF BackOf, CleanCurrent
      <3>2. CASE ~(db # None /\ FamilySafe(db))
        BY <1>11, <2>2, <3>2, Refusing DEF Enumerate, LastLook
      <3> QED
        BY <3>1, <3>2
    <2> QED
      BY <2>1, <2>2
  <1>12. ASSUME NEW p \in Procs, CopyFamily(p) PROVE Unmoved(q) \/ Parted(q) \/ BackOf(q)'
    <2>1. CASE p # q
      BY <1>12, <2>1, Refusing DEF CopyFamily, ContentSynced, Unmoved, PreparedOK, ControlOK
    <2>2. CASE p = q
      <3>1. CASE db # None /\ db.ino = seal[p].ino
        <4>1. /\ db \in Databases /\ db' = db /\ seal'[q] = seal[q] /\ temp'[q] = CopyOf(db)
              /\ pc'[q] = "compare"
          BY <1>12, <2>2, <3>1 DEF CopyFamily, PreparedOK, ControlOK, DiskOK
        <4>2. seal[q] # None
          BY <1>12, <2>2 DEF CopyFamily, WorkInv, Sealed
        <4>3. CopyOf(db).ver = db.ver /\ CopyOf(db).rows = db.rows /\ db.ver \in Nat /\ db.rows \in Nat
          BY <4>1, Copying, DbFields
        <4> QED
          BY <4>1, <4>2, <4>3 DEF BackOf, Before
      <3>2. CASE ~(db # None /\ db.ino = seal[p].ino)
        BY <1>12, <2>2, <3>2, Refusing DEF CopyFamily, LastLook
      <3> QED
        BY <3>1, <3>2
    <2> QED
      BY <2>1, <2>2
  <1>13. ASSUME NEW p \in Procs, CompareFamily(p) PROVE Unmoved(q) \/ Parted(q) \/ BackOf(q)'
    <2>1. CASE p # q
      BY <1>13, <2>1, Refusing DEF CompareFamily, ContentSynced, Unmoved, PreparedOK, ControlOK
    <2>2. CASE p = q
      <3>1. CASE SealHolds(p)
        <4>1. /\ db' = db /\ seal'[q] = seal[q] /\ temp'[q] = temp[q]
              /\ pc[q] = "compare" /\ pc'[q] = "recover"
          BY <1>13, <2>2, <3>1 DEF CompareFamily, PreparedOK, ControlOK, DiskOK
        <4>2. db \in Databases /\ seal[q] \in Databases /\ temp[q] \in Copies
          BY <2>2, <3>1, <4>1 DEF SealHolds, WorkInv, Sealed, Prepared, PreparedOK, DiskOK
        <4>3. SameContent(db, seal[q])
          BY <2>2, <3>1, <4>2, SealTells DEF SealHolds
        <4>4. Before(seal[q], temp[q]) /\ Before(temp[q], db) /\ Before(seal[q], db)
          BY <4>1, <4>2, Names DEF BackOf
        <4>5. /\ seal[q].rows \in Nat /\ seal[q].ver \in Nat /\ temp[q].rows \in Nat /\ temp[q].ver \in Nat
          BY <4>2, DbFields, CopyFields
        <4>6. SameContent(temp[q], seal[q])
          BY <4>3, <4>4, <4>5 DEF Before, SameContent
        <4> QED
          BY <4>1, <4>4, <4>6 DEF BackOf
      <3>2. CASE ~(SealHolds(p))
        BY <1>13, <2>2, <3>2, Refusing DEF CompareFamily, LastLook
      <3> QED
        BY <3>1, <3>2
    <2> QED
      BY <2>1, <2>2
  <1>14. ASSUME NEW p \in Procs, RecoverStaged(p) PROVE Unmoved(q) \/ Parted(q) \/ BackOf(q)'
    <2>1. CASE p # q
      BY <1>14, <2>1, Refusing DEF RecoverStaged, ContentSynced, Unmoved, PreparedOK, ControlOK
    <2>2. CASE p = q
      <3> DEFINE c == SyncedAs(temp[q], FALSE)
      <3>1. /\ temp[q] \in Copies /\ temp' = [temp EXCEPT ![q] = c]
            /\ db' = db /\ seal' = seal
        BY <1>14, <2>2 DEF RecoverStaged, ContentSynced, SyncedAs, WorkInv, Prepared, PreparedOK, ControlOK, DiskOK
      <3>2. c.ver = temp[q].ver /\ c.rows = temp[q].rows /\ c.synced = FALSE /\ temp[q].ver \in Nat
        BY <3>1, Syncing, CopyFields
      <3>3. temp'[q] = c
        BY <3>1 DEF PreparedOK
      <3> HIDE DEF c
      <3>4. pc[q] = "recover" /\ SameContent(temp[q], seal[q]) /\ seal[q] \in Databases
        BY <1>14, <2>2 DEF RecoverStaged, BackOf, WorkInv, Sealed, PreparedOK
      <3>5. /\ pc'[q] = (IF temp[q].ver < Latest THEN "back" ELSE "unstage") /\ at'[q] = temp[q].ver
        BY <1>14, <2>2 DEF RecoverStaged, NeedsBackup, VersionOf, PreparedOK, ControlOK, DiskOK
      <3>6. seal[q].ver \in Nat /\ seal[q].ver <= Latest
        BY <3>4, DbFields
      <3>7. temp[q].ver = seal[q].ver /\ SameContent(temp'[q], seal'[q]) /\ at'[q] = seal'[q].ver
        BY <3>1, <3>2, <3>3, <3>4, <3>5 DEF SameContent
      <3>8. pc'[q] = "back" \/ (pc'[q] = "unstage" /\ seal'[q].ver = Latest)
        BY <3>1, <3>5, <3>6, <3>7, BoundsAssumption
      <3> QED
        BY <3>1, <3>7, <3>8 DEF BackOf
    <2> QED
      BY <2>1, <2>2
  <1>15. ASSUME NEW p \in Procs, SyncBackup(p) PROVE Unmoved(q) \/ Parted(q) \/ BackOf(q)'
    <2>1. CASE p # q
      BY <1>15, <2>1, Refusing DEF SyncBackup, ContentSynced, Unmoved, PreparedOK, ControlOK
    <2>2. CASE p = q
      <3> DEFINE c == SyncedAs(temp[q], TRUE)
      <3>1. /\ temp[q] \in Copies /\ temp' = [temp EXCEPT ![q] = c]
            /\ db' = db /\ seal' = seal
        BY <1>15, <2>2 DEF SyncBackup, ContentSynced, SyncedAs, WorkInv, Prepared, PreparedOK, ControlOK, DiskOK
      <3>2. c.ver = temp[q].ver /\ c.rows = temp[q].rows /\ c.synced = TRUE /\ temp[q].ver \in Nat
        BY <3>1, Syncing, CopyFields
      <3>3. temp'[q] = c
        BY <3>1 DEF PreparedOK
      <3> HIDE DEF c
      <3>4. pc[q] = "back" /\ pc'[q] = "backup" /\ at' = at
        BY <1>15, <2>2 DEF SyncBackup, PreparedOK, ControlOK, DiskOK
      <3> QED
        BY <3>1, <3>2, <3>3, <3>4 DEF BackOf, SameContent
    <2> QED
      BY <2>1, <2>2
  <1>16. ASSUME NEW p \in Procs, PublishBackup(p) PROVE Unmoved(q) \/ Parted(q) \/ BackOf(q)'
    <2>1. CASE p # q
      BY <1>16, <2>1, Refusing DEF PublishBackup, ContentSynced, Unmoved, PreparedOK, ControlOK
    <2>2. CASE p = q
      <3> DEFINE b == [ver |-> temp[q].ver, rows |-> temp[q].rows, whole |-> temp[q].synced, named |-> FALSE]
      <3>1. /\ b \in backups' /\ pc[q] = "backup" /\ pc'[q] = "backedUp"
            /\ db' = db /\ seal' = seal /\ at' = at
        BY <1>16, <2>2 DEF PublishBackup, PreparedOK, ControlOK, DiskOK
      <3>2. b.ver = seal[q].ver /\ b.rows = seal[q].rows /\ b.whole
        BY <3>1 DEF BackOf, SameContent
      <3>3. Backup(backups', seal[q], FALSE)
        BY <3>1, <3>2 DEF Backup, SameContent
      <3> QED
        BY <3>1, <3>3 DEF BackOf
    <2> QED
      BY <2>1, <2>2
  <1>17. ASSUME NEW p \in Procs, SyncBackupName(p) PROVE Unmoved(q) \/ Parted(q) \/ BackOf(q)'
    <2>1. CASE p # q
      BY <1>17, <2>1, Refusing DEF SyncBackupName, ContentSynced, Unmoved, PreparedOK, ControlOK
    <2>2. CASE p = q
      <3>1. /\ pc[q] = "backedUp" /\ pc'[q] = "unstage" /\ seal' = seal /\ at' = at
            /\ backups' = NamesSynced(backups) /\ Backup(backups, seal[q], FALSE)
        BY <1>17, <2>2 DEF SyncBackupName, BackOf, PreparedOK, ControlOK, DiskOK
      <3>2. PICK b \in backups : SameContent(b, seal[q]) /\ b.whole
        BY <3>1 DEF Backup
      <3>3. PICK c \in backups' : SameContent(c, b) /\ c.whole = b.whole /\ c.named
        BY <3>1, Naming DEF DiskOK
      <3>4. Backup(backups', seal[q], TRUE)
        BY <3>2, <3>3 DEF Backup, SameContent
      <3>5. seal[q] # None /\ db \in Databases /\ db' = Committed(db)
        BY <1>17, <2>2 DEF SyncBackupName, WorkInv, Sealed, PreparedOK, ControlOK, DiskOK
      <3>6. db'.ver = db.ver /\ db'.rows = db.rows
        BY <3>5, Committing DEF Same, SameContent
      <3> QED
        BY <3>1, <3>4, <3>5, <3>6 DEF BackOf, Before
    <2> QED
      BY <2>1, <2>2
  <1>18. ASSUME NEW p \in Procs, Unstage(p) PROVE Unmoved(q) \/ Parted(q) \/ BackOf(q)'
    <2>1. CASE p # q
      BY <1>18, <2>1, Refusing DEF Unstage, ContentSynced, Unmoved, PreparedOK, ControlOK
    <2>2. CASE p = q
      <3>1. CASE SealHolds(p)
        <4>1. /\ pc[q] = "unstage" /\ pc'[q] = "verify" /\ seal' = seal /\ at' = at
              /\ db' = db /\ backups' = backups
          BY <1>18, <2>2, <3>1 DEF Unstage, PreparedOK, ControlOK, DiskOK
        <4> QED
          BY <4>1 DEF BackOf
      <3>2. CASE ~(SealHolds(p))
        BY <1>18, <2>2, <3>2, Refusing DEF Unstage, LastLook
      <3> QED
        BY <3>1, <3>2
    <2> QED
      BY <2>1, <2>2
  <1>19. ASSUME NEW p \in Procs, VerifySeal(p) PROVE Unmoved(q) \/ Parted(q) \/ BackOf(q)'
    <2>1. CASE p # q
      BY <1>19, <2>1, Refusing DEF VerifySeal, ContentSynced, Unmoved, PreparedOK, ControlOK
    <2>2. CASE p = q
      <3>1. CASE SealHolds(p)
        <4>1. /\ pc[q] = "verify" /\ pc'[q] = "open" /\ seal' = seal /\ seen'[q] = db
              /\ db' = db /\ backups' = backups
              /\ at'[q] = (IF CleanCurrent(seal[q]) THEN Latest ELSE at[q])
          BY <1>19, <2>2, <3>1 DEF VerifySeal, LastLook, PreparedOK, ControlOK, DiskOK
        <4>2. db \in Databases /\ seal[q] \in Databases
          BY <2>2, <3>1, <4>1 DEF SealHolds, WorkInv, Sealed, PreparedOK, DiskOK
        <4>3. SameContent(db, seal[q])
          BY <2>2, <3>1, <4>2, SealTells DEF SealHolds
        <4> QED
          BY <4>1, <4>2, <4>3, Names DEF BackOf, CleanCurrent, SameContent
      <3>2. CASE ~(SealHolds(p))
        BY <1>19, <2>2, <3>2, Refusing DEF VerifySeal, LastLook
      <3> QED
        BY <3>1, <3>2
    <2> QED
      BY <2>1, <2>2
  <1>20. ASSUME NEW p \in Procs, OpenReadWrite(p) PROVE Unmoved(q) \/ Parted(q) \/ BackOf(q)'
    BY <1>20, Refusing DEF OpenReadWrite, VersionAgrees, VersionOf, Expected, WorkInv,
       Unmoved, Parted, Sealed, ControlOK, PreparedOK
  <1>21. ASSUME NEW p \in Procs, BeginConfigure(p) PROVE Unmoved(q) \/ Parted(q) \/ BackOf(q)'
    BY <1>21, Refusing DEF BeginConfigure, Bound, WorkInv, Unmoved, Parted, Sealed,
       ControlOK, PreparedOK
  <1>22. ASSUME NEW p \in Procs, EndConfigure(p) PROVE Unmoved(q) \/ Parted(q) \/ BackOf(q)'
    BY <1>22, Refusing DEF EndConfigure, Bound, VersionOf, WorkInv, Unmoved, Parted, Sealed,
       ControlOK, PreparedOK
  <1>23. ASSUME NEW p \in Procs, ApplyMigration(p) PROVE Unmoved(q) \/ Parted(q) \/ BackOf(q)'
    BY <1>23, Refusing DEF ApplyMigration, Bound, WorkInv, Unmoved, Parted, Sealed,
       ControlOK, PreparedOK
  <1>24. ASSUME NEW p \in Procs, Reconcile(p) PROVE Unmoved(q) \/ Parted(q) \/ BackOf(q)'
    BY <1>24, Refusing DEF Reconcile, Bound, SchemaCurrent, VersionOf, WorkInv, Unmoved,
       Parted, Sealed, ControlOK, PreparedOK
  <1>25. ASSUME NEW p \in Procs, Close(p) PROVE Unmoved(q) \/ Parted(q) \/ BackOf(q)'
    BY <1>25, Refusing DEF Close, Bound, LastHandle, WorkInv, Unmoved, Parted, Sealed,
       ControlOK, PreparedOK
  <1>26. ASSUME NEW p \in Procs, Closed(p) PROVE Unmoved(q) \/ Parted(q) \/ BackOf(q)'
    BY <1>26, Refusing DEF Closed, Bound, LastHandle, Dropped, Unmoved, Parted, Sealed,
       ControlOK, PreparedOK
  <1>27. ASSUME NEW p \in Procs, Reopen(p) PROVE Unmoved(q) \/ Parted(q) \/ BackOf(q)'
    BY <1>27, Refusing DEF Reopen, WorkInv, Unmoved, Parted, Sealed, ControlOK, PreparedOK
  <1>28. ASSUME NEW p \in Procs, Write(p) PROVE Unmoved(q) \/ Parted(q) \/ BackOf(q)'
    BY <1>28, Refusing DEF Write, Bound, WorkInv, Unmoved, Parted, Sealed, ControlOK,
       PreparedOK
  <1>29. ASSUME NEW p \in Procs, EndScan(p) PROVE Unmoved(q) \/ Parted(q) \/ BackOf(q)'
    BY <1>29, Refusing DEF EndScan, WorkInv, Unmoved, Parted, Sealed, ControlOK, PreparedOK
  <1>30. ASSUME NEW p \in Procs, CallFails(p) PROVE Unmoved(q) \/ Parted(q) \/ BackOf(q)'
    BY <1>30, Refusing DEF CallFails
  <1>31. ASSUME NEW p \in Procs, Kill(p) PROVE Unmoved(q) \/ Parted(q) \/ BackOf(q)'
    BY <1>31, Refusing DEF Kill, Dropped, Unmoved, Parted, Sealed, ControlOK, PreparedOK
  <1>32. CASE RemoveLock
    BY <1>32, Refusing DEF RemoveLock, Granted, WorkInv, Unmoved, Parted, Sealed, ControlOK,
       PreparedOK
  <1>33. CASE PutDatabase
    BY <1>33 DEF PutDatabase, Unmoved
  <1>34. CASE WriteOutside
    BY <1>34 DEF WriteOutside, Unmoved
  <1>35. CASE UNCHANGED vars
    BY <1>35
  <1> QED
    BY <1>1, <1>2, <1>3, <1>4, <1>5, <1>6, <1>7, <1>8, <1>9, <1>10, <1>11, <1>12, <1>13,
       <1>14, <1>15, <1>16, <1>17, <1>18, <1>19, <1>20, <1>21, <1>22, <1>23, <1>24, <1>25,
       <1>26, <1>27, <1>28, <1>29, <1>30, <1>31, <1>32, <1>33, <1>34, <1>35
       DEF Next, Opening, Using, Environment

\* What was sealed and backed up by one process stays so while others work on
\* the store, crash or lose power.
LEMMA BackStep ==
  ASSUME ControlOK, DiskOK, PreparedOK, WorkInv, NameInv, [Next]_vars,
         NEW q \in Procs, BackOf(q)
  PROVE  BackOf(q)'
  <1>1. CASE PowerLoss
    BY <1>1 DEF PowerLoss, BackOf
  <1>2. CASE Parted(q)
    <2>1. seal'[q] = None /\ pc'[q] \notin Sealed
      BY <1>2 DEF Parted
    <2> QED
      BY <2>1 DEF BackOf, Sealed
  <1>3. CASE Unmoved(q) /\ ~PowerLoss
    <2>1. ASSUME seal[q] # None, NEW x, x.rows \in Nat, x.ver \in Nat, Before(x, db)
          PROVE  Before(x, db')
      <3>1. db' # None /\ db' \in Databases /\ Before(db, db') /\ db \in Databases
        BY <1>3, <2>1, DbForward DEF WorkInv, DiskOK
      <3> QED
        BY <2>1, <3>1, DbFields DEF Before
    <2>2. seal[q] # None => Before(seal[q], db')
      <3>1. seal[q] # None => seal[q] \in Databases
        BY DEF PreparedOK
      <3> QED
        BY <2>1, <3>1, DbFields DEF BackOf
    <2>3. pc[q] = "compare" => Before(temp[q], db')
      <3>1. pc[q] = "compare" => temp[q] \in Copies /\ seal[q] # None
        BY DEF WorkInv, Sealed, Prepared, PreparedOK
      <3> QED
        BY <2>1, <3>1, CopyFields DEF BackOf
    <2>4. \A n \in BOOLEAN : Backup(backups, seal[q], n) => Backup(backups', seal[q], n)
      BY <1>3, BackupLasts
    <2> QED
      BY <1>3, <2>2, <2>3, <2>4 DEF BackOf, Unmoved
  <1> QED
    BY <1>1, <1>2, <1>3, BackMove

\* What an open adds to the upgrades was sealed, backed up and looked at again;
\* what was there before keeps its backup.
LEMMA BackedUpStep ==
  ASSUME DiskOK, PreparedOK, WorkInv, BackInv, [Next]_vars
  PROVE  BackedUp'
  <1>1. SUFFICES ASSUME NEW u \in opened', u.sealed
                 PROVE  \E b \in backups' : /\ b.ver = u.ver /\ b.whole /\ b.named
                                            /\ u.asSeen => b.rows = u.rows
    BY DEF BackedUp
  <1>2. CASE u \in opened
    <2>1. PICK b \in backups : /\ b.ver = u.ver /\ b.whole /\ b.named
                               /\ u.asSeen => b.rows = u.rows
      BY <1>1, <1>2 DEF BackInv, BackedUp
    <2>2. SameContent(b, b)
      BY DEF SameContent
    <2>3. Backup(backups, b, TRUE)
      BY <2>1, <2>2 DEF Backup
    <2>4. Backup(backups', b, TRUE)
      BY <2>3, BackupLasts
    <2>5. PICK c \in backups' : SameContent(c, b) /\ c.whole /\ c.named
      BY <2>4 DEF Backup
    <2> QED
      BY <2>1, <2>5 DEF SameContent
  <1>3. CASE u \notin opened
    <2>1. PICK p \in Procs : OpenReadWrite(p)
      BY <1>1, <1>3, OpenedMove
    <2>2. /\ db # None /\ VersionAgrees(p) /\ db.ver # Latest /\ pc[p] = "open"
          /\ u = [ver |-> db.ver, rows |-> db.rows, sealed |-> seal[p] # None,
                  asSeen |-> Identity(db) = Identity(seen[p])]
          /\ backups' = backups
      BY <1>1, <1>3, <2>1 DEF OpenReadWrite, Otherwise, diskVars
    <2>3. seal[p] # None /\ u.ver = db.ver /\ u.rows = db.rows
      BY <1>1, <2>2
    <2>4. BackOf(p)
      BY DEF BackInv
    <2>5. db.ver = seal[p].ver /\ Backup(backups, seal[p], TRUE) /\ seen[p] # None
          /\ seen[p].rows = seal[p].rows
      BY <2>2, <2>3, <2>4 DEF VersionAgrees, VersionOf, Expected, BackOf
    <2>6. u.asSeen => db.rows = seal[p].rows
      <3>1. db \in Databases /\ seen[p] \in Databases
        BY <2>2, <2>5 DEF DiskOK, PreparedOK
      <3>2. u.asSeen => Identity(db) = Identity(seen[p])
        BY <2>2
      <3> QED
        BY <2>5, <3>1, <3>2, SealTells DEF SameContent
    <2> QED
      BY <2>2, <2>3, <2>5, <2>6 DEF Backup, SameContent
  <1> QED
    BY <1>2, <1>3

-----------------------------------------------------------------------------
\* Every state that starts, openings, scans, crashes and other programs can
\* reach satisfies the invariant.
LEMMA InvHolds == Spec => []Inv
  <1>1. ASSUME Inv, [Next]_vars PROVE Inv'
    <2>1. ControlOK /\ DiskOK /\ PreparedOK /\ LockInv /\ WorkInv /\ NameInv /\ BackInv
      BY <1>1, TypeParts DEF Inv
    <2>2. db' \in Databases \cup {None}
      BY <1>1, <2>1, DbStep DEF DbMove, Advanced, Created, Put, DiskOK, PowerLoss
    <2>3. ControlOK' /\ DiskOK' /\ PreparedOK'
      BY <1>1, <2>1, <2>2, ControlStep, FilesStep, PreparedStep DEF DiskOK
    <2>4. TypeOK'
      BY <2>3 DEF TypeOK, ControlOK, DiskOK, PreparedOK, Upgrades
    <2>5. LockInv' /\ WorkInv' /\ NameInv'
      BY <1>1, <2>1, LockStep, WorkStep, NameStep, TypeParts
    <2>6. BackInv'
      BY <1>1, <2>1, BackStep, BackedUpStep DEF BackInv
    <2> QED
      BY <2>4, <2>5, <2>6 DEF Inv
  <1> QED
    BY InitInv, <1>1, PTL DEF Spec

\* The lock, the database, its backups and the work in hand keep their types.
THEOREM TypeCorrect == Spec => []TypeOK
  <1>1. Inv => TypeOK
    BY DEF Inv
  <1> QED
    BY <1>1, InvHolds, PTL

\* Two processes are never both past the runtime lock unless somebody removed
\* the file one of them holds (AppRuntimeLock::acquire).
THEOREM OneProcessAtATime == Spec => []OneProcess
  <1>1. Inv => OneProcess
    BY DEF Inv, LockInv, OneProcess, Granted
  <1> QED
    BY <1>1, InvHolds, PTL

\* No store is upgraded that has no whole, lasting backup of its own content
\* (stage_unix_source_family, create_verified_backup).
THEOREM UpgradesAreBackedUp == Spec => []BackedUp
  <1>1. Inv => BackedUp
    BY DEF Inv, BackInv
  <1> QED
    BY <1>1, InvHolds, PTL

\* The database at its name is whole, and no step of the program replaces or
\* removes it (initialize_database).
THEOREM StoreIsKept == Spec => StoreKept
  <1> DEFINE Whole == db # None => db.whole
             Keeps == Replaced => \/ outside' # outside
                                  \/ faults' # faults /\ db.rows = 0 /\ opened = {}
  <1>1. Inv => Whole
    BY DEF Inv, NameInv
  <1>2. ASSUME Inv, [Next]_vars PROVE [Keeps]_vars
    <2>1. ControlOK /\ DiskOK /\ WorkInv /\ NameInv
      BY <1>2, TypeParts DEF Inv
    <2>2. CASE PowerLoss
      BY <2>1, <2>2 DEF PowerLoss, Survives, NameInv, Replaced, ControlOK
    <2>3. CASE DbMove
      BY <2>1, <2>3, Names DEF DbMove, Advanced, Created, Put, Replaced, DiskOK
    <2> QED
      BY <1>2, <2>1, <2>2, <2>3, DbStep
  <1> QED
    BY <1>1, <1>2, InvHolds, PTL DEF Spec, StoreKept
=============================================================================
