--------------------------- MODULE PersistProofs ---------------------------
(***************************************************************************)
(* Proofs about Persist for every set of profiles and settings and every   *)
(* number of faults: the types, the inductive invariant IInv, and the      *)
(* safety properties that follow from it.                                  *)
(***************************************************************************)
EXTENDS Persist, TLAPS

\* The steps that begin an operation, or end one that finds its snapshot stored.
Starts(kind, s) ==
    /\ Running /\ op = NoOp
    /\ Begin(kind, s)
    /\ service' = service
    /\ doubted' = IF kind \in {"save", "seed"} THEN doubted \cup {s.wifi}
                  ELSE doubted

\* A request or a flush begins a write, finds its snapshot stored, or, for the
\* profile the service holds, changes nothing but the promise.
LEMMA OperationKinds ==
    ASSUME Requests \/ Flush \/ FinalFlush
    PROVE  \/ \E p \in Profiles : SaveKnown(p)
           \/ \E kind \in {"save", "seed"}, p \in Profiles :
                 /\ Idle /\ current.wifi # p
                 /\ kind = "seed" => SeedAllowed
                 /\ \/ Starts(kind, Snapshot(p))
                    \/ CommitUnchanged(kind, Snapshot(p)) /\ service' = service
           \/ \E kind \in {"flush", "final"} :
                 /\ kind = "flush" <=> service = "up"
                 /\ Running /\ op = NoOp
                 /\ \/ Starts(kind, Captured)
                    \/ /\ CommitUnchanged(kind, Captured)
                       /\ service' = IF kind = "final" THEN "down" ELSE service
           \/ /\ service = "stopping" /\ op = NoOp /\ service' = "down"
              /\ UNCHANGED <<store, runtime, socket, current, limited, op,
                             client, budget>>
<1>1. CASE Requests
  <2>1. ASSUME NEW kind \in {"save", "seed"}, NEW p \in Profiles, Save(kind, p)
        PROVE  /\ Idle /\ current.wifi # p
               /\ kind = "seed" => SeedAllowed
               /\ \/ Starts(kind, Snapshot(p))
                  \/ CommitUnchanged(kind, Snapshot(p)) /\ service' = service
    BY <2>1 DEF Save, Starts, Idle, Running, Snapshot
  <2> QED
    BY <1>1, <2>1 DEF Requests
<1>2. CASE Flush
  BY <1>2 DEF Flush, Idle, Running, Starts
<1>3. CASE FinalFlush
  BY <1>3 DEF FinalFlush, Running, Starts
<1> QED
  BY <1>1, <1>2, <1>3

-----------------------------------------------------------------------------
\* Types

\* Snapshots and the named files are files.
LEMMA Files ==
    /\ AbsentFile \in File /\ CorruptFile \in File
    /\ runtime \in Settings \cup {NoSetting} =>
          \A p \in Profiles \cup {NoProfile} : Snapshot(p) \in File
    /\ \A s \in File : s.wifi \in Profiles \cup {NoProfile}
    /\ \A s \in File : s.prefs \in Settings \cup {NoSetting}
    /\ AbsentFile.kind = "absent" /\ AbsentFile.wifi = NoProfile
    /\ CorruptFile.kind = "corrupt" /\ CorruptFile.wifi = NoProfile
    /\ \A p : /\ Snapshot(p).kind = "state" /\ Snapshot(p).wifi = p
              /\ Snapshot(p).prefs = runtime
  BY DEF File, AbsentFile, CorruptFile, Snapshot

\* The operation records the steps take are operations.
Operations == [kind : Kinds \cup {"none"},
               stage : {"idle", "temp", "synced", "renamed"}, state : File]

\* No operation, one that begins and one that goes on are operations.
LEMMA OperationValues ==
    /\ NoOp \in Operations /\ NoOp.kind = "none" /\ NoOp.stage = "idle"
    /\ \A kind \in Kinds, s \in File :
          [kind |-> kind, stage |-> "temp", state |-> s] \in Operations
    /\ \A o \in Operations, stage \in {"synced", "renamed"} :
          /\ [o EXCEPT !.stage = stage] \in Operations
          /\ [o EXCEPT !.stage = stage].stage = stage
          /\ [o EXCEPT !.stage = stage].kind = o.kind
          /\ [o EXCEPT !.stage = stage].state = o.state
    /\ \A o \in Operations : o.state \in File
  BY Files DEF Operations, Kinds, NoOp

\* A write that begins keeps the types.
LEMMA StartsTypes ==
    ASSUME TypeOK, NEW kind \in Kinds, NEW p \in Profiles \cup {NoProfile},
           kind \in {"save", "seed"} => p \in Profiles,
           Starts(kind, Snapshot(p))
    PROVE  TypeOK'
<1>1. op' \in Operations
  BY Files, OperationValues DEF Starts, Begin, TypeOK
<1>2. doubted' \subseteq Profiles
  BY Files DEF Starts, TypeOK
<1> QED
  BY <1>1, <1>2 DEF Starts, Begin, TypeOK, budget, Operations

\* A write that finds its snapshot stored keeps the types.
LEMMA CommitTypes ==
    ASSUME TypeOK, NEW kind \in Kinds, NEW p \in Profiles \cup {NoProfile},
           CommitUnchanged(kind, Snapshot(p)), service' \in {service, "down"}
    PROVE  TypeOK'
<1>1. op' \in Operations /\ current' \in File
  BY Files, OperationValues DEF CommitUnchanged, Commit, TypeOK
<1>2. /\ promised' \in Profiles \cup {NoProfile} /\ doubted' \subseteq Profiles
      /\ limited' \in BOOLEAN
  BY Files DEF CommitUnchanged, Commit, TypeOK
<1> QED
  BY <1>1, <1>2 DEF CommitUnchanged, TypeOK, store, budget, Operations

\* Every step keeps the types.
LEMMA TypeStep == TypeOK /\ [Next]_vars => TypeOK'
<1> SUFFICES ASSUME TypeOK, [Next]_vars PROVE TypeOK'
  OBVIOUS
<1>1. CASE Prepare \/ Serve
  BY <1>1 DEF Prepare, Serve, Restored, TypeOK, File, store, process, client,
     budget
<1>2. CASE Requests \/ Flush \/ FinalFlush
  <2>1. ASSUME NEW p \in Profiles, SaveKnown(p)
        PROVE  TypeOK'
    BY <2>1 DEF SaveKnown, TypeOK, store, process, budget
  <2>2. current.wifi \in Profiles \cup {NoProfile}
    BY Files DEF TypeOK
  <2>3. ASSUME NEW kind \in {"flush", "final"},
               \/ Starts(kind, Captured)
               \/ /\ CommitUnchanged(kind, Captured)
                  /\ service' = IF kind = "final" THEN "down" ELSE service
        PROVE  TypeOK'
    BY <2>2, <2>3, StartsTypes, CommitTypes DEF Captured, Kinds
  <2>4. ASSUME NEW kind \in {"save", "seed"}, NEW p \in Profiles,
               \/ Starts(kind, Snapshot(p))
               \/ CommitUnchanged(kind, Snapshot(p)) /\ service' = service
        PROVE  TypeOK'
    BY <2>4, StartsTypes, CommitTypes DEF Kinds
  <2>5. ASSUME service' = "down",
               UNCHANGED <<store, runtime, socket, current, limited, op, client,
                           budget>>
        PROVE  TypeOK'
    BY <2>5 DEF TypeOK, store, client, budget
  <2> QED
    BY <1>2, <2>1, <2>3, <2>4, <2>5, OperationKinds
<1>3. CASE Terminate \/ RateWindowEnds \/ SettingChanges
  BY <1>3 DEF Terminate, RateWindowEnds, SettingChanges, TypeOK, store, process,
     client, budget
<1>4. CASE SyncTemp \/ Rename
  <2>1. op \in Operations
    BY DEF TypeOK, Operations
  <2>2. op' \in Operations
    BY <1>4, <2>1, OperationValues DEF SyncTemp, Rename
  <2>3. disk' \in File /\ survivors' \subseteq File /\ temp' \in BOOLEAN
    BY <1>4, <2>1, OperationValues
       DEF SyncTemp, Rename, RenameLeaves, TypeOK, store
  <2> QED
    BY <1>4, <2>2, <2>3
       DEF SyncTemp, Rename, TypeOK, store, client, budget, Operations
<1>5. CASE SyncDirectory
  <2>1. op \in Operations
    BY DEF TypeOK, Operations
  <2>2. op' \in Operations /\ current' \in File /\ limited' \in BOOLEAN
        /\ promised' \in Profiles \cup {NoProfile} /\ doubted' \subseteq Profiles
    BY <1>5, <2>1, OperationValues, Files DEF SyncDirectory, Commit, TypeOK
  <2> QED
    BY <1>5, <2>2 DEF SyncDirectory, SyncedEntry, TypeOK, budget, Operations
<1>6. CASE WriteFails \/ SyncDirectoryFails
  <2>1. op' \in Operations
    BY <1>6, OperationValues DEF WriteFails, SyncDirectoryFails, Abandon
  <2>2. faults' \in 0 .. MaxFaults /\ syncFails' \in 0 .. MaxSyncFail
    BY <1>6, PersistAssumption DEF WriteFails, SyncDirectoryFails, TypeOK
  <2> QED
    BY <1>6, <2>1, <2>2 DEF WriteFails, SyncDirectoryFails, Abandon, TypeOK,
       store, client, Operations
<1>7. CASE Killed \/ PowerCut \/ Corrupt
  <2>1. op' \in Operations
    <3>1. op' = NoOp \/ op' = op
      BY <1>7 DEF Killed, PowerCut, Corrupt, process
    <3> QED
      BY <3>1, OperationValues DEF TypeOK, Operations
  <2>2. faults' \in 0 .. MaxFaults /\ corruptions' \in 0 .. MaxCorrupt
    <3>1. /\ faults' = faults \/ (faults < MaxFaults /\ faults' = faults + 1)
          /\ \/ corruptions' = corruptions
             \/ corruptions < MaxCorrupt /\ corruptions' = corruptions + 1
      BY <1>7 DEF Killed, PowerCut, Corrupt
    <3> QED
      BY <3>1, PersistAssumption DEF TypeOK
  <2>3. disk' \in File /\ survivors' \subseteq File /\ current' \in File
    BY <1>7, Files DEF Killed, PowerCut, Corrupt, TypeOK, store, process
  <2>4. /\ temp' \in BOOLEAN /\ runtime' \in Settings \cup {NoSetting}
        /\ service' \in {"off", "volatile", "down", "up", "stopping"}
        /\ socket' \in BOOLEAN /\ limited' \in BOOLEAN
    BY <1>7 DEF Killed, PowerCut, Corrupt, TypeOK, store, process
  <2>5. syncFails' \in 0 .. MaxSyncFail
    <3>1. \/ syncFails' = syncFails
          \/ syncFails' = syncFails + 1 /\ syncFails' <= MaxSyncFail
      BY <1>7 DEF Killed, PowerCut, Corrupt
    <3> QED
      BY <3>1, PersistAssumption DEF TypeOK
  <2>6. UNCHANGED client
    BY <1>7 DEF Killed, PowerCut, Corrupt
  <2> QED
    BY <2>1, <2>2, <2>3, <2>4, <2>5, <2>6 DEF TypeOK, client, Operations
<1>8. CASE UNCHANGED vars
  BY <1>8 DEF vars, TypeOK
<1> QED
  BY <1>1, <1>2, <1>3, <1>4, <1>5, <1>6, <1>7, <1>8 DEF Next, WriteStep

\* Every reachable state of the persistence service is well typed.
THEOREM PersistTypes == Spec => []TypeOK
<1>1. Init => TypeOK
  <2> SUFFICES ASSUME Init PROVE TypeOK
    OBVIOUS
  <2>1. /\ faults \in 0 .. MaxFaults /\ syncFails \in 0 .. MaxSyncFail
        /\ corruptions \in 0 .. MaxCorrupt
    BY PersistAssumption DEF Init
  <2>2. op \in Operations /\ disk \in File /\ current \in File
        /\ survivors \subseteq File
    BY Files, OperationValues DEF Init
  <2> QED
    BY <2>1, <2>2 DEF Init, TypeOK, Operations
<1> QED
  BY <1>1, TypeStep, PTL DEF Spec

-----------------------------------------------------------------------------
\* The inductive invariant

\* The inductive invariant holds on the blank partition.
LEMMA IInvInit == Init => IInv
  BY OperationValues, Files DEF Init, IInv, OperationRuns, StoreFollowed,
     CurrentFollowed, ProfileSettled, SnapshotFollowed, NeverTorn,
     AckedSurvives, DurableCommit, Running, Writing

\* A write that begins: what a save or seed writes is doubted from then on, and a
\* flush keeps the profile of the file.
LEMMA StartsStep ==
    ASSUME TypeOK, IInv, NEW kind \in Kinds, NEW p \in Profiles \cup {NoProfile},
           Starts(kind, Snapshot(p)),
           kind = "seed" => SeedAllowed,
           kind \in {"save", "seed"} => service = "up",
           kind \in {"flush", "final"} => p = current.wifi,
           kind = "final" <=> service = "stopping"
    PROVE  IInv'
<1> DEFINE s == Snapshot(p)
<1>1. /\ op'.kind = kind /\ op'.stage = "temp" /\ op'.state = s
      /\ op.kind = "none" /\ op.stage = "idle" /\ kind # "none"
  BY OperationValues DEF Starts, Begin, Kinds
<1>2. /\ UNCHANGED <<disk, survivors, runtime, socket, current, limited,
                     promised, faults, syncFails, corruptions, service>>
      /\ Running /\ disk.kind # "corrupt" /\ s.kind = "state" /\ s.wifi = p
      /\ doubted \subseteq doubted'
      /\ kind \in {"save", "seed"} => p \in doubted'
      /\ current.prefs # NoSetting => s.prefs # NoSetting
  BY Files DEF Starts, Begin, MayReplace, Retains, budget
<1>3. syncFails = 0 => current = disk
  BY <1>1, <1>2 DEF IInv, CurrentFollowed
<1> HIDE DEF s
<1>4. OperationRuns'
  BY <1>1, <1>2 DEF IInv, OperationRuns, Running, Writing, Kinds
<1>5. StoreFollowed' /\ NeverTorn'
  BY <1>2 DEF IInv, StoreFollowed, NeverTorn
<1>6. CurrentFollowed' /\ ProfileSettled'
  BY <1>1, <1>2 DEF IInv, CurrentFollowed, ProfileSettled, Running
<1>7. SnapshotFollowed'
  BY <1>1, <1>2, <1>3 DEF SnapshotFollowed, Writing, SeedAllowed
<1>8. AckedSurvives'
  BY <1>2 DEF IInv, AckedSurvives, DurableCommit
<1> QED
  BY <1>4, <1>5, <1>6, <1>7, <1>8 DEF IInv

\* A request or flush that finds its snapshot stored.
LEMMA CommitUnchangedStep ==
    ASSUME TypeOK, IInv, NEW kind \in Kinds, NEW p \in Profiles \cup {NoProfile},
           CommitUnchanged(kind, Snapshot(p)), Running, op = NoOp,
           kind \in {"save", "seed"} => current.wifi # p /\ service = "up",
           kind = "final" <=> service = "stopping",
           service' = IF kind = "final" THEN "down" ELSE service
    PROVE  IInv'
<1>1. /\ op' = op /\ op.kind = "none" /\ op.stage = "idle"
      /\ disk.kind = "state" /\ disk.wifi = p /\ current' = disk
      /\ UNCHANGED <<disk, survivors, socket, syncFails, corruptions>>
  BY OperationValues, Files
     DEF CommitUnchanged, Commit, Unchanged, store, budget
<1>2. syncFails = 0 => current = disk
  BY <1>1 DEF IInv, CurrentFollowed
<1>3. syncFails = 0 => kind \notin {"save", "seed"}
  BY <1>1, <1>2
<1>4. OperationRuns'
  BY <1>1 DEF IInv, OperationRuns, Running, Writing
<1>5. StoreFollowed' /\ NeverTorn'
  BY <1>1 DEF IInv, StoreFollowed, NeverTorn
<1>6. CurrentFollowed' /\ SnapshotFollowed'
  BY <1>1 DEF CurrentFollowed, SnapshotFollowed, Writing
<1>7. ProfileSettled'
  BY <1>1 DEF IInv, ProfileSettled, OperationRuns, Running
<1>8. AckedSurvives'
  BY <1>1, <1>3
     DEF IInv, AckedSurvives, DurableCommit, CommitUnchanged, Commit
<1> QED
  BY <1>4, <1>5, <1>6, <1>7, <1>8 DEF IInv

\* A save of the profile the service holds promises what every power cut leaves.
LEMMA SaveKnownStep ==
    ASSUME TypeOK, IInv, NEW p \in Profiles, SaveKnown(p)
    PROVE  IInv'
<1>1. /\ UNCHANGED <<disk, survivors, service, socket, current, op, syncFails,
                     corruptions>>
      /\ op.kind = "none" /\ op.stage = "idle" /\ service = "up"
      /\ disk.wifi = p /\ promised' = p /\ p # NoProfile
  BY OperationValues, PersistAssumption
     DEF SaveKnown, Idle, store, process, budget
<1>2. syncFails = 0 => \A s \in survivors : s.wifi = p
  BY <1>1 DEF IInv, ProfileSettled
<1>3. AckedSurvives'
  BY <1>1, <1>2 DEF IInv, AckedSurvives, DurableCommit, StoreFollowed
<1> QED
  BY <1>1, <1>3 DEF IInv, OperationRuns, StoreFollowed, CurrentFollowed,
     ProfileSettled, SnapshotFollowed, NeverTorn, Running, Writing

\* Requests and flushes keep the inductive invariant.
LEMMA OperationStep ==
    ASSUME TypeOK, IInv, Requests \/ Flush \/ FinalFlush
    PROVE  IInv'
<1>1. ASSUME NEW kind \in {"save", "seed"}, NEW p \in Profiles,
             Idle, current.wifi # p, kind = "seed" => SeedAllowed,
             \/ Starts(kind, Snapshot(p))
             \/ CommitUnchanged(kind, Snapshot(p)) /\ service' = service
      PROVE  IInv'
  BY <1>1, StartsStep, CommitUnchangedStep DEF Kinds, Idle, Running
<1>2. ASSUME NEW kind \in {"flush", "final"}, kind = "flush" <=> service = "up",
             Running, op = NoOp,
             \/ Starts(kind, Captured)
             \/ /\ CommitUnchanged(kind, Captured)
                /\ service' = IF kind = "final" THEN "down" ELSE service
      PROVE  IInv'
  <2>1. current.wifi \in Profiles \cup {NoProfile}
    BY Files DEF TypeOK
  <2> QED
    BY <1>2, <2>1, StartsStep, CommitUnchangedStep DEF Kinds, Captured, Running
<1>3. ASSUME service = "stopping", op = NoOp, service' = "down",
             UNCHANGED <<store, runtime, socket, current, limited, op, client,
                         budget>>
      PROVE  IInv'
  BY <1>3, OperationValues DEF IInv, OperationRuns, StoreFollowed,
     CurrentFollowed, ProfileSettled, SnapshotFollowed, NeverTorn,
     AckedSurvives, DurableCommit, Running, Writing, store, client, budget
<1> QED
  BY <1>1, <1>2, <1>3, SaveKnownStep, OperationKinds

\* The file operations of atomicPrivate keep the inductive invariant.
LEMMA WriteStepInv ==
    ASSUME TypeOK, IInv, WriteStep
    PROVE  IInv'
<1> op \in Operations
  BY DEF TypeOK, Operations
<1>1. CASE SyncTemp
  <2>1. /\ op'.kind = op.kind /\ op'.state = op.state
        /\ op.stage = "temp" /\ op'.stage = "synced" /\ op'.kind # "none"
        /\ UNCHANGED <<disk, survivors, service, socket, current, promised,
                       doubted, syncFails, corruptions>>
    BY <1>1, OperationValues
       DEF SyncTemp, IInv, OperationRuns, store, client, budget
  <2> QED
    BY <2>1 DEF IInv, OperationRuns, StoreFollowed, CurrentFollowed,
       ProfileSettled, SnapshotFollowed, NeverTorn, AckedSurvives,
       DurableCommit, Running, Writing
<1>2. CASE Rename
  <2>1. /\ op'.kind = op.kind /\ op'.state = op.state
        /\ op.stage = "synced" /\ op'.stage = "renamed" /\ op.kind # "none"
        /\ op.kind \in Kinds
        /\ disk' = op.state /\ survivors' = survivors \cup {op.state}
        /\ op.state.kind = "state" /\ disk.kind # "corrupt"
        /\ UNCHANGED <<service, socket, current, promised, doubted, syncFails,
                       corruptions>>
    BY <1>2, OperationValues DEF Rename, RenameLeaves, IInv, OperationRuns,
       Writing, client, budget, Operations
  <2>2. OperationRuns'
    BY <2>1 DEF IInv, OperationRuns, Running, Writing
  <2>3. StoreFollowed' /\ NeverTorn'
    BY <2>1 DEF IInv, StoreFollowed, NeverTorn
  <2>4. CurrentFollowed' /\ SnapshotFollowed'
    BY <2>1 DEF IInv, CurrentFollowed, SnapshotFollowed, Writing
  <2>5. ProfileSettled'
    <3>1. SUFFICES ASSUME syncFails = 0, op.kind \in {"flush", "final"}
                   PROVE  \A s \in survivors : s.wifi = op.state.wifi
      BY <2>1 DEF ProfileSettled, Kinds
    <3>2. service # "down"
      BY <2>1 DEF IInv, OperationRuns, Running
    <3> QED
      BY <2>1, <3>1, <3>2 DEF IInv, ProfileSettled, SnapshotFollowed, Writing
  <2>6. AckedSurvives'
    <3>1. SUFFICES ASSUME syncFails = 0, promised # NoProfile
                   PROVE  op.state.wifi \in {promised} \cup doubted
      BY <2>1 DEF IInv, AckedSurvives, DurableCommit
    <3>2. CASE op.kind \in {"save", "seed"}
      BY <3>2 DEF IInv, SnapshotFollowed
    <3>3. CASE op.kind \in {"flush", "final"}
      BY <2>1, <3>1, <3>3 DEF IInv, SnapshotFollowed, Writing, AckedSurvives,
         DurableCommit, StoreFollowed
    <3> QED
      BY <2>1, <3>2, <3>3 DEF Kinds
  <2> QED
    BY <2>2, <2>3, <2>4, <2>5, <2>6 DEF IInv
<1>3. CASE SyncDirectory
  <2>1. /\ op' = NoOp /\ NoOp.kind = "none" /\ NoOp.stage = "idle"
        /\ op.stage = "renamed" /\ disk = op.state /\ current' = disk
        /\ disk.kind = "state" /\ Running
        /\ survivors' = {disk} /\ disk \in survivors
        /\ service' = IF op.kind = "final" THEN "down" ELSE service
        /\ UNCHANGED <<disk, socket, syncFails, corruptions>>
        /\ \/ promised' = disk.wifi
           \/ UNCHANGED <<promised, doubted>>
    BY <1>3, OperationValues DEF SyncDirectory, SyncedEntry, Commit, IInv,
       OperationRuns, StoreFollowed, budget
  <2>2. OperationRuns'
    BY <2>1 DEF IInv, OperationRuns, Running, Writing
  <2>3. StoreFollowed' /\ NeverTorn'
    BY <2>1 DEF StoreFollowed, NeverTorn
  <2>4. CurrentFollowed' /\ ProfileSettled' /\ SnapshotFollowed'
    BY <2>1 DEF CurrentFollowed, ProfileSettled, SnapshotFollowed, Writing
  <2>5. AckedSurvives'
    BY <2>1 DEF IInv, AckedSurvives, DurableCommit
  <2> QED
    BY <2>2, <2>3, <2>4, <2>5 DEF IInv
<1> QED
  BY <1>1, <1>2, <1>3 DEF WriteStep

\* Boot, the end of the service, time and settings keep the inductive invariant.
LEMMA LifecycleStep ==
    ASSUME TypeOK, IInv,
           Prepare \/ Serve \/ Terminate \/ RateWindowEnds \/ SettingChanges
    PROVE  IInv'
<1> USE DEF OperationRuns, StoreFollowed, CurrentFollowed, ProfileSettled,
        SnapshotFollowed, NeverTorn, AckedSurvives, DurableCommit, Running, Writing
<1>1. CASE Prepare
  BY <1>1 DEF Prepare, IInv, client, budget
<1>2. CASE Serve
  BY <1>2 DEF Serve, IInv, store, client, budget
<1>3. CASE Terminate
  BY <1>3, OperationValues DEF Terminate, Idle, IInv, store, client, budget
<1>4. CASE RateWindowEnds \/ SettingChanges
  BY <1>4 DEF RateWindowEnds, SettingChanges, IInv, store, process, client,
     budget
<1> QED
  BY <1>1, <1>2, <1>3, <1>4

\* Failed calls, kills, power cuts and corruption keep the inductive invariant.
LEMMA FaultStep ==
    ASSUME TypeOK, IInv,
           WriteFails \/ SyncDirectoryFails \/ Killed \/ PowerCut \/ Corrupt
    PROVE  IInv'
<1> USE DEF OperationRuns, StoreFollowed, CurrentFollowed, ProfileSettled,
        SnapshotFollowed, NeverTorn, AckedSurvives, DurableCommit, Running, Writing
<1>1. CASE WriteFails
  BY <1>1, OperationValues DEF WriteFails, Abandon, IInv, client
<1>2. CASE SyncDirectoryFails
  <2>1. syncFails' # 0
    BY <1>2 DEF SyncDirectoryFails, TypeOK
  <2> QED
    BY <1>2, <2>1, OperationValues DEF SyncDirectoryFails, Abandon, IInv, store,
       client
<1>3. CASE Killed
  <2>1. \/ syncFails' # 0
        \/ syncFails' = syncFails /\ (op.stage # "renamed" \/ socket)
    BY <1>3 DEF Killed, TypeOK
  <2> QED
    BY <1>3, <2>1, OperationValues DEF Killed, IInv, store, client
<1>4. CASE PowerCut
  BY <1>4, OperationValues DEF PowerCut, IInv, client
<1>5. CASE Corrupt
  <2>1. corruptions' # 0
    BY <1>5 DEF Corrupt, TypeOK
  <2> QED
    BY <1>5, <2>1, OperationValues, Files DEF Corrupt, IInv, process, client
<1> QED
  BY <1>1, <1>2, <1>3, <1>4, <1>5

\* The inductive invariant holds in every reachable state.
THEOREM PersistInvariant == Spec => []IInv
<1>1. TypeOK /\ IInv /\ [Next]_vars => IInv'
  <2> SUFFICES ASSUME TypeOK, IInv, [Next]_vars PROVE IInv'
    OBVIOUS
  <2>1. CASE UNCHANGED vars
    BY <2>1 DEF vars, IInv, OperationRuns, StoreFollowed, CurrentFollowed,
       ProfileSettled, SnapshotFollowed, NeverTorn, AckedSurvives,
       DurableCommit, Running, Writing
  <2> QED
    BY <2>1, OperationStep, WriteStepInv, LifecycleStep, FaultStep DEF Next
<1> QED
  BY <1>1, IInvInit, PersistTypes, PTL DEF Spec

-----------------------------------------------------------------------------
\* The safety properties

\* No kill or power cut between the steps of a replacement leaves an undecodable
\* file.
THEOREM ReplacementAtomic == Spec => []NeverTorn
<1>1. IInv => NeverTorn
  BY DEF IInv
<1> QED
  BY <1>1, PersistInvariant, PTL

\* While no directory fsync failed, a profile the service answered OK for is what
\* every power cut leaves, unless a later save or the medium touched the file.
THEOREM AcknowledgedSaveSurvives == Spec => []AckedSurvives
<1>1. IInv => AckedSurvives
  BY DEF IInv
<1> QED
  BY <1>1, PersistInvariant, PTL

\* Where the file can change: at a rename, at a power cut and by the medium.
LEMMA FileChanges ==
    ASSUME [Next]_vars, disk' # disk
    PROVE  Rename \/ PowerCut \/ Corrupt
<1>1. ASSUME NEW kind, NEW s, Begin(kind, s) \/ CommitUnchanged(kind, s)
      PROVE  FALSE
  BY <1>1 DEF Begin, CommitUnchanged, store
<1>2. ~ (Requests \/ Flush \/ FinalFlush)
  BY <1>1 DEF Requests, SaveKnown, Save, Flush, FinalFlush, store
<1>3. ~ (SyncTemp \/ SyncDirectory \/ WriteFails \/ SyncDirectoryFails)
  BY DEF SyncTemp, SyncDirectory, WriteFails, SyncDirectoryFails, store
<1>4. ~ (\/ Prepare \/ Serve \/ Terminate \/ RateWindowEnds \/ SettingChanges
         \/ Killed)
  BY DEF Prepare, Serve, Terminate, RateWindowEnds, SettingChanges, Killed, store
<1> QED
  BY <1>2, <1>3, <1>4 DEF Next, WriteStep, vars

\* The service never replaces a file it cannot decode: saves are refused, and a
\* write that began before found the file decodable.
THEOREM CorruptFileKept == Spec => CorruptKept
<1>1. IInv /\ [Next]_vars => CorruptKeptStep
  <2> SUFFICES ASSUME IInv, [Next]_vars, disk.kind = "corrupt", disk' # disk
               PROVE  FALSE
    BY DEF CorruptKeptStep
  <2>1. CASE Rename
    BY <2>1 DEF Rename, IInv, OperationRuns, Writing
  <2>2. CASE PowerCut
    BY <2>2 DEF PowerCut, IInv, StoreFollowed
  <2>3. CASE Corrupt
    BY <2>3 DEF Corrupt
  <2> QED
    BY <2>1, <2>2, <2>3, FileChanges
<1> QED
  BY <1>1, PersistInvariant, PTL DEF Spec, CorruptKept

\* A change of the file within an operation is its rename.
LEMMA OperationRenames ==
    ASSUME IInv, [Next]_vars, disk' # disk, op # NoOp, op' # NoOp
    PROVE  Rename
  BY FileChanges DEF PowerCut, Corrupt

\* The build's seed profile never takes the place of a stored one.
THEOREM SeedNeverReplaces == Spec => SeedNeverOverrides
<1>1. IInv /\ [Next]_vars => SeedStep
  <2> SUFFICES ASSUME IInv, [Next]_vars, op.kind = "seed", op'.kind = "seed",
                      disk' # disk
               PROVE  disk.wifi = NoProfile
    BY DEF SeedStep
  <2>1. Rename
    BY OperationRenames, OperationValues
  <2> QED
    BY <2>1 DEF Rename, IInv, SnapshotFollowed, Writing
<1> QED
  BY <1>1, PersistInvariant, PTL DEF Spec, SeedNeverOverrides

\* While no directory fsync failed, no write drops the settings of the file.
THEOREM SettingsKept == Spec => SettingsRetained
<1>1. IInv /\ [Next]_vars => SettingsStep
  <2> SUFFICES ASSUME IInv, [Next]_vars, syncFails = 0, op # NoOp, op' # NoOp,
                      disk.prefs # NoSetting, disk' # disk
               PROVE  disk'.prefs # NoSetting
    BY DEF SettingsStep
  <2>1. Rename
    BY OperationRenames
  <2> QED
    BY <2>1 DEF Rename, IInv, SnapshotFollowed, Writing
<1> QED
  BY <1>1, PersistInvariant, PTL DEF Spec, SettingsRetained
=============================================================================
