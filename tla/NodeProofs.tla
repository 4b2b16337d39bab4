----------------------------- MODULE NodeProofs -----------------------------
(***************************************************************************)
(* Proofs about Node, for any settings, units, peers and number of         *)
(* commands.  Storage is shown to keep its indexes whatever settings the   *)
(* programs migrate it with; then every step of Node is one of Storage's   *)
(* operations or leaves the file alone.  The control part rests on         *)
(* CommandOK (what the running command holds) and Owned (where the         *)
(* programs that run are recorded): while Up is at work there is no        *)
(* runtime file, and while Stop is at work every program is on its list or *)
(* could not be stopped and stays in the runtime file.                     *)
(***************************************************************************)
EXTENDS Node, SequenceTheorems, TLAPS

(***************************************************************************)
(* Storage.                                                                *)
(***************************************************************************)

\* The two indexes are records, and only embedded units have vectors.
StorageShape ==
    /\ fts = [tokenizer |-> fts.tokenizer, rows |-> fts.rows]
    /\ vec = [dim |-> vec.dim, rows |-> vec.rows]

StorageInv == StorageTypeOK /\ StorageShape /\ IndexesFollowSettings /\ NothingForgotten

\* What a step of a program may do to the database file.
StorageStep ==
    \/ \E o \in Settings : Migrate(o)
    \/ \E u \in Units : InsertUnit(u)
    \/ \E u \in Units, o \in Settings : Embed(u, o.dim)
    \/ StorageRemoved

\* A database that is not there yet has no index.
LEMMA StorageInitInv == StorageInit => StorageInv
  BY DEF StorageInit, StorageInv, StorageTypeOK, StorageShape, IndexesFollowSettings,
         NothingForgotten

\* RunMigrationsWithOptions keeps what is true of the indexes: an index that is
\* not rebuilt already had the settings.
LEMMA MigrateInv ==
  ASSUME StorageInv, NEW o \in Settings, Migrate(o)
  PROVE  StorageInv'
<1>1. o.migrations \in Nat /\ o.migrations > 0
  BY SettingsAssumption
<1>2. ~AppliesNew(o) => schema > 0 /\ schema' = schema
  BY <1>1 DEF AppliesNew, Migrate, StorageInv, StorageTypeOK
<1>3. schema' \in Nat /\ schema' > 0
  BY <1>1, <1>2 DEF AppliesNew, Migrate, StorageInv, StorageTypeOK
<1>4. fts' = [tokenizer |-> o.tokenizer, rows |-> units]
  <2>1. CASE RebuildsFTS(o)
    BY <2>1 DEF Migrate, EnsureFTS
  <2>2. CASE ~RebuildsFTS(o)
    BY <2>2, <1>2 DEF Migrate, EnsureFTS, RebuildsFTS, StorageInv, IndexesFollowSettings
  <2> QED BY <2>1, <2>2
<1>5. /\ vec' = [dim |-> o.dim, rows |-> vec'.rows]
      /\ vec'.rows \subseteq DOMAIN emb
      /\ \A u \in vec'.rows : emb[u] = o.dim
  <2>1. CASE RebuildsVectors(o)
    BY <2>1 DEF Migrate
  <2>2. CASE ~RebuildsVectors(o)
    BY <2>2, <1>2 DEF Migrate, RebuildsVectors, StorageInv, StorageShape, StorageTypeOK,
                      IndexesFollowSettings
  <2> QED BY <2>1, <2>2
<1>6. meta' = o /\ UNCHANGED <<units, emb, rqueue>>
  BY DEF Migrate
<1> QED
  BY <1>3, <1>4, <1>5, <1>6
  DEF StorageInv, StorageTypeOK, StorageShape, IndexesFollowSettings, NothingForgotten

\* The triggers keep the word index, and the queue has the new unit.
LEMMA InsertUnitInv ==
  ASSUME StorageInv, NEW u \in Units, InsertUnit(u)
  PROVE  StorageInv'
  BY DEF InsertUnit, StorageInv, StorageTypeOK, StorageShape, IndexesFollowSettings,
         NothingForgotten

\* A vector is stored with the embedding it belongs to.
LEMMA EmbedInv ==
  ASSUME StorageInv, NEW u \in Units, NEW dim, Embed(u, dim)
  PROVE  StorageInv'
<1>1. /\ DOMAIN emb' = DOMAIN emb \cup {u}
      /\ emb'[u] = vec.dim
      /\ \A v \in DOMAIN emb : v # u => emb'[v] = emb[v]
  BY DEF Embed
<1>2. vec' = [dim |-> vec.dim, rows |-> vec.rows \cup {u}]
  BY DEF Embed, StorageInv, StorageShape
<1>3. u \in units /\ rqueue' = rqueue \ {u} /\ UNCHANGED <<schema, meta, units, fts>>
  BY DEF Embed, StorageInv, StorageTypeOK
<1> QED
  BY <1>1, <1>2, <1>3
  DEF StorageInv, StorageTypeOK, StorageShape, IndexesFollowSettings, NothingForgotten

\* Nor has one that was removed.
LEMMA StorageRemovedInv ==
  ASSUME StorageRemoved
  PROVE  StorageInv'
  BY DEF StorageRemoved, StorageInv, StorageTypeOK, StorageShape, IndexesFollowSettings,
         NothingForgotten

\* Migrating, embedding and removing keep what is true of the indexes.
LEMMA StorageStepInv ==
  ASSUME StorageInv, StorageStep \/ UNCHANGED storage
  PROVE  StorageInv'
<1>1. CASE UNCHANGED storage
  BY <1>1 DEF storage, StorageInv, StorageTypeOK, StorageShape, IndexesFollowSettings,
              NothingForgotten
<1>2. CASE StorageStep
  BY <1>2, MigrateInv, InsertUnitInv, EmbedInv, StorageRemovedInv DEF StorageStep
<1> QED BY <1>1, <1>2

(***************************************************************************)
(* The command that is running.                                            *)
(***************************************************************************)
Names == {"memoryd", "indexd", "syncd"}

\* A list of services in the order of Up.
IsServices(list) ==
    /\ list \in Seq([name : Names, pid : Pids])
    /\ Len(list) <= Len(Services)
    /\ \A i \in DOMAIN list : list[i].name = Services[i]

IsStarting(c) ==
    /\ c.pc \in {"start", "wait"}
    /\ c = [pc |-> c.pc, list |-> c.list, wanted |-> c.wanted]
    /\ IsServices(c.list)
    /\ c.wanted \in {Services, <<"memoryd", "indexd">>}
    /\ Len(c.list) <= Len(c.wanted)
    /\ c.pc = "wait" => c.list # <<>>

IsStopping(c) ==
    /\ c.pc = "stop"
    /\ c = Stopping(c.list, c.record)
    /\ IsServices(c.list) /\ c.record \in BOOLEAN

CommandOK == IsServices(runtime) /\ (cmd = NoCommand \/ IsStarting(cmd) \/ IsStopping(cmd))

ProcessesOK == \A p \in procs : IsProcess(p)

PidsUnique == \A p, q \in procs : p.pid = q.pid => p = q

ProfileOK ==
    /\ config \in [settings : Settings, peers : SUBSET Peers]
    /\ policies \subseteq Peers

\* What Stop, or an Up that has failed, has left to do.
Remaining ==
    /\ runtime # <<>> => PidsOf(cmd.list) \subseteq PidsOf(runtime)
    /\ \A p \in procs : \/ p.pid \in PidsOf(cmd.list)
                        \/ ~cmd.record /\ p.pid \in PidsOf(runtime)

\* Where the programs that run are recorded.
Owned ==
    /\ cmd = NoCommand => \A p \in procs : p.pid \in PidsOf(runtime)
    /\ cmd.pc \in {"start", "wait"} => runtime = <<>>
    /\ cmd.pc \in {"start", "wait"} => \A p \in procs : p.pid \in PidsOf(cmd.list)
    /\ cmd.pc = "stop" => Remaining

\* The programs that run were all started by one Up, with one config file.
OneConfig ==
    /\ \A p, q \in procs : p.settings = q.settings
    /\ cmd.pc \in {"start", "wait"} => \A p \in procs : p.settings = config.settings

NodeInv ==
    /\ StorageInv /\ CommandOK /\ ProcessesOK /\ PidsUnique /\ ProfileOK
    /\ Owned /\ OneConfig /\ ProgramsFitDatabase

\* Nothing runs and nothing is configured.
LEMMA NodeInitInv == Init => NodeInv
<1> SUFFICES ASSUME Init PROVE NodeInv
  OBVIOUS
<1>1. StorageInv
  BY StorageInitInv DEF Init
<1>2. CommandOK
  <2>1. <<>> \in Seq([name : Names, pid : Pids]) /\ Len(<<>>) = 0 /\ DOMAIN <<>> = {}
    OBVIOUS
  <2> QED BY <2>1 DEF Init, CommandOK, IsServices, Services
<1>3. ProcessesOK /\ PidsUnique /\ ProfileOK
  BY DEF Init, ProcessesOK, PidsUnique, ProfileOK, NewConfig
<1>4. Owned /\ OneConfig /\ ProgramsFitDatabase
  BY DEF Init, Owned, OneConfig, ProgramsFitDatabase, NoCommand
<1> QED BY <1>1, <1>2, <1>3, <1>4 DEF NodeInv

\* There is a pid for the next program: at most two of six are taken.
LEMMA FreshPidIsFresh ==
  ASSUME NodeInv, UpStart
  PROVE  FreshPid \in Pids /\ ~Alive(FreshPid)
<1>1. /\ IsServices(cmd.list) /\ runtime = <<>> /\ Len(cmd.list) < 3
      /\ \A p \in procs : p.pid \in PidsOf(cmd.list)
      /\ InHand = PidsOf(cmd.list)
  BY DEF NodeInv, CommandOK, IsStarting, IsStopping, Stopping, Owned, UpStart, NoCommand,
         Services, InHand
<1>2. PidsOf(runtime) = {}
  BY <1>1 DEF PidsOf
<1>3. \E n \in {1, 2, 3} : n \notin PidsOf(cmd.list)
  <2>1. DOMAIN cmd.list \subseteq {1, 2}
    BY <1>1 DEF IsServices
  <2>2. PidsOf(cmd.list) \subseteq {cmd.list[1].pid, cmd.list[2].pid}
    BY <2>1 DEF PidsOf
  <2> QED BY <2>2
<1>4. \E n \in Pids : ~Alive(n) /\ n \notin PidsOf(runtime) \cup InHand
  BY <1>1, <1>2, <1>3 DEF Alive, Pids, Services
<1> QED BY <1>4 DEF FreshPid

\* Every step leaves the database file alone or does one of Storage's operations
\* with settings a config file may have.
LEMMA NodeStorageStep ==
  ASSUME NodeInv, [Next]_vars
  PROVE  StorageStep \/ UNCHANGED storage
<1>1. CASE UNCHANGED vars
  BY <1>1 DEF vars, storage
<1>2. CASE ProfileRemove
  BY <1>2 DEF ProfileRemove, StorageStep
<1>3. ASSUME NEW p \in procs, Start(p) PROVE StorageStep
  BY <1>3 DEF Start, StorageStep, NodeInv, ProcessesOK, IsProcess
<1>4. ASSUME NEW p \in procs, NEW x \in Units, StoreUnit(p, x) PROVE StorageStep
  BY <1>4 DEF StoreUnit, StorageStep
<1>5. ASSUME NEW p \in procs, NEW x \in Units, IndexUnit(p, x) PROVE StorageStep
  BY <1>5 DEF IndexUnit, StorageStep, NodeInv, ProcessesOK, IsProcess
<1> QED
  BY <1>1, <1>2, <1>3, <1>4, <1>5
  DEF Next, EditSettings, PeerAdd, PeerRemove, UpBegin, UpStart, UpContinue, UpGiveUp, UpSave,
      StopBegin, StopNext, StopEnd, Serve, Exit

\* The config file changes between two commands only.
LEMMA ConfigInv ==
  ASSUME NodeInv,
         \/ \E o \in Settings : EditSettings(o)
         \/ \E p \in Peers : PeerAdd(p) \/ PeerRemove(p)
  PROVE  /\ CommandOK' /\ ProcessesOK' /\ PidsUnique' /\ ProfileOK'
         /\ Owned' /\ OneConfig' /\ ProgramsFitDatabase'
<1>1. /\ cmd = NoCommand /\ config' \in [settings : Settings, peers : SUBSET Peers]
      /\ UNCHANGED <<storage, policies, runtime, procs, cmd>>
  BY DEF EditSettings, PeerAdd, PeerRemove, NodeInv, ProfileOK
<1> QED
  BY <1>1 DEF NodeInv, CommandOK, ProcessesOK, PidsUnique, ProfileOK, Owned, OneConfig,
             ProgramsFitDatabase, NoCommand, PidsOf, storage

\* Before Up starts anything, and before a profile is removed, nothing runs.
LEMMA NothingRuns ==
  ASSUME NodeInv, cmd = NoCommand, ~AnyRunning
  PROVE  procs = {}
  BY DEF NodeInv, Owned, AnyRunning, Alive

\* cam keeps the invariant: it removes a profile when nothing runs,
LEMMA ProfileRemoveInv ==
  ASSUME NodeInv, ProfileRemove
  PROVE  /\ CommandOK' /\ ProcessesOK' /\ PidsUnique' /\ ProfileOK'
         /\ Owned' /\ OneConfig' /\ ProgramsFitDatabase'
<1>1. procs = {} /\ procs' = {} /\ cmd = NoCommand /\ cmd' = NoCommand /\ runtime' = <<>>
  BY NothingRuns DEF ProfileRemove
<1>2. IsServices(<<>>)
  BY DEF IsServices, Services
<1> QED
  BY <1>1, <1>2 DEF ProfileRemove, NewConfig, CommandOK, ProcessesOK, PidsUnique, ProfileOK,
                    Owned, OneConfig, ProgramsFitDatabase, NoCommand

\* begins to start the programs,
LEMMA UpBeginInv ==
  ASSUME NodeInv, NEW withSync \in BOOLEAN, UpBegin(withSync)
  PROVE  /\ CommandOK' /\ ProcessesOK' /\ PidsUnique' /\ ProfileOK'
         /\ Owned' /\ OneConfig' /\ ProgramsFitDatabase'
<1>1. /\ procs = {} /\ procs' = {} /\ runtime' = <<>>
      /\ UNCHANGED <<storage, config, policies>>
  BY NothingRuns DEF UpBegin
<1>2. IsServices(<<>>)
  BY DEF IsServices, Services
<1>3. cmd' = NoCommand \/ IsStarting(cmd')
  <2> DEFINE wanted == IF withSync THEN Services ELSE <<"memoryd", "indexd">>
  <2>1. Len(wanted) >= 0
    BY DEF Services
  <2>2. CASE cmd' = [pc |-> "start", list |-> <<>>, wanted |-> wanted]
    BY <2>1, <2>2, <1>2 DEF IsStarting
  <2> QED BY <2>2 DEF UpBegin
<1> QED
  BY <1>1, <1>2, <1>3 DEF NodeInv, CommandOK, ProcessesOK, PidsUnique, ProfileOK, Owned, Remaining,
                          OneConfig, ProgramsFitDatabase, NoCommand

\* starts one after the other under a fresh pid,
LEMMA UpStartInv ==
  ASSUME NodeInv, UpStart
  PROVE  /\ CommandOK' /\ ProcessesOK' /\ PidsUnique' /\ ProfileOK'
         /\ Owned' /\ OneConfig' /\ ProgramsFitDatabase'
<1> DEFINE name == cmd.wanted[Len(cmd.list) + 1]
           new  == [pid |-> FreshPid, name |-> name, state |-> "new",
                    settings |-> config.settings, peers |-> config.peers]
           item == [name |-> name, pid |-> FreshPid]
<1>1. IsStarting(cmd) /\ runtime = <<>> /\ cmd # NoCommand
  BY DEF NodeInv, CommandOK, IsStopping, Stopping, Owned, UpStart, NoCommand
<1>2. FreshPid \in Pids /\ ~Alive(FreshPid)
  BY FreshPidIsFresh
<1>3. name \in Names /\ name = Services[Len(cmd.list) + 1] /\ Len(cmd.list) + 1 \in 1 .. 3
  BY <1>1 DEF IsStarting, IsServices, Services, Names, UpStart
<1>4. procs' = procs \cup {new} /\ UNCHANGED <<storage, config, policies, runtime>>
  BY DEF UpStart
<1>5. cmd' = [pc |-> "wait", list |-> Append(cmd.list, item), wanted |-> cmd.wanted]
  BY <1>1 DEF UpStart, IsStarting
<1>6. IsServices(Append(cmd.list, item)) /\ Append(cmd.list, item) # <<>>
  BY <1>1, <1>2, <1>3 DEF IsStarting, IsServices, Services
<1>7. CommandOK'
  <2>1. Len(Append(cmd.list, item)) <= Len(cmd.wanted)
    BY <1>1 DEF IsStarting, IsServices, UpStart
  <2>2. IsStarting(cmd')
    BY <1>1, <1>5, <1>6, <2>1 DEF IsStarting
  <2>3. IsServices(runtime')
    BY <1>4 DEF NodeInv, CommandOK
  <2> QED BY <2>2, <2>3 DEF CommandOK
<1>8. ProcessesOK' /\ ProfileOK'
  BY <1>2, <1>3, <1>4 DEF ProcessesOK, IsProcess, ProfileOK, NodeInv, Names
<1>9. PidsUnique'
  BY <1>2, <1>4 DEF PidsUnique, NodeInv, Alive
<1>10. Owned'
  <2>1. PidsOf(Append(cmd.list, item)) = PidsOf(cmd.list) \cup {FreshPid}
    BY <1>1, <1>6 DEF PidsOf, IsStarting, IsServices
  <2>2. \A p \in procs : p.pid \in PidsOf(cmd.list)
    BY <1>1 DEF Owned, NodeInv, IsStarting
  <2>3. \A p \in procs' : p.pid \in PidsOf(Append(cmd.list, item))
    BY <1>4, <2>1, <2>2
  <2>4. cmd'.pc = "wait" /\ cmd'.list = Append(cmd.list, item) /\ runtime' = <<>>
    BY <1>1, <1>4, <1>5
  <2> QED BY <2>3, <2>4 DEF Owned, NoCommand
<1>11. OneConfig' /\ ProgramsFitDatabase'
  BY <1>1, <1>4, <1>5 DEF OneConfig, ProgramsFitDatabase, NodeInv, storage, IsStarting
<1> QED BY <1>7, <1>8, <1>9, <1>10, <1>11

\* The other steps of Up neither start nor end a program.
LEMMA UpInv ==
  ASSUME NodeInv, UpContinue \/ UpGiveUp \/ UpSave
  PROVE  /\ CommandOK' /\ ProcessesOK' /\ PidsUnique' /\ ProfileOK'
         /\ Owned' /\ OneConfig' /\ ProgramsFitDatabase'
<1>1. IsStarting(cmd) /\ runtime = <<>> /\ cmd # NoCommand
  BY DEF NodeInv, CommandOK, IsStopping, Stopping, Owned, UpContinue, UpGiveUp, UpSave, Failed,
         NoCommand
<1>2. UNCHANGED <<storage, config, policies, procs>>
  BY DEF UpContinue, UpGiveUp, UpSave
<1>3. ProcessesOK' /\ PidsUnique' /\ ProfileOK' /\ ProgramsFitDatabase'
  BY <1>2 DEF NodeInv, ProcessesOK, PidsUnique, ProfileOK, ProgramsFitDatabase, storage
<1>4. CASE UpContinue
  <2>1. cmd' = [pc |-> "start", list |-> cmd.list, wanted |-> cmd.wanted] /\ runtime' = runtime
    BY <1>1, <1>4 DEF UpContinue, IsStarting
  <2>2. CommandOK' /\ Owned' /\ OneConfig'
    BY <1>1, <1>2, <2>1 DEF NodeInv, CommandOK, IsStarting, Owned, OneConfig, NoCommand, PidsOf
  <2> QED BY <1>3, <2>2
<1>5. CASE UpGiveUp
  <2>1. cmd' = Stopping(cmd.list, FALSE) /\ runtime' = runtime
    BY <1>5 DEF UpGiveUp
  <2>2. CommandOK' /\ OneConfig'
    BY <1>1, <1>2, <2>1 DEF NodeInv, CommandOK, IsStarting, IsStopping, Stopping, OneConfig
  <2>3. \A p \in procs : p.pid \in PidsOf(cmd.list)
    BY <1>1 DEF NodeInv, Owned, IsStarting
  <2>4. cmd'.pc = "stop" /\ cmd'.list = cmd.list /\ cmd' # NoCommand
    BY <2>1 DEF Stopping, NoCommand
  <2>5. Owned'
    BY <1>1, <1>2, <2>1, <2>3, <2>4 DEF Owned, Remaining
  <2> QED BY <1>3, <2>2, <2>5
<1>6. CASE UpSave
  <2>1. cmd' = NoCommand /\ runtime' = cmd.list
    BY <1>6 DEF UpSave
  <2>2. CommandOK' /\ Owned' /\ OneConfig'
    BY <1>1, <1>2, <2>1 DEF NodeInv, CommandOK, IsStarting, Owned, OneConfig, NoCommand, PidsOf
  <2> QED BY <1>3, <2>2
<1> QED BY <1>4, <1>5, <1>6

\* begins to stop them,
LEMMA StopBeginInv ==
  ASSUME NodeInv, StopBegin
  PROVE  /\ CommandOK' /\ ProcessesOK' /\ PidsUnique' /\ ProfileOK'
         /\ Owned' /\ OneConfig' /\ ProgramsFitDatabase'
<1>1. /\ cmd = NoCommand /\ cmd' = Stopping(runtime, TRUE)
      /\ UNCHANGED <<storage, config, policies, runtime, procs>>
  BY DEF StopBegin
<1>2. CommandOK' /\ ProcessesOK' /\ PidsUnique' /\ ProfileOK' /\ ProgramsFitDatabase'
  BY <1>1 DEF NodeInv, CommandOK, IsStopping, Stopping, ProcessesOK, PidsUnique, ProfileOK,
             ProgramsFitDatabase, storage
<1>3. cmd'.pc = "stop" /\ cmd'.list = runtime /\ cmd' # NoCommand
  BY <1>1 DEF Stopping, NoCommand
<1>4. \A p \in procs : p.pid \in PidsOf(runtime)
  BY <1>1 DEF NodeInv, Owned
<1>5. Owned' /\ OneConfig'
  BY <1>1, <1>3, <1>4 DEF NodeInv, Owned, Remaining, OneConfig
<1> QED BY <1>2, <1>5

\* and stops the last one it started.
LEMMA StopNextInv ==
  ASSUME NodeInv, StopNext
  PROVE  /\ CommandOK' /\ ProcessesOK' /\ PidsUnique' /\ ProfileOK'
         /\ Owned' /\ OneConfig' /\ ProgramsFitDatabase'
<1> DEFINE n == Len(cmd.list)
           rest == SubSeq(cmd.list, 1, n - 1)
<1>1. IsStopping(cmd) /\ cmd # NoCommand /\ cmd.list # <<>>
  BY DEF NodeInv, CommandOK, IsStarting, StopNext, NoCommand
<1>2. /\ n \in Nat /\ n > 0 /\ rest \in Seq([name : Names, pid : Pids]) /\ Len(rest) = n - 1
      /\ \A i \in 1 .. n - 1 : rest[i] = cmd.list[i]
      /\ DOMAIN rest = 1 .. n - 1 /\ DOMAIN cmd.list = 1 .. n
  <2>1. cmd.list \in Seq([name : Names, pid : Pids])
    BY <1>1 DEF IsStopping, IsServices
  <2>2. n \in Nat /\ n # 0 /\ DOMAIN cmd.list = 1 .. n
    BY <1>1, <2>1
  <2>3. n - 1 \in Nat /\ n - 1 <= Len(cmd.list)
    BY <2>2
  <2>5. /\ rest \in Seq([name : Names, pid : Pids]) /\ Len(rest) = n - 1
        /\ \A i \in 1 .. n - 1 : rest[i] = cmd.list[i]
    <3>1. ASSUME NEW i \in 1 .. n - 1
          PROVE  cmd.list[i] \in [name : Names, pid : Pids] /\ 1 + i - 1 = i
      <4>1. i \in 1 .. n /\ 1 + i - 1 = i
        BY <2>2
      <4> QED BY <2>1, <4>1, ElementOfSeq
    <3>2. 1 \in 1 .. Len(cmd.list) + 1 /\ n - 1 \in 1 - 1 .. Len(cmd.list)
      BY <2>2, <2>3
    <3> QED BY <2>1, <2>2, <3>1, <3>2, SubSeqProperties
  <2>6. DOMAIN rest = 1 .. n - 1
    BY <2>5
  <2> QED BY <2>2, <2>5, <2>6
<1>3. /\ cmd'.pc = "stop" /\ cmd'.list = rest /\ cmd' # NoCommand
      /\ cmd' = Stopping(rest, cmd'.record) /\ cmd'.record \in BOOLEAN
  <2>1. cmd.record \in BOOLEAN
    BY <1>1 DEF IsStopping
  <2>2. \E b \in BOOLEAN : cmd' = Stopping(rest, b)
    BY <2>1 DEF StopNext
  <2> QED BY <2>2 DEF Stopping, NoCommand
<1>4. IsServices(rest)
  BY <1>1, <1>2 DEF IsStopping, IsServices
<1>5. procs' \subseteq procs /\ UNCHANGED <<storage, config, policies, runtime>>
  BY DEF StopNext
<1>6. CommandOK'
  BY <1>3, <1>4, <1>5 DEF NodeInv, CommandOK, IsStopping
<1>7. Owned'
  <2>1. PidsOf(cmd.list) = PidsOf(rest) \cup {cmd.list[n].pid}
    BY <1>2 DEF PidsOf
  <2>2. Remaining /\ runtime' = runtime
    BY <1>1, <1>5 DEF NodeInv, Owned, IsStopping
  <2>3. CASE procs' = {p \in procs : p.pid # cmd.list[n].pid} /\ cmd' = Stopping(rest, cmd.record)
    <3>1. cmd'.record = cmd.record
      BY <2>3 DEF Stopping
    <3>2. Remaining'
      BY <1>3, <2>1, <2>2, <2>3, <3>1 DEF Remaining
    <3> QED BY <1>3, <3>2 DEF Owned
  <2>4. CASE runtime # <<>> /\ cmd' = Stopping(rest, FALSE) /\ UNCHANGED procs
    <3>1. ~cmd'.record
      BY <2>4 DEF Stopping
    <3>2. Remaining'
      BY <1>3, <2>1, <2>2, <2>4, <3>1 DEF Remaining
    <3> QED BY <1>3, <3>2 DEF Owned
  <2> QED BY <2>3, <2>4 DEF StopNext, Latest
<1>8. ProcessesOK' /\ PidsUnique' /\ ProfileOK' /\ ProgramsFitDatabase'
  BY <1>5 DEF NodeInv, ProcessesOK, PidsUnique, ProfileOK, ProgramsFitDatabase, storage
<1>9. OneConfig'
  BY <1>3, <1>5 DEF NodeInv, OneConfig
<1> QED BY <1>6, <1>7, <1>8, <1>9

\* When Stop, or an Up that has failed, is done, nothing runs but what could
\* not be stopped.
LEMMA StopEndInv ==
  ASSUME NodeInv, StopEnd
  PROVE  /\ CommandOK' /\ ProcessesOK' /\ PidsUnique' /\ ProfileOK'
         /\ Owned' /\ OneConfig' /\ ProgramsFitDatabase'
<1>1. PidsOf(cmd.list) = {} /\ Remaining /\ IsStopping(cmd)
  BY DEF StopEnd, PidsOf, NodeInv, Owned, CommandOK, IsStarting, NoCommand
<1>2. /\ cmd' = NoCommand /\ runtime' = IF cmd.record THEN <<>> ELSE runtime
      /\ UNCHANGED <<storage, config, policies, procs>>
  BY DEF StopEnd
<1>3. IsServices(<<>>)
  BY DEF IsServices, Services
<1>4. \A p \in procs : p.pid \in PidsOf(runtime')
  BY <1>1, <1>2 DEF Remaining
<1>5. CommandOK'
  BY <1>2, <1>3 DEF NodeInv, CommandOK
<1>6. Owned' /\ OneConfig'
  BY <1>2, <1>4 DEF NodeInv, Owned, OneConfig, NoCommand
<1>7. ProcessesOK' /\ PidsUnique' /\ ProfileOK' /\ ProgramsFitDatabase'
  BY <1>2 DEF NodeInv, ProcessesOK, PidsUnique, ProfileOK, ProgramsFitDatabase, storage
<1> QED BY <1>5, <1>6, <1>7

\* A program that goes on keeps its pid, its settings and its peers.
LEMMA BecomeInv ==
  ASSUME NodeInv, NEW p \in procs, NEW s \in {"migrated", "up"}, Become(p, s),
         UNCHANGED <<config, runtime, cmd>>
  PROVE  CommandOK' /\ ProcessesOK' /\ PidsUnique' /\ Owned' /\ OneConfig'
<1> DEFINE q == [p EXCEPT !.state = s]
<1>1. IsProcess(p)
  BY DEF NodeInv, ProcessesOK
<1>2. /\ DOMAIN q = DOMAIN p /\ q.pid = p.pid /\ q.name = p.name /\ q.state = s
      /\ q.settings = p.settings /\ q.peers = p.peers
  BY <1>1 DEF IsProcess
<1>3. procs' = (procs \ {p}) \cup {q}
  BY DEF Become
<1> HIDE DEF q
<1>4. CommandOK'
  BY DEF NodeInv, CommandOK
<1>5. ProcessesOK'
  <2>1. IsProcess(q)
    BY <1>1, <1>2 DEF IsProcess
  <2> QED BY <1>3, <2>1 DEF NodeInv, ProcessesOK
<1>6. PidsUnique'
  BY <1>2, <1>3 DEF NodeInv, PidsUnique
<1>7. Owned'
  BY <1>2, <1>3 DEF NodeInv, Owned, Remaining, PidsOf
<1>8. OneConfig'
  BY <1>2, <1>3 DEF NodeInv, OneConfig
<1> QED BY <1>4, <1>5, <1>6, <1>7, <1>8

\* A program that is gone leaves pids and owners in order.
LEMMA FewerProgramsInv ==
  ASSUME NodeInv, procs' \subseteq procs, UNCHANGED <<config, runtime, cmd>>
  PROVE  CommandOK' /\ ProcessesOK' /\ PidsUnique' /\ Owned' /\ OneConfig'
<1>1. CommandOK' /\ ProcessesOK' /\ PidsUnique'
  BY DEF NodeInv, CommandOK, ProcessesOK, PidsUnique
<1>2. Owned' /\ OneConfig'
  BY DEF NodeInv, Owned, Remaining, OneConfig, PidsOf
<1> QED BY <1>1, <1>2

\* The programs keep it: one migrates the database when it starts,
LEMMA StartInv ==
  ASSUME NodeInv, NEW p \in procs, Start(p)
  PROVE  /\ CommandOK' /\ ProcessesOK' /\ PidsUnique' /\ ProfileOK'
         /\ Owned' /\ OneConfig' /\ ProgramsFitDatabase'
<1>1. Become(p, "migrated") /\ UNCHANGED <<config, policies, runtime, cmd>> /\ meta' = p.settings
  BY DEF Start, Migrate
<1>2. CommandOK' /\ ProcessesOK' /\ PidsUnique' /\ Owned' /\ OneConfig'
  BY <1>1, BecomeInv
<1>3. ProfileOK'
  BY <1>1 DEF NodeInv, ProfileOK
<1>4. ProgramsFitDatabase'
  <2>1. IsProcess(p) /\ \A x \in procs : x.settings = p.settings
    BY DEF NodeInv, ProcessesOK, OneConfig
  <2> DEFINE q == [p EXCEPT !.state = "migrated"]
  <2>2. q.state = "migrated" /\ q.settings = p.settings
    BY <2>1 DEF IsProcess
  <2>3. procs' = (procs \ {p}) \cup {q}
    BY <1>1 DEF Become
  <2> HIDE DEF q
  <2> QED BY <1>1, <2>1, <2>2, <2>3 DEF NodeInv, ProgramsFitDatabase
<1> QED BY <1>2, <1>3, <1>4

\* serves,
LEMMA ServeInv ==
  ASSUME NodeInv, NEW p \in procs, Serve(p)
  PROVE  /\ CommandOK' /\ ProcessesOK' /\ PidsUnique' /\ ProfileOK'
         /\ Owned' /\ OneConfig' /\ ProgramsFitDatabase'
<1>1. p.state = "migrated" /\ UNCHANGED <<config, runtime, cmd>> /\ meta' = meta
  BY DEF Serve, storage
<1>2. IsProcess(p)
  BY DEF NodeInv, ProcessesOK
<1>3. ProfileOK' /\ policies \subseteq policies' /\ (p.name # "indexd" => p.peers \subseteq policies')
  BY <1>1, <1>2 DEF NodeInv, ProfileOK, Serve, SyncRegistry, IsProcess
<1>4. CASE procs' = procs \ {p}
  <2>1. CommandOK' /\ ProcessesOK' /\ PidsUnique' /\ Owned' /\ OneConfig'
    BY <1>1, <1>4, FewerProgramsInv
  <2>2. ProgramsFitDatabase'
    BY <1>1, <1>3, <1>4 DEF NodeInv, ProgramsFitDatabase
  <2> QED BY <1>3, <2>1, <2>2
<1>5. CASE Become(p, "up")
  <2>1. CommandOK' /\ ProcessesOK' /\ PidsUnique' /\ Owned' /\ OneConfig'
    BY <1>1, <1>5, BecomeInv
  <2> DEFINE q == [p EXCEPT !.state = "up"]
  <2>2. q.settings = p.settings /\ q.name = p.name /\ q.peers = p.peers
    BY <1>2 DEF IsProcess
  <2>3. procs' = (procs \ {p}) \cup {q}
    BY <1>5 DEF Become
  <2> HIDE DEF q
  <2>4. ProgramsFitDatabase'
    BY <1>1, <1>3, <2>2, <2>3 DEF NodeInv, ProgramsFitDatabase
  <2> QED BY <1>3, <2>1, <2>4
<1> QED BY <1>4, <1>5 DEF Serve

\* and may exit at any time.
LEMMA ExitInv ==
  ASSUME NodeInv, NEW p \in procs, Exit(p)
  PROVE  /\ CommandOK' /\ ProcessesOK' /\ PidsUnique' /\ ProfileOK'
         /\ Owned' /\ OneConfig' /\ ProgramsFitDatabase'
<1>1. procs' = procs \ {p} /\ UNCHANGED <<storage, config, policies, runtime, cmd>>
  BY DEF Exit
<1>2. CommandOK' /\ ProcessesOK' /\ PidsUnique' /\ Owned' /\ OneConfig'
  BY <1>1, FewerProgramsInv
<1> QED
  BY <1>1, <1>2 DEF NodeInv, ProfileOK, ProgramsFitDatabase, storage

\* What memoryd and indexd store leaves the control state and the settings alone.
LEMMA ProfileSame ==
  ASSUME NodeInv, UNCHANGED profile, meta' = meta
  PROVE  /\ CommandOK' /\ ProcessesOK' /\ PidsUnique' /\ ProfileOK'
         /\ Owned' /\ OneConfig' /\ ProgramsFitDatabase'
<1>1. UNCHANGED <<config, policies, runtime, procs, cmd>>
  BY DEF profile
<1>2. CommandOK' /\ ProcessesOK' /\ PidsUnique' /\ ProfileOK' /\ ProgramsFitDatabase'
  BY <1>1 DEF NodeInv, CommandOK, ProcessesOK, PidsUnique, ProfileOK, ProgramsFitDatabase
<1>3. Owned' /\ OneConfig'
  BY <1>1 DEF NodeInv, Owned, Remaining, OneConfig, PidsOf
<1> QED BY <1>2, <1>3

\* Every step of cam and of the programs keeps the invariant.
LEMMA NodeStep == NodeInv /\ [Next]_vars => NodeInv'
<1> SUFFICES ASSUME NodeInv, [Next]_vars PROVE NodeInv'
  OBVIOUS
<1>1. StorageInv'
  BY NodeStorageStep, StorageStepInv DEF NodeInv
<1>2. CASE \/ \E o \in Settings : EditSettings(o)
           \/ \E p \in Peers : PeerAdd(p) \/ PeerRemove(p)
  BY <1>1, <1>2, ConfigInv DEF NodeInv
<1>3. CASE ProfileRemove
  BY <1>1, <1>3, ProfileRemoveInv DEF NodeInv
<1>4. ASSUME NEW withSync \in BOOLEAN, UpBegin(withSync) PROVE NodeInv'
  BY <1>1, <1>4, UpBeginInv DEF NodeInv
<1>5. CASE UpStart
  BY <1>1, <1>5, UpStartInv DEF NodeInv
<1>6. CASE UpContinue \/ UpGiveUp \/ UpSave
  BY <1>1, <1>6, UpInv DEF NodeInv
<1>7. CASE StopBegin
  BY <1>1, <1>7, StopBeginInv DEF NodeInv
<1>8. CASE StopNext
  BY <1>1, <1>8, StopNextInv DEF NodeInv
<1>9. CASE StopEnd
  BY <1>1, <1>9, StopEndInv DEF NodeInv
<1>10. ASSUME NEW p \in procs, Start(p) \/ Serve(p) \/ Exit(p) PROVE NodeInv'
  BY <1>1, <1>10, StartInv, ServeInv, ExitInv DEF NodeInv
<1>11. ASSUME NEW p \in procs, NEW x \in Units, StoreUnit(p, x) \/ IndexUnit(p, x)
       PROVE  NodeInv'
  <2>1. UNCHANGED profile /\ meta' = meta
    BY <1>11 DEF StoreUnit, InsertUnit, IndexUnit, Embed
  <2> QED BY <1>1, <2>1, ProfileSame DEF NodeInv
<1>12. CASE UNCHANGED vars
  <2>1. UNCHANGED profile /\ meta' = meta
    BY <1>12 DEF vars, profile
  <2> QED BY <1>1, <2>1, ProfileSame DEF NodeInv
<1> QED
  BY <1>2, <1>3, <1>4, <1>5, <1>6, <1>7, <1>8, <1>9, <1>10, <1>11, <1>12 DEF Next

\* So it holds at any time.
LEMMA NodeAlways == Spec => []NodeInv
  BY NodeInitInv, NodeStep, PTL DEF Spec

(***************************************************************************)
(* The theorems.                                                           *)
(***************************************************************************)

\* Whatever programs with whatever settings have opened the database, both
\* indexes have the settings the metadata names, and the vectors its dimension.
THEOREM IndexesAlwaysFollow == Spec => []IndexesFollowSettings
<1>1. NodeInv => IndexesFollowSettings
  BY DEF NodeInv, StorageInv
<1> QED BY <1>1, NodeAlways, PTL

\* No migration loses a unit that is neither embedded nor queued.
THEOREM NothingIsForgotten == Spec => []NothingForgotten
<1>1. NodeInv => NothingForgotten
  BY DEF NodeInv, StorageInv
<1> QED BY <1>1, NodeAlways, PTL

\* However Up fails and whatever exits meanwhile, a program that runs is
\* recorded where Stop or the running command finds it.
THEOREM ServicesAlwaysAccounted == Spec => []ServicesAccounted
<1>1. NodeInv => ServicesAccounted
  BY DEF NodeInv, ServicesAccounted, Owned, Remaining, CommandOK, IsStarting, IsStopping, InHand
<1> QED BY <1>1, NodeAlways, PTL

\* The programs that run have the settings of the database, and the services
\* that meet peers have a policy for each.
THEOREM ProgramsAlwaysFit == Spec => []ProgramsFitDatabase
<1>1. NodeInv => ProgramsFitDatabase
  BY DEF NodeInv
<1> QED BY <1>1, NodeAlways, PTL

\* Every variable has its type, and no two programs share a pid.
THEOREM NodeTypes == Spec => []TypeOK
<1>1. NodeInv => TypeOK
  <2> SUFFICES ASSUME NodeInv PROVE TypeOK
    OBVIOUS
  <2>1. StorageTypeOK
    BY DEF NodeInv, StorageInv
  <2>2. ASSUME NEW list, IsServices(list)
        PROVE  \A i \in DOMAIN list : list[i].name = Services[i] /\ list[i].pid \in Pids
    <3>1. \A i \in DOMAIN list : i \in 1 .. Len(list)
      BY <2>2 DEF IsServices
    <3>2. \A i \in DOMAIN list : list[i] \in [name : Names, pid : Pids]
      BY <2>2, <3>1, ElementOfSeq DEF IsServices
    <3> QED BY <2>2, <3>2 DEF IsServices
  <2>3. IsServices(runtime) /\ (cmd # NoCommand => IsServices(cmd.list))
    BY DEF NodeInv, CommandOK, IsStarting, IsStopping
  <2>4. \A list \in {runtime} \cup (IF cmd = NoCommand THEN {} ELSE {cmd.list}) : IsServices(list)
    BY <2>3
  <2>5. \A list \in {runtime} \cup (IF cmd = NoCommand THEN {} ELSE {cmd.list}) :
            \A i \in DOMAIN list : list[i].name = Services[i] /\ list[i].pid \in Pids
    BY <2>2, <2>4
  <2> QED
    BY <2>1, <2>5 DEF NodeInv, ProcessesOK, PidsUnique, ProfileOK, TypeOK
<1> QED BY <1>1, NodeAlways, PTL
=============================================================================
