-------------------------------- MODULE Node --------------------------------
(***************************************************************************)
(* A profile of cam on one machine (internal/cam, cmd/memoryd, cmd/indexd, *)
(* cmd/syncd, internal/policy): the config file, the runtime file, the     *)
(* programs that run in the background and the command cam is executing.   *)
(* Up starts memoryd, indexd and, if asked to, syncd one after the other   *)
(* and then writes their pids to the runtime file; Stop ends what is       *)
(* recorded there.  Each program reads the config file and migrates the    *)
(* database (Storage) when it starts, and may stop at any time.            *)
(*                                                                         *)
(* One operator is modelled, who runs one command at a time, lets it end   *)
(* and starts no program by hand; a pid is not given to another process    *)
(* while it is recorded; a program has read the config file before Up      *)
(* looks whether it is there, 300 ms after it was started; and an Up that  *)
(* fails may signal what it has started itself.                            *)
(***************************************************************************)
EXTENDS Storage, Sequences

CONSTANTS
    Peers   \* peers that may be in cfg.PeerRegistry

VARIABLES
    config,    \* the config file: [settings, peers]
    policies,  \* the peers 'allow'ed in peer_policies
    runtime,   \* the services of the runtime file, <<>> when there is none
    procs,     \* the processes: [pid, name, state, settings, peers]
    cmd        \* the cam command that is running

profile == <<config, policies, runtime, procs, cmd>>
vars == <<schema, meta, units, fts, vec, emb, rqueue, config, policies, runtime, procs, cmd>>

Services == <<"memoryd", "indexd", "syncd">>

NoCommand == [pc |-> "none"]

Pids == 1 .. 2 * Len(Services)
PidsOf(list) == {list[i].pid : i \in DOMAIN list}
Alive(pid) == \E p \in procs : p.pid = pid
Serves(p, name) == p.name = name /\ p.state = "up"

\* The services in the hands of the command that is running.
InHand == IF cmd.pc \in {"start", "wait", "stop"} THEN PidsOf(cmd.list) ELSE {}

FreshPid == CHOOSE n \in Pids :
                ~Alive(n) /\ n \notin PidsOf(runtime) \cup InHand

(***************************************************************************)
(* The config file.                                                        *)
(***************************************************************************)
EditSettings(o) ==
    /\ cmd = NoCommand
    /\ config' = [config EXCEPT !.settings = o]
    /\ UNCHANGED <<storage, policies, runtime, procs, cmd>>

\* PeerAdd and PeerRemove change the config file and nothing else.
PeerAdd(p) ==
    /\ cmd = NoCommand
    /\ config' = [config EXCEPT !.peers = @ \cup {p}]
    /\ UNCHANGED <<storage, policies, runtime, procs, cmd>>

PeerRemove(p) ==
    /\ cmd = NoCommand
    /\ p \in config.peers
    /\ config' = [config EXCEPT !.peers = @ \ {p}]
    /\ UNCHANGED <<storage, policies, runtime, procs, cmd>>

\* ensureConfig: a config file without peers.
NewConfig == [settings : Settings, peers : {{}}]

\* Only memoryd, the first service of the list, is looked at.
AnyRunning_FirstOnly == runtime # <<>> /\ Alive(runtime[1].pid)

\* Up refuses when any recorded pid is alive, and so does ProfileRemove.
AnyRunning == \E pid \in PidsOf(runtime) : Alive(pid)

\* ProfileRemove: the directories with the config file, the database and the
\* runtime file.  The next command makes a new config file.
ProfileRemove ==
    /\ cmd = NoCommand
    /\ ~AnyRunning
    /\ config' \in NewConfig
    /\ StorageRemoved
    /\ policies' = {} /\ runtime' = <<>>
    /\ UNCHANGED <<procs, cmd>>

(***************************************************************************)
(* cam up.                                                                 *)
(***************************************************************************)

\* Up removes the runtime file, and goes on when nobody listens on
\* the ports of the programs it is to start.
UpBegin(withSync) ==
    LET wanted == IF withSync THEN Services ELSE <<"memoryd", "indexd">>
    IN  /\ cmd = NoCommand
        /\ ~AnyRunning
        /\ runtime' = <<>>
        /\ cmd' = IF \E p \in procs, i \in DOMAIN wanted : p.name # "indexd" /\ Serves(p, wanted[i])
                  THEN NoCommand
                  ELSE [pc |-> "start", list |-> <<>>, wanted |-> wanted]
        /\ UNCHANGED <<storage, config, policies, procs>>

\* startDetachedProcess
UpStart ==
    /\ cmd.pc = "start"
    /\ Len(cmd.list) < Len(cmd.wanted)
    /\ LET name == cmd.wanted[Len(cmd.list) + 1]
       IN  /\ procs' = procs \cup {[pid |-> FreshPid, name |-> name, state |-> "new",
                                    settings |-> config.settings, peers |-> config.peers]}
           /\ cmd' = [cmd EXCEPT !.pc = "wait",
                                 !.list = Append(@, [name |-> name, pid |-> FreshPid])]
    /\ UNCHANGED <<storage, config, policies, runtime>>

Latest == cmd.list[Len(cmd.list)]

\* waitForHealth asks whoever answers at memoryd's address; the others are
\* only signalled, once, and one that has exited may still take the signal,
\* as cam has not waited for its child.
Healthy == Latest.name = "memoryd" => \E p \in procs : Serves(p, "memoryd")

UpContinue ==
    /\ cmd.pc = "wait"
    /\ Healthy
    /\ cmd' = [cmd EXCEPT !.pc = "start"]
    /\ UNCHANGED <<storage, config, policies, runtime, procs>>

Stopping(list, record) == [pc |-> "stop", list |-> list, record |-> record]

\* memoryd is waited for as long as it runs.
Failed_NoDeadline == cmd.pc = "wait" /\ ~Alive(Latest.pid)

\* memoryd has not become healthy within 15 s, or a later service is seen to
\* have exited already.
Failed == cmd.pc = "wait" /\ (Latest.name = "memoryd" \/ ~Alive(Latest.pid))

\* The error of a service that does not come up is returned at once.
UpGiveUp_LeavesRunning ==
    /\ Failed \/ cmd.pc = "start"
    /\ cmd' = NoCommand
    /\ UNCHANGED <<storage, config, policies, runtime, procs>>

\* stopServices on what was started, also when the next binary cannot be
\* started or the runtime file cannot be written.
UpGiveUp ==
    /\ Failed \/ cmd.pc = "start"
    /\ cmd' = Stopping(cmd.list, FALSE)
    /\ UNCHANGED <<storage, config, policies, runtime, procs>>

\* SaveRuntime, when all are started.
UpSave ==
    /\ cmd.pc = "start" /\ cmd.list # <<>> /\ Len(cmd.list) = Len(cmd.wanted)
    /\ runtime' = cmd.list
    /\ cmd' = NoCommand
    /\ UNCHANGED <<storage, config, policies, procs>>

(***************************************************************************)
(* cam stop.                                                               *)
(***************************************************************************)
StopBegin ==
    /\ cmd = NoCommand
    /\ runtime # <<>>
    /\ cmd' = Stopping(runtime, TRUE)
    /\ UNCHANGED <<storage, config, policies, runtime, procs>>

\* stopServices, for the last of the services that are left: the process ends
\* by itself or is killed after the grace period.  One of the runtime file that
\* may not be signalled goes on; the others are still stopped.
StopNext ==
    LET rest == SubSeq(cmd.list, 1, Len(cmd.list) - 1)
    IN  /\ cmd.pc = "stop" /\ cmd.list # <<>>
        /\ \/ /\ procs' = {p \in procs : p.pid # Latest.pid}
              /\ cmd' = Stopping(rest, cmd.record)
           \/ /\ runtime # <<>>
              /\ cmd' = Stopping(rest, FALSE)
              /\ UNCHANGED procs
        /\ UNCHANGED <<storage, config, policies, runtime>>

\* The runtime file goes last, and is kept when a process could not be stopped.
StopEnd ==
    /\ cmd.pc = "stop" /\ cmd.list = <<>>
    /\ runtime' = IF cmd.record THEN <<>> ELSE runtime
    /\ cmd' = NoCommand
    /\ UNCHANGED <<storage, config, policies, procs>>

(***************************************************************************)
(* The programs.                                                           *)
(***************************************************************************)
Become(p, state) == procs' = (procs \ {p}) \cup {[p EXCEPT !.state = state]}

\* main: the migrations, with the settings of the config file.
Start(p) ==
    /\ p.state = "new"
    /\ Migrate(p.settings)
    /\ Become(p, "migrated")
    /\ UNCHANGED <<config, policies, runtime, cmd>>

\* SyncRegistry of memoryd and syncd upserts a row for every peer.
SyncRegistry(p) == IF p.name = "indexd" THEN policies ELSE policies \cup p.peers

\* and then the service itself; a program whose port is taken exits.
Serve(p) ==
    /\ p.state = "migrated"
    /\ policies' = SyncRegistry(p)
    /\ IF p.name # "indexd" /\ \E q \in procs : Serves(q, p.name)
       THEN procs' = procs \ {p} ELSE Become(p, "up")
    /\ UNCHANGED <<storage, config, runtime, cmd>>

\* A program exits: a migration that fails, a key that cannot be read, a crash.
Exit(p) ==
    /\ procs' = procs \ {p}
    /\ UNCHANGED <<storage, config, policies, runtime, cmd>>

\* A request stores something at memoryd.
StoreUnit(p, u) ==
    /\ Serves(p, "memoryd")
    /\ InsertUnit(u)
    /\ UNCHANGED profile

IndexUnit(p, u) ==
    /\ Serves(p, "indexd")
    /\ Embed(u, p.settings.dim)
    /\ UNCHANGED profile

(***************************************************************************)
(* The specification.                                                      *)
(***************************************************************************)
Init ==
    /\ StorageInit
    /\ config \in NewConfig
    /\ policies = {} /\ runtime = <<>> /\ procs = {} /\ cmd = NoCommand

Next ==
    \/ \E o \in Settings : EditSettings(o)
    \/ \E p \in Peers : PeerAdd(p) \/ PeerRemove(p)
    \/ ProfileRemove
    \/ \E withSync \in BOOLEAN : UpBegin(withSync)
    \/ UpStart \/ UpContinue \/ UpGiveUp \/ UpSave
    \/ StopBegin \/ StopNext \/ StopEnd
    \/ \E p \in procs : \/ Start(p) \/ Serve(p) \/ Exit(p)
                        \/ \E u \in Units : StoreUnit(p, u) \/ IndexUnit(p, u)

Spec == Init /\ [][Next]_vars

\* The steps of a command follow one another.  Programs are not fair: they
\* may never come up, and never exit.
FairSpec == Spec /\ WF_vars(UpStart \/ UpContinue \/ UpGiveUp \/ UpSave \/ StopNext \/ StopEnd)

(***************************************************************************)
(* Properties.                                                             *)
(***************************************************************************)
IsProcess(p) ==
    /\ DOMAIN p = {"pid", "name", "state", "settings", "peers"}
    /\ p.pid \in Pids /\ p.name \in {"memoryd", "indexd", "syncd"}
    /\ p.state \in {"new", "migrated", "up"}
    /\ p.settings \in Settings /\ p.peers \subseteq Peers

\* Every variable has its type, no pid runs twice, and the lists of services
\* are in the order Up starts them.
TypeOK ==
    /\ StorageTypeOK
    /\ config \in [settings : Settings, peers : SUBSET Peers]
    /\ policies \subseteq Peers
    /\ \A p \in procs : IsProcess(p)
    /\ \A p, q \in procs : p.pid = q.pid => p = q
    /\ \A list \in {runtime} \cup (IF cmd = NoCommand THEN {} ELSE {cmd.list}) :
           \A i \in DOMAIN list : list[i].name = Services[i] /\ list[i].pid \in Pids

\* A program that runs is recorded in the runtime file, so that Stop ends it,
\* or in the hands of the command that is running, whatever has failed or
\* exited on the way (Up, Stop).
ServicesAccounted == \A p \in procs : p.pid \in PidsOf(runtime) \cup InHand

\* A program that has migrated the database runs with the settings it has: the
\* worker's vectors fit the table and memoryd's searches the indexes, also
\* after the config file was edited while older programs were still running.
\* The peers of a running syncd or memoryd have their policies.
ProgramsFitDatabase ==
    \A p \in procs :
        /\ p.state # "new" => p.settings = meta
        /\ p.state = "up" /\ p.name # "indexd" => p.peers \subseteq policies

\* Up and Stop come to an end, whatever the programs do: a service that exits
\* before it was seen, or never answers, does not keep Up waiting.
CommandsEnd == cmd # NoCommand ~> cmd = NoCommand
=============================================================================
