# A TLA+ model of Netmeld

Netmeld is a suite of command-line tools that share two repositories: a *data
lake* of raw files and a *data store* (PostgreSQL) of processed records. Four
parts run concurrently or survive failures by design; the largest part, the
importers, is sequential and hard for another reason: each keeps state from one
line of its file to the next, and every table it fills may drop a row silently.

| Part | What is hard | Modules |
| --- | --- | --- |
| `nmdb-playbook` | a tree of threads around one command runner, guards that are undone in other threads, restart after a crash | `HostNetwork`, `PlaybookPlan`, `Playbook`; proofs in `Inductions`, `PlanProofs`, `PlaybookProofs`, `PlaybookTestProofs`, `PlaybookHostProofs` |
| `nmdb-import-tshark` | a parser thread and a saving thread around one queue, one transaction per packet, live streams | `Ingest`, `TsharkImport`, `TsharkProofs` |
| the data lake tools | several processes in one git working tree, sequences of commands whose results nobody looks at | `Lake`, `Datalake`, `DatalakeProofs` |
| forty-two importers | parser state that outlives its block, order of lines, keys that swallow rows, references between what is stored | `FileImport`, `ImportProperties` and the modules under them |
| `clw` with `nmdb-import-clw` | a poll loop between a terminal, a pipe and a child; import tools as further processes with transactions of their own | `RunStore`, `ClwCapture`, `Clw`, `ClwProofs` |

Paths below are relative to `src/`. `PROJECT.json` maps every definition to the
lines it models; `tlc -config <cfg> <module>` repeats a run and
`tlapm <module>Proofs.tla` repeats the proofs.

## 1. Inventory

### Components

| Component | State it keeps | Operations | Talks to | What makes it correct |
| --- | --- | --- | --- | --- |
| **nmdb-playbook** (`playbook/nmdb-playbook`) | the loaded playbook (stage, interface, VLAN, MAC, source), the command runner's `execute` flag and command counter, `coutMutex`, `stageEnabled` per thread; in the data store `is_completed` of each source and `playbook_runtime_errors` | load, start and join threads, RAII set-up and clean-up of VLAN, MAC, link, address and route, plays per phase, disabling, completion | the host through `std::system`, the data store, the user | scans run on the link they are meant for; everything is deconfigured; a dry run does nothing; disabling has the extent asked for; completed means scanned; it returns |
| **nmdb-import-tshark** (`datastore/importers/nmdb-import-tshark`) | the queue of `DataContainerSingleton`, the parser's future, the stop time; in the data store the tool run and packets | parse, push, drain, save, finish | tshark through a file or a pipe, the data store | no packet lost, repeated or reordered; success means stored; live data is stored while it arrives |
| **Data lake** (`datalake/`) | one git repository: branch, HEAD, index, working tree | initialize, insert, remove, remove permanently, list at a time | git through the shell, other users' tools through the shared directory | a listing of a time shows that time; the past changes only by permanent removal, and that leaves nothing; what is committed stays |
| **Data lake entries** (`datalake/common/objects`) | a record: device, name, new name, ingest tool and arguments | getters, setters, the ingest command line | used by the handler and the tools | the name used to save is the name used to list |
| **Core tool life cycle** (`core/common/tools`, `utils`) | options, the tool's name | start, catch-all exit, `cmdExec`, `ForkExec` | every tool | an exception ends the tool with a failure |
| **Core objects** | value types (addresses, time, UUID) | conversions | everything | stateless |
| **Datastore import tools** (`datastore/common/tools`, `parsers`) | one transaction per run, the parse results | parse, general inserts, specific inserts, commit or abort | data store, all importers | all or nothing; the tool run before its results; an abort loses nothing |
| **Datastore objects** (`datastore/common/objects`) | records with an `isValid` and a `save` | set, merge, save | importers | nothing that was set is dropped on the way to a statement |
| **Other importers** (`datastore/importers`) | a parser's members: the current block, interface, table, rule; the results so far | one step per line, element or frame; the end of the file | import tool | what is stored under a name was read under it; order of rules; no row lost; no reference left open |
| **Schemas and views** (`datastore/common/schemas`) | tables, keys, references | insert with `ON CONFLICT`, cascade | all data store tools | referential integrity; a key does not swallow a different row |
| **nmdb-remove-tool-run** | none | one cascading delete | data store | nothing of the run remains, also while its import goes on |
| **nmdb-initialize**, **nmdb-convert-acls**, **nmdb-analyze-data**, inserters, exporters, graphers | none of their own | one pass over the data store | data store | listed one by one in `PROJECT.json` |
| **Playbook inserters**, **nmdb-playbook-nessus** | rows of the playbook tables | insert | data store | the keys `Playbook` assumes of its rows |
| **tool-clw** (`tool-clw/clw`) | a child process, its terminal and pipe, the files of the record | record, run, poll, copy, wait, import | child, user, `nmdb-import-clw` | no output lost; the record is final when it is imported; it ends when the command does |
| **Fetchers**, **password decoders**, build and packaging | none | pure I/O or pure functions | ssh, ansible | - |

### How the parts interact

* Most tools never call each other. They meet in the data store (one tool's
  committed rows are the next one's input) and in the data lake's directory.
* `clw` is the exception: it forks the command, waits for it, and forks
  `nmdb-import-clw`, which starts other import tools one after the other. These
  use connections of their own and write rows that refer to the tool run the
  parent process inserted.
* An importer's `main` hands a file to a grammar (Spirit), whose actions change
  the parser's members; the grammar's value goes through `save` of the objects to
  prepared statements of one transaction.
* Inside `nmdb-playbook`, main starts one thread per physical interface, each of
  these one per VLAN and one for direct testing. All of them hand command lines
  to `CommandRunnerSingleton` while they hold `coutMutex`; all of them change its
  `execute` flag while they do not.
* Inside `nmdb-import-tshark`, the parser thread pushes to a thread-safe queue,
  the main thread takes from it. They also share the `std::future`.
* The data lake tools share a directory, HEAD and the index, and no lock but the
  one git takes for the time of one command.

### Behaviours that are hard

`PROJECT.json` lists each hazard with its line. In short: interleavings around
the runner's flag and counter; joins and guards in two nested loops, whose order
is what keeps the network tests apart; completion that has to be recorded
neither too early nor too late for a crash; a flag that is switched in four
places; the end of a stream decided from two facts read at different times;
data store failures after a first commit; a process that ends the other thread's
work with `std::exit`; a reader that moves HEAD under a writer; five shell
commands in a row of which any can fail; members of a parser that survive the
block they belong to; a global setting that comes after the interfaces it is
about; rows of one key that differ in other columns; a result that looks like no
result; a hang-up that overtakes the last output; processes that wait on each
other through a terminal and through locks of the data store.

## 2. The modules

```
HostNetwork <- PlaybookPlan <- Playbook <- MCPlaybook
Inductions <- PlanProofs <- PlaybookProofs <- PlaybookTestProofs <- PlaybookHostProofs
              (PlanProofs extends PlaybookPlan, PlaybookProofs extends Playbook)

Ingest   <-(implements)- TsharkImport  <- MCTshark
                                       <- TsharkProofs
Lake     <-(implements)- Datalake      <- MCDatalake
                                       <- DatalakeProofs
RunStore <-(implements)- Clw           <- MCClw
         ClwCapture <- Clw             <- ClwProofs

Text, IpNet <- Statements <- Schema <- Datastore <------------------- FileImport
               Statements <- Objects <- parsers <- ImportTools <----- FileImport
FileImport <- ImportProperties <- MCImports -> MCImportLines

parsers: ProbeParsers <- HostParsers, NeighborParsers, RouteParsers, ScanParsers,
         DeviceParsers <- CiscoAccess <- CiscoParser, JuniperParsers;
         FirewallParsers <- JuniperXml;  Objects <- AwsObjects <- AwsDocuments
```

### HostNetwork, PlaybookPlan, Playbook

`HostNetwork` is external: what `ip`, `sysctl` and `macchanger` do to links,
addresses and routes of the host, limited to what the playbook's commands and
checks tell apart. A rejected command changes nothing. `up` is the carrier
*and* administrative state that `ifaceIsDown` asks for.

`PlaybookPlan` is the work of a run as data. The threads' control flow does not
depend on the result of any command (failures flip flags; they never change the
path), so the nested loops of `vlanIfaceThreadActions`, `physIfaceThreadActions`
and `runTool` and the guards' constructors and destructors flatten into one
sequence of steps per thread. One operator stands for each function, and they
are named alike: `sourceActions` is the loop body over the sources,
`networkActions`, `phaseActions` and `runPhaseCommands` are the functions of that
name, `RaiiVlan` and `UndoRaiiVlan` constructor and destructor. A *block* is the
scope of one `lock_guard` on `coutMutex`.

`Playbook` runs these sequences.

| Variable | Code |
| --- | --- |
| `proc`, `stage`, `pc`, `issued` | the process, `runTool`'s loop, the position of each thread, how far it is in its current block |
| `loaded`, `plan` | the rows `getPlaybookData` loads, and the nested maps it makes of them, flattened |
| `runnerExecute`, `commandIdNumber` | the members of `CommandRunnerSingleton` |
| `coutMutex` | the mutex |
| `stageEnabled` | the local variable of `phaseActions` |
| `running` | the children of `systemExec` and `threadExec` |
| `net` | the host |
| `completed`, `errors` | `is_completed`, `playbook_runtime_errors` |
| `script`, `ran`, `failed`, `budget` | history and bounds, no code |

| Action | Code |
| --- | --- |
| `Start`, `StageBegin`, `StageQuit`, `StageEnd` | `runTool`, with its Y/Q prompt |
| `SpawnThread`, `JoinThread` | `std::thread`, `join` |
| `Lock`, `SystemExec`, `StartPlay`, `PlayOk`, `PlayFails`, `Unlock` | a block; sets with an `on-fail` run one play after another (`systemExec`), the others all at once (`threadExec`) |
| `BeginSession`, `EndSession` | `networkActions` before and after `phaseActions` |
| `DisableSkippedSet`, `CheckPhase`, `CheckAborts`, `EndPhase` | the updates of the flag in `phaseActions` and `runPhaseCommands`; the insert of a runtime error that violates its foreign key |
| `Complete` | the `..._set_completed` statement |
| `Crash`, `Flap` | environment: the process dies; a link or an address goes away while a play runs |

### Ingest, TsharkImport

`Ingest` is what a user may rely on: records become visible one by one in the
order they arrived, none twice and none without the tool run they belong to, and
success is reported only when the input has ended and everything is stored.

`TsharkImport` is the program. A packet is its number; times are counted in
packets read. `ParsePacket` and the three endings are the parser thread.
The main thread is `StartParser`, `ParseData` (with the `get()` that re-throws for
a file), `Inserts` (the first transaction), `Connect`, and the loop of
`specificInserts`: `HasData`, `CountData` and `TakeData` (the queue's size is read
once and then that many are taken, in separately locked calls), `SaveResult` (one
transaction each), `WaitForParser` (`wait_for`), `CheckDone`. `Leave` is the
destructor of the future with `--tool-run-metadata`. `DataStoreFails` is an
exception out of pqxx, which `AbstractTool::start` turns into an exit;
`Interrupt` is SIGINT, whose first arrival a piped import ignores.

The refinement mapping reads `arrived` off `seen`, `ended` off the parser,
`registered` off the tool run, and the outcome off where the process ended.

### Lake, Datalake

`Lake` is a store with a time axis: `asOf[t]` is what a user sees who asks for
time `t`. A caller makes a request (`Ask`), which says what is to be stored or
removed; it is then carried out as asked and once (`Put`, `Remove`, `Purge`) or
dropped with nothing changed (`Drop`). Put and Remove change the present and what
follows; only Purge changes the past.

`Datalake` has one process per slot; each shell command of `Git.cpp` is one
action (`Copy`, `GitAdd`, `GitCommit`; `GitRm`; `FilterBranch`, `DeleteBackup`,
`Gc`; `ShowCurrent`, `AlignRepo`, `Walk`, `ReadLog`, `Restore`; `RemoveLake`,
`CreateLake`, `GitInit`). What a command does is git's: `Checkout` refuses to
overwrite changes that are not committed, `git rm` refuses on a modified file,
`filter-branch` refuses on an unclean tree or when `refs/original` is in use and
fails after deleting the ref when no commit is left, `rev-list --before`
includes the second itself, a commit that changes nothing is refused. These are
marked external. `undo` holds the trees only reflogs, `refs/original` or loose
objects reach. `LockHeld` is a command that finds another one's `index.lock`.

`ReadByGit` is the conversion of a listing's time. It is printed without a zone
and git reads it as local time. That is what a user meant who gave it; the
default is the present taken in UTC (`nmdl-list.cpp:89`, `Time.cpp:31`), so git
reads a time that lies `Ahead` before it. The default is also never printed as
"infinity", so every plain listing detaches HEAD.

The refinement mapping: `now` is the clock, `asOf[t]` the tree of the newest
commit of the branch not after `t`, and `request[s]` what tool `s` was asked to do,
up to the command that does it or fails (`Asked`). So a commit of `nmdl-insert`
with another file, another content or a second change is no step of `Lake`.

### The importers

`FileImport` is `AbstractImportTool::runTool` for any tool and any file.

| Variable | Code |
| --- | --- |
| `tool` | which program is run |
| `read` | the lines (elements, frames, items) the grammar was given so far |
| `parser` | the members of the tool's `Parser`, with its results |
| `made` | the statements the tool is going to execute (history) |
| `db` | the rows of the data store |
| `outcome` | how far `runTool` is, and how it ended |

| Action | Code |
| --- | --- |
| `ReadLine` | one line matched by the grammar, with all the actions attached to it |
| `Reject` | `fromFilePath`: what is left of the input ends the program before it connects |
| `Parsed` | the grammar's value: what `generalInserts` and `specificInserts` will ask for |
| `Import` | the transaction: statement by statement up to one that is refused; abort, or commit |

A line is a record whose field `k` says which rule of the grammar it matches, the
other fields being what the rule's actions are given. So the spelling of a line is
left out and the grammar's order of alternatives, the state each action reads and
the state it leaves are kept. XML, JSON and AWS documents are read element by
element or item by item in the order of the code's loops; a capture frame by frame.

| Module | Code |
| --- | --- |
| `Text`, `IpNet` | lower case; `IpAddress` and `IpNetwork`: prefix from mask, network, which are stored |
| `Statements` | `QueriesCommon.cpp`: table, what happens to a parameter, what happens on conflict |
| `Schema`, `Datastore` | keys, references, checks, cascades; one statement executed on a set of rows |
| `Objects`, `AwsObjects` | `isValid`, setters that change a value, `save`, for each class of `common/objects` |
| `ProbeParsers` | ping, traceroute, hosts, dig |
| `HostParsers` | ip address and route, ipconfig, package lists (apk, rpm, dpkg) |
| `NeighborParsers` | MAC tables, neighbours, CDP, inventory, Arista |
| `RouteParsers` | routes of Cisco, Juniper and Brocade |
| `DeviceParsers` | Brocade, PowerConnect, wireless, VyOS, iptables |
| `ScanParsers` | nmap, Nessus, Prowler, packet captures |
| `CiscoAccess`, `CiscoParser` | a Cisco configuration with access lists and object groups |
| `JuniperParsers`, `JuniperXml` | Juniper configurations in both notations; XML answers |
| `FirewallParsers` | F5 and Palo Alto |
| `AwsDocuments` | nine kinds of AWS documents |
| `ImportTools` | which parser, vendor and inserts belong to which tool |

`ImportProperties` says what is right about a finished import of any tool. It
compares the rows of the data store with the *lines of the file*, never with
what the parser made of them, so that a parser that files a line wrongly is caught.

### RunStore, ClwCapture, Clw

`RunStore` is what a user may rely on for a tool run: recorded before anything
about it, each part whole and once, a removal takes all of it.

`ClwCapture` is `clw`. A stream keeps its order, so it is two counts: written and
read. A command is a record of what it will do: reads, writes, closing its
terminal, exit code.

| Action | Code (`clw.cpp`) |
| --- | --- |
| `RecordRun`, `Collect`, `CollectFails` | the child before `execvp`: the files of the record, `createConfigFiles`, `createNetworkFiles` |
| `ChildReads`, `ChildPrints`, `ChildWarns`, `ChildLeaves`, `ChildExits` | the command |
| `Poll`, `ReadInput`, `ForwardInput`, `InputForwarded`, `ForwardOutput`, `ForwardError` | the loop; writing to the terminal blocks unit by unit |
| `WaitForChild`, `Finish` | `waitpid`, the end of the record, the call of the importer |

`Clw` adds `nmdb-import-clw`, the tools it starts, `nmdb-remove-tool-run` at any
moment and failures of each process.

| Variable, action | Code |
| --- | --- |
| `importer`, `kid` | where `nmdb-import-clw` is, and the tool it has started |
| `tx`, `run`, `rows` | what is pending of each transaction; what is committed |
| `Import`, `GeneralInserts`, `SpecificInserts`, `StartTool`, `ToolEnded`, `Return` | `runTool` and `specificInserts`, which commits before it starts a tool |
| `Parse`, `InsertToolRun`, `InsertRows`, `RowsRefused`, `CommitRows` | an import tool with the id of the run, with or without `--tool-run-metadata` |
| `Remove` | the cascading delete, which waits while pending rows hold on to the run |
| `ImporterFails`, `ToolFails` | a process dies or the data store refuses |

The refinement mapping is `run` and `rows`; what is pending is invisible.

## 3. What is checked

| Run | Model | Shows |
| --- | --- | --- |
| `inter` | 4 sources, 2 stages, 2 interfaces, VLAN and direct testing, 2 MACs, up to 2 routers; 4 phases with every kind of `on-fail`, a skipped set and plays in parallel; executed with and without prompt, with excluded command, stages and phases, and dry | threads are serial; VLANs and interfaces are deconfigured; a disabled phase stays disabled; the numbers are those of the dry run |
| `intra` | 4 sources, 2 interfaces, up to three VLAN threads at once; plays that nothing disables; executed and dry | the mutex keeps the runner exclusive; a dry run has no effect; scans run on a configured link with the right default route; everything is deconfigured; every source completes; the tool returns |
| `recovery` | 2 sources in 2 stages, one crash at any step, one link or address lost, 2 starts, interface check off and on | completed sources were scanned and are not repeated; a runtime error ends its source's plays; the second run finishes the rest |
| `tshark` | up to 4 packets, file and pipe, metadata or not, every ending, failures at every data store access, signals | nothing lost; success is complete; stop time final; a bad file leaves nothing; live data is stored; the tool ends when its parser has; `Ingest` is refined |
| `datalake` | one tool at a time over 3 paths of 2 devices, 2 contents, 2 tools, 3 seconds, 3 commits, users one second ahead of UTC | listings of every given time are exact, and a plain listing is one of a second ago; permanent removal is permanent when data remains; `Lake` is refined: each tool does what it was asked, once, or nothing |
| `datalake_together` | 2 tools at once over 2 paths, kills between commands, purges of everything | what is on the branch stays, except for what a permanent removal names |
| `imports` | 42 tools, each with every file its shapes allow | see the next table |
| `clw` | every command of up to four reads, writes and closings of the terminal, with a user who types nothing, a little or more than fits; dialogues, filters and daemons; with more or less of the record on the host; every failure of the import and two removals of the run | what the log may miss; the import sees the final record; `RunStore` is refined; `clw` ends when its command does |

| Property of `imports` | What it says |
| --- | --- |
| `LossesAreKnown` | a key never swallows a row that differs in another column, but for the tables of the tools that `KnownLosses` names; the observations say when that happens |
| `AgainAddsNothing` | importing again into the same run adds nothing (or is refused as a whole: DNS resolvers) |
| `AbortLosesNothing` | when the result equals a default one, there was nothing to store |
| `RespondingIsJustified` | an address is responding if and only if something was heard from it or its interface is up |
| `AddressesUnderTheirInterface` | an address is stored under the interface whose block it was read in |
| `RoutesUnderTheirTable` | a route is stored with the table, routing instance and device of the last header before it |
| `RulesKeepTheirOrder` | rules of Cisco lists have consecutive numbers in the order of their lines |
| `RulesNameKnownObjects` | what a Cisco rule names is in a book of the zone it names it in |
| `GlobalsReachInterfaces` | a global setting holds for all interfaces without their own, whichever is read first |

Every property is violated when a line of the model is changed the way a slip in
the code would change it; `PROJECT.json` ("mutants") names the change for each.

### Disagreements with the documentation

Four runs end in a counterexample, each of one sentence of the repository:

| Run | Sentence | What happens |
| --- | --- | --- |
| `stage_disable` | "Signals failure will terminate further processing", "disable: stage" (`plays.yaml:20`) | the second of two command sets of a phase overwrites `stageEnabled` (`nmdb-playbook.cpp:986`), and the next phase runs; a set of a later phase does the same for the phase after it |
| `intra_shared_flag` | "automatically deconfigure network interfaces as soon as the relevant playbook scans are complete" (`nmdb-playbook/README.md:42`) | a failed play of one thread switches the shared flag off while another cleans up; its clean-up commands are counted and not executed |
| `datalake_wipe` | "shall remove the data without the possibility to undo" (`nmdl-remove/README.md:13`) | a purge of the only data ends in the middle of the `&&` chain: the file and the old objects remain and the next insert commits it again |
| `datalake_lost` | "utilized to insert new data into the data lake" (`nmdl-insert/README.md:4`) | during any `nmdl-list` HEAD is detached; a commit of another user in that time is on no branch afterwards |

A fifth sentence needs no run of its own, as `ListingIsExact` states what the code
does instead: "This value defaults to "infinity", which implies use the latest
version of data" (`nmdl-list/README.md:11-12`). In run `datalake` users are one second
ahead of UTC, and every plain listing is the lake of one second before its start,
without what was checked in since; east of Greenwich these are hours.
Theorem `LatestListed` shows when the sentence is true (`LatestIsListed`): where local
time is not ahead of UTC.

In the passing runs these situations are present as far as the property allows:
`inter` has failing plays with `stage` (the property there is about phases);
`intra` has plays that cannot fail, because the flag is what breaks it;
`datalake` has purges except the one that empties the history (`Wipes`), which
`datalake_together` includes.

### Observations

Seen while modelling; no run is devoted to them. The models contain the
behaviour, except where the line says so and where the code does not end or reads
what is not there.

Playbook:

* In parallel intra-network runs the command numbers follow the interleaving,
  so an excluded number may mean another command than the dry run printed.
  `NumberingIsReproducible` therefore belongs to `inter`.
* "Ignore unexpected interface state changes" (`plays.yaml:6`): the option switches
  the check on (`nmdb-playbook.cpp:968`).
* VLAN 4095 is refused by the constructor of `RaiiVlan` and not by its destructor
  (`RaiiVlan.cpp:68`), which issues `ip link del` without a name; it fails and
  changes nothing.
* `playbook_runtime_errors` has foreign keys to both source tables. A runtime
  error of a source that is in one of them throws in a `std::thread`
  (`nmdb-playbook.cpp:1093`) and ends the process without clean-up: `CheckAborts`.
* After a crash, addresses and links of the interrupted source stay, and the next
  run only warns (`nmdb-playbook.cpp:842`).
* The prompt of a stage repeats for ever at the end of standard input
  (`nmdb-playbook.cpp:382`).
* Not modelled: `"playbook-window" + commandIdNumber` adds to a pointer
  (`CommandRunnerSingleton.cpp:171`); `commandTitlePrefix` is written by every VLAN
  thread without a lock (`nmdb-playbook.cpp:728`).

tshark and the data lake:

* "as a complete packet is seen by the tool, it will process and store the data"
  (`nmdb-import-tshark/README.md:9`): bytes after the packet array make the parser
  thread call `std::exit` (`ParserHelper.hpp:104`) with packets still queued.
* A second SIGINT or a kill leaves a run whose stop time is earlier than its last
  packet (`nmdb-import-tshark.cpp:229`).
* Data inserted again with another `--tool` changes no file, makes no commit and
  keeps its old tool (`Git.cpp:234`).
* An interrupted `nmdl-list` leaves HEAD detached, and later listings
  are refused (`Git.cpp:76`). `git add .` of a later insert also commits what an
  interrupted insert copied, under the wrong check-in line.
* The ingest script for an earlier time names files of the present tree
  (`nmdl-list.cpp:162`).

clw:

* After the terminal hangs up each stream is read once, at most `bufferSize`
  (160) bytes (`clw.cpp:405-468`): a longer tail is lost. `LostOnlyAtHangUp` is
  the exact promise.
* Writing to the terminal blocks. A filter that prints more than it reads, with
  its output full, and `clw` with more input to write wait on each other. The
  parent keeps the writing end of the error pipe, so a daemon that closes its
  terminal and goes on with more errors than the pipe holds is waited for
  forever. These are the conditions of `Harmless`.
* The end of standard input is never passed on: `clw cat < file` does not end.
* "Return the child's return value" (`clw.cpp:506-507`): it returns the status of
  `waitpid`, 256 times the exit code, of which the system keeps 0.
* `nmdb-import-clw` ignores the results of its tools: a partial import is a
  success. The import of the data brings a removed run back. Collecting the
  context ends the child only if `system` itself fails.

Importers (line numbers are of the importer's `Parser.cpp`, unless noted):

* cisco: words left over end an interface block, and the lines after it are read
  as global ones (293); a VRF stays set for later routes; a bare `switchport
  port-security` is not recognised; a numbered `ip access-list extended` is
  ignored; several `no` forms do what the positive form does; applied rule sets are
  keyed by the list's name, so the second interface of a list replaces the first
  (776); object groups that name each other recurse for ever
  (`AcBookUtilities.hpp:56`); rules of different lists share one numbering.
* juniper-conf: `disable` of a unit has no effect; VLAN members apply to every
  device; an unknown line under applications ends the block. juniper-set: static
  routes share one key, so one remains (196); an interface is in one zone only.
* juniper-xml: the default routing instance has the empty name, which
  `Vrf::save` refuses, so routes of the default table are not stored (f5 without
  `%domain` alike); `any` in a zone without a book refers to nothing; name servers
  in two groups insert one resolver twice, and the whole import is refused; of a
  second configuration of a system, interfaces, zones and books that are there
  already are dropped, and rules are numbered from the start again, so one that
  differs from an earlier rule in its name only gets lost.
* paloalto: an unknown interface ends the program (`std::out_of_range`); shared
  rules repeat the priorities of others, with the same loss. brocade: the boot
  gateway is never stored.
* What the data store drops although the parser kept it (`KnownLosses`): of two
  results of one Nessus plugin on a port, which differ in what it wrote, the second
  (`NessusResult.cpp:94-118` tells them apart, `QueriesCommon.cpp:1081-1091` does
  not); of a host that a scan by nmap lists twice, the second state of a port,
  version of a service and output of a script; the description of an AWS network
  interface when it appears again with another one. The reason of a service
  configured on a Cisco or Brocade device or a wireless controller names the device
  as it is called when the line is read: one server before and after `hostname` is two
  services, of which the first stays.
* nessus: a MAC address before any host reads `back()` of an empty vector (420);
  pcap replaces an earlier frame's addresses (210, 271); nmap stores all summed
  up ports as port -1, of several states the first; prowler refuses a report
  with an unknown severity; of a traceroute hop's further addresses the hop count
  is 0; dig without its footer is refused.
* ip-addr keeps the first block of an interface; ipconfig the last of a name, and
  a stale DNS suffix; show-neighbor never resets two flags (215, 296); cdp reads
  `back()` of an empty vendor list; a Cisco VRF's routes after an unknown line are
  ignored; Juniper routes "to table" are never stored.
* vyos: the default action reaches only the first rule without one (371-374);
  powerconnect: alternatives that are tried and fail keep their effects (64).
* aws: interfaces with `--device-id` refer to a device nobody inserts; of a
  numbered ACL entry for IPv4 and IPv6 one is dropped.
* objects: a VLAN range up to 65535 never ends (`InterfaceNetwork.cpp:79`); a port
  range below 0 wraps (`PortRange.cpp:91`); a mask with holes yields a prefix.

### Bounds, and why they are enough

`MaxRuns`, `MaxCrashes`, `MaxFlaps` (Playbook), `MaxPackets` (TsharkImport),
`MaxTime`, `MaxCommits` (Datalake), the number of slots, `MaxRemovals` (Clw), the
three sizes of `ClwCapture` and the shapes of files in `MCImports` are the only
bounds; rows, plays, command lines and commands are constants.

* Interactions in the playbook are between two threads, so two interfaces, and
  three VLAN threads on one, contain every pair (parent and child, siblings,
  cousins). Two stages are needed for quitting and for recovery. One crash and
  one restart decide recovery, as a run's start depends on `completed` only.
* The two threads of the importer interact through the queue's length relative
  to the count taken: four packets allow pushes before, during and after a round
  of the loop, twice.
* Two paths of one device and one of another distinguish all that names select.
  One second ahead of UTC (`Ahead`) separates a listing of the present from one of
  what git takes for it; the theorems hold for every zone.
  Three commits allow insert, change, remove; three seconds allow commits and
  listings before, within and after a second. Runs that are interleaved have a
  time axis of one point because their property is about the branch.

* The files of `imports` are described by *shapes*: a skeleton of kinds of lines
  (header, block, entry, end, and for stateful formats a second block), of which
  each line takes every value of its kind, with a number of *free* lines anywhere
  that take any value of any kind. Formats without structure have three free
  lines. What a parser keeps is set by one line and read or reset by another,
  with at most one header between them, so two blocks and one line out of place
  are enough for state to leak from one to the next. Values are two of each kind
  (names in capitals and not, masks, families, states), so that keys collide and
  differ. Addresses are octets; letters are atoms whose lower case is given.
* In `clw` a read is two units and the terminal and the pipe hold three, so that
  both more and less than a read can be left at the hang-up; four steps of a
  command are enough to fill either stream or to read and print on both sides of
  a full terminal. The theorems hold for all sizes.

### Fairness

* `FairSpec` of Playbook: weak fairness of `Progress`, any step of any thread:
  some thread that can run does, plays end (each is started with a time limit
  or ends by itself), and the user answers. There is no fairness per thread and
  none is needed: a plan is finite. The runs that check `Termination` use
  `--no-prompt`; crashes and flaps are never forced.
* `LiveSpec` of TsharkImport: weak fairness of `MainStep`, because the operating
  system runs the main thread. The parser has none: a live capture may be silent
  or endless, and data must be stored all the same.
* `FairSpec` of Clw: weak fairness of the child, the parent, the importer and its
  tool, as the system schedules processes. Nobody has to fail, to remove or to
  type. `EndsWithCommand` assumes that a command reads no more than is typed, that
  what is typed fits the terminal, and that a daemon's errors fit the pipe; where
  that does not hold `clw` may stop, as described above.
* Datalake and the importers have none: everything said of them is safety.

Deadlock is checked in every run (`Finished`, `Exited` and `Done` are the ends of
these programs; a data lake tool can always be started again) but `clw`: there a
command that waits for more input than its user types really stops.

## 4. What is proved

For all rows, plays files, command lines and bounds, and for inputs of any
length. Assumed are only the named `ASSUME`s: rows are a finite set with the
table's key, options are of their type, bounds are natural numbers; for clw that one read fits
the terminal and the pipe, and that a command is a finite sequence of steps.

**PlaybookProofs**

* `TypeCorrect`: `Spec => []TypeOK`. That `stage` is a stage of the plan needs
  that the plan is one `Plan` computed (`PlanLoaded`) and that its length is a
  number, as the rows are finite.
* `DryRunSafe`: `DryRunHarmless` is inductive once typed: each of the updates of
  the flag is a conjunction with `opts.execute` or a constant FALSE.
* `RunnerSafe`: `RunnerExclusive`, with the one fact that `Nobody` is no thread.
* `InterSerial`: `OneVlanActive`. The property is about running threads and not
  inductive. `Serial` adds `ParentWaits`: in an inter-network run a thread that is
  alive has a parent standing at the join of exactly that thread. Two VLAN
  threads alive then have the same parent, which stands at one place, or two
  parents alive, which have the same parent. That a spawn is always followed by
  its own join is a fact about the plan (`PairedPlan`), proved along the
  structure of the plan: guards contain no spawns, `startThreads` alternates in
  the inter-network scope, and concatenation keeps the pairing.

**Inductions, PlanProofs**

The plan of a run is data: sequences built by loops over rows, routers, phases and
sets, whose lengths are not known. The library's induction theorems take a
predicate as a parameter, which the provers here cannot instantiate; `Inductions`
states induction about *sets* instead (a set of numbers that contains 0 and every
successor is `Nat`, from well-founded minima), and proves with it that
`FlattenSeq`, of which every loop of `PlaybookPlan` is made, satisfies its recursive
equation. `PlanProofs` uses the same lemma to go through a loop: the set of turns
up to which a claim holds contains the first and, with each, the next.

* `ThreadsFollowLoops`: the flat steps of each thread are those of the nested
  loops. A *control point* is the position in the loops that the code keeps on
  its stack: threads started and joined, sources done, sources and routers
  tested, the source, router, phase and set the thread is at, whether the link was
  checked in this phase, and what the guards in scope have configured (`held`).
  `Follows` says which step may be taken at a control point and where it leads, one
  disjunct per kind of step; of a block of commands it says which commands may be
  issued there (`May`: each on the thread's own link, links and addresses only
  while nothing is under test). The theorem says that there is a *trace*: a control point
  before and after each step, each following from the one before, that starts
  with nothing done and ends with all sources of the thread done, and every
  thread it had to start both started and joined.

**The rest of PlaybookProofs, and PlaybookTestProofs**

From here on the state of a run is read through these traces: `Now(t)` is the control
point at which thread `t` stands. The traces are chosen from infinitely many functions, so
TLC cannot evaluate these invariants; it checks the properties themselves on the
runs. All the invariants rest on `Located`: a thread that was started was started by its
parent, in this stage, one that was joined has returned, and the
mutex is held by a thread at a block to which the running plays belong.

* `NotRepeated` (`CompletedNotRepeated`), from `CompletedBehind`: a source of
  this run that is completed is of an earlier stage, or its thread is done with
  it; and a running play is of a source its thread is not done with.
* `NoneLeftBehind` (`EverySourceCompleted`), from `Finishing`: a row that is not
  completed is of a later stage, or its thread is not done with it. That
  main's return means that all threads have returned is `Family`, twice.
* `InterDisables`: `PhaseDisableHolds` of inter-network runs, from
  `FailuresBehind` (a failure is of a tested session or the runner is off until
  its phase ends) and `OneOnFail` (of an `on-fail` set one play runs at a time).
* `InterScans`: `CompletedWasScanned` of inter-network runs, from `Accounted`. Its
  parts: while the runner is off, the session under way has a reason for it (an
  earlier failure, a skipped set, a runtime error); every play issued was
  executed or has such a reason; so have all plays of what lies behind each
  thread's control point. The difficulty is that the flag outlives the
  reason's command set, and that it is switched on again by two actions that
  must not come too early or too late.

**PlaybookHostProofs**

* `ErrorsEndTests`: `NoScanAfterRuntimeError` of inter-network runs, and of those
  that check nothing, from `ErrorsBehind`: a source with an error on record is done
  with, or its link or address is still gone (`Broken`), and from a check that found
  it so until the phase ends the runner is off and nothing runs. The error itself
  does not keep the runner off, since the end of each phase turns it on; what does
  is that the next check fails as well. So the proof is about the host:
  `BreaksStay` says that no command of any thread brings the link or address of a
  source under test back. `link up` and `addr add` are issued by the thread itself
  only outside of its sources' tests, by its parent only with no child at work
  (`May`), and by no other thread of an inter-network run.
* `GuardsUndone` (`Deconfigured`), `InterfaceUndone` (`BaseDeconfigured`) and
  `ScansFindHost` (`ScansRunConfigured`), from `HostHeld`: whatever is configured on
  the host is held by the thread of its link (`Belongs`), and as long as the network
  takes nothing away, whatever a thread holds is there (`Present`). `Held(t)` is what
  the guards of `t` have configured up to now and not undone, read from its trace,
  inside a block up to the command issued last. Below `HostHeld` lie
  - `Effect`: what one command may do to the host, proved per command (`ExecEffect`)
    from the rules of the network stack: what is new, its thread has configured; what
    it undoes is gone; it takes nothing away but from its own link, from the devices on
    that and, inter-network, a default route; and it succeeds on a host that is ready
    for it;
  - `HeldFits` and `OwnsLink`: when a thread runs a command nobody else holds anything
    on its link. A VLAN device is its thread's alone. An interface is
    shared with the thread of direct testing, and then its own thread holds nothing
    (`ChildHeld`), having undone its guards before it starts that one. The
    interface under a device is up as long as the thread of the device is at work:
    this is where the guards of two threads depend on each other's order;
  - `OneRouter`: inter-network only one thread has a default route, and the tests of
    one router are over before those of the next begin;
  - `GuardsRun`: the runner is on whenever a guard issues a command. Inter-network
    this follows from `BlockAlone`: no block of guards runs while a session is under way,
    and between sessions the flag is on.

`InterDisables`, `InterScans` and `ErrorsEndTests` are about inter-network runs
because only there they are true: intra-network, threads share the flag (run
`intra_shared_flag`), and a failure of one source leaves out plays of another, or a
phase's end in one turns the runner on for the other. That the session of an
inter-network run is the only one under way is `InterSerial`.

The last three theorems have two hypotheses. `Steady`: the run is inter-network, or
nothing in the plays file or on the command line turns the runner off. Intra-network
a play that fails in one thread can leave out the guards of another, and each of the
three is then violated: `intra_shared_flag` shows it for `Deconfigured`, and TLC does for
`ScansRunConfigured` on that instance and for `BaseDeconfigured` with two interfaces.
The second is that it is the first run on this host (`budget.runs <= 1`), and the runs
that check the three start once: the playbook does not look at what it finds, a crash
leaves links and addresses behind, and a later run undoes only what its own guards
configure. Added to the instance of `playbook_recovery`, `Deconfigured` and
`BaseDeconfigured` are violated after a crash. `ScansRunConfigured` was not, there;
whether it always holds after a crash is open.

**TsharkProofs**

* `TypeCorrect`, and `QueueSafe` (`NothingLost`): saved, taken and queued packets
  in a row are those seen; a step moves a head from one sequence to the end of
  the one before it.
* `SuccessIsComplete`, `StopTimeCorrect`, `BadFileAtomic` follow from
  `ControlInvariant`, whose four parts say what each position of the main thread
  implies for the parser and the future, for the store, for the times, and for
  success. It is needed because the loop ends on two facts read at different
  times: `~valid` is stable and says that nothing will be pushed any more, so the
  queue, looked at later, is final.
* `PromiseKept`: `TsharkImport` implements `Ingest`, each step mapped to a step
  or a stutter, from the invariants above.

**ClwProofs**

* `TypeCorrect`, with `Counted` (no stream holds more than its size, no more is
  forwarded than was typed).
* `LogLosesOnlyTheEnd` and `RecordIsFinal`, from `HangUpInv`. `TerminalInv` says that
  a hang-up is for good and means that the command is over or closed its
  terminal. That `poll` and the reads are different steps is what `LastReads` is
  for: a stream that was not reported with the hang-up is empty and stays so, and
  one that was is read once more, which leaves what exceeds one read. `RecordInv`
  carries the four files and the wait from the child to the import.
* `PromiseKept`: `Clw` implements `RunStore`. `Pending` says what each open
  transaction holds: `nmdb-import-clw` the run and nothing else, and only until it
  starts tools; a tool at its commit exactly one part, and then the run is there
  or comes with it, because a removal waits for pending rows.

**DatalakeProofs**

* `TypeCorrect` (`Spec => []TypeOK`), with `Timed`: the commits of the branch and
  of a detached HEAD are in the order of their times, none after the clock. The
  type of a history is what `git filter-branch` could break: `Filter` is a fold
  over the commits. `FilterSteps` shows, with the set induction of `Inductions`,
  that it goes through them one by one, and `FilterRemoves` what it leaves of an
  ordered history: an ordered one, no tree of which has anything of what was
  named, and that shows at every time what the old one did, without it.
* `CommittedStays`: `Spec => CommittedIsKept`, however many tools run together and
  wherever they are killed or find a lock. It rests on one more fact, `NoLake`: a
  lake that is not there has no history, so that only the removal of a lake can
  empty one. A commit of another tool, and a checkout that moves HEAD away from
  the branch, leave the branch alone or add one commit to its end; a permanent
  removal is `FilterRemoves`.
* `ListingsAreExact` (`ListingIsExact`), from `Alone`, which says for each position
  of a tool how HEAD, the index and the working tree relate: at rest all are the
  branch; between copy and commit the tree is ahead by one file; from the checkout
  of `nmdl-list` to its return HEAD is the branch up to the commit asked for
  (`Aligned`). It is needed because no command checks the result of the one
  before: `Restore` only works because nothing has changed since `AlignRepo`. That
  the beginning of a history says of a time what all of it says is `ListedUpTo`.
* `LatestListed` (`LatestIsListed`; no run checks it, as it fails where local time is
  ahead): no commit is after the clock at which a plain listing started, so one of
  that time or a later one is of the newest.
* `PermanentIsGone` (`PermanentMeansGone`), from `Settled`: outside a permanent
  removal git holds nothing that the branch does not (moving HEAD along the
  branch adds nothing to the reflog that is not in it), and the backup under
  `refs/original` is there in one position only, so that `filter-branch` never
  refuses.
* `LakePromised`: `Datalake` implements `Lake`, with what each tool was asked as
  its request. A commit is the Put or the Remove that was requested because
  `Settled` says what the index then adds to the tip, and it answers the request;
  `filter-branch` is a Purge by `FilterRemoves`, and so is the removal of the lake.

The last four assume what the run `datalake` sets: one tool at a time (`OneTool`),
none killed, and for the last two that a permanent removal leaves other data;
`LatestListed` alone assumes that local time is not ahead of UTC (`Ahead <= 0`). The
runs `datalake_lost` and `datalake_wipe` show that the code does not keep these
promises otherwise.

Only model-checked: liveness (`Termination`, `StoredInRealTime`,
`EndsWithInput`, `EndsWithCommand`), which needs ENABLED; of the playbook `NumberingIsReproducible`, which
compares two runs; and the importers, whose transaction, cascades and object groups are recursive operators, which the
prover does not accept.

## 5. Not modelled

`PROJECT.json` gives the reason per component. Left out are the spelling of lines
that grammars accept, SQL text, formatting, queries that only read (views,
graphers, exporters, `nmdb-analyze-data`, `nmdb-convert-acls`) and shell scripts;
so are titles and log lines, the dictionaries of vendors and well-known ports,
terminal settings of `clw`, and in the playbook the tmux windows. The
kernel, PostgreSQL, tshark and git appear as the steps the code sees of them.
The importers run one at a time: two transactions on one data store only meet in
`Clw`, where a row of one tool depends on another one's. A file that is neither
understood nor refused (an endless loop, a read beyond the end of a vector) is
not given to the models; the observations name these cases.

## 6. Plan

Done: the playbook, the only tool that acts on live networks; the tshark importer,
the only one with two threads on one data structure; the data lake, written by
concurrent users; the other importers with objects, statements and schema, which
are most of the code; `clw`.

Next, extending the model:

1. `DataEntry` naming and `nmdl-insert --rename`: two inserts that save under
   one name; `nmdb-initialize`: what a failing file leaves behind.
2. Properties of the remaining firewalls' rules (Juniper, Palo Alto), as those of
   Cisco: order, and objects that are known.
3. The passes over the data store that compute something: `nmdb-convert-acls` and
   the exporters' pairing of rules and books.

Next, proofs:

1. Pure operators of the importers in a module without recursion: `IpNet` (the
   prefix of a mask, a network contains its addresses) and what `Statements`
   leaves of a row's key.
