------------------------------ MODULE Datalake ------------------------------
(***************************************************************************)
(* The data lake: nmdl-initialize, nmdl-insert, nmdl-remove and nmdl-list  *)
(* over the git handler.  A tool is a process that runs one shell command  *)
(* after another in the one working tree all tools share; each command is  *)
(* a step, and a process may be killed between any two.  What git does is  *)
(* external: Checkout, FilterBranch and the rest say what the commands the *)
(* handler builds do to the branch, HEAD, the index and the working tree.  *)
(*                                                                         *)
(* A tree maps every path to its content or to Absent; a history is the    *)
(* sequence of commits from the first to the tip.                          *)
(***************************************************************************)
EXTENDS Integers, Sequences, SequencesExt, FiniteSetsExt

CONSTANTS
  Slots,      \* tools that may run at the same time
  Devices, Names,
  Paths,      \* the device/name pairs that are used
  Contents, Absent,
  Tools,      \* values of --tool, one of them NoTool for its absence
  NoTool,
  MaxTime,    \* bound: the clock, in units of git's one second
  Ahead,      \* how far the users' local time is ahead of UTC
  MaxCommits, \* bound: length of a history
  Ops,        \* the tools that are used
  Wipes,      \* TRUE: users also purge the only data there is
  MayCrash    \* TRUE: tools may be killed

ASSUME LakeAssumption ==
  /\ Paths \subseteq Devices \X Names
  /\ Absent \notin Contents /\ NoTool \in Tools
  /\ MaxTime \in Nat /\ MaxCommits \in Nat /\ Ahead \in Int
  /\ Ops \subseteq {"initialize", "insert", "remove", "purge", "list"}
  /\ Wipes \in BOOLEAN /\ MayCrash \in BOOLEAN

VARIABLES
  lake,      \* "missing", "dir" (no repository in it) or "repo"
  branch,    \* history of the branch
  detached,  \* HEAD is a commit, not the branch
  dhist,     \* then its history
  index, work,
  undo,      \* trees that only reflogs, refs/original or loose objects hold
  backup,    \* refs/original is not empty
  clock,
  job,       \* what each tool was asked to do
  pc,        \* where it is
  listing    \* what nmdl-list found: <<path, tool>> pairs

repo == <<branch, detached, dhist, index, work, undo, backup>>
vars == <<lake, repo, clock, job, pc, listing>>

Infinity == MaxTime + 1
Empty    == [p \in Paths |-> Absent]
Tree     == [Paths -> Contents \cup {Absent}]
NoNote   == <<>>

Without(tree, S) == [p \in Paths |-> IF p \in S THEN Absent ELSE tree[p]]
TreeOf(h)        == IF h = <<>> THEN Empty ELSE Last(h).tree
TreesOf(h)       == {h[i].tree : i \in DOMAIN h}
HeadHist         == IF detached THEN dhist ELSE branch
HeadTree         == TreeOf(HeadHist)

\* What nmdl-remove can name: one entry, or everything of a device.
Targets == {{p} : p \in Paths} \cup {{p \in Paths : p[1] = d} : d \in Devices}

\* The time of nmdl-list is given, in the user's local time, or it is the
\* present.
ListJobs == [op : {"list"}, before : 0..Infinity, given : BOOLEAN]

NoJob == [op |-> "none"]
Jobs  ==
  {[op |-> "initialize"]}
  \cup [op : {"insert"}, path : Paths, content : Contents, tool : Tools]
  \cup [op : {"remove", "purge"}, paths : Targets \ {{}}]
  \cup ListJobs

Init ==
  /\ lake = "missing"
  /\ branch = <<>> /\ detached = FALSE /\ dhist = <<>>
  /\ index = Empty /\ work = Empty /\ undo = {} /\ backup = FALSE
  /\ clock = 0
  /\ job = [s \in Slots |-> NoJob] /\ pc = [s \in Slots |-> "idle"]
  /\ listing = [s \in Slots |-> {}]

Active == {s \in Slots : pc[s] # "idle"}
Go(s, label) == pc' = [pc EXCEPT ![s] = label]
At(s, op, label) == pc[s] = label /\ job[s].op = op

-----------------------------------------------------------------------------
(* git.                                                                    *)

\* rev-list -n 1 --first-parent --before=t: the newest commit not after t.
\* The mutant leaves out commits of that very second.
RevListStrict(h, t) == Max({0} \cup {i \in DOMAIN h : h[i].time < t})

RevList(h, t) == Max({0} \cup {i \in DOMAIN h : h[i].time <= t})

\* git checkout refuses to overwrite what is not committed; the index and
\* the files that do not differ between the two commits stay as they are.
Checkout(h, detach) ==
  LET from == HeadTree
      to   == TreeOf(h)
      Same(p) == from[p] = to[p]
      ok == \A p \in Paths :
              \/ Same(p) \/ index[p] = to[p]
              \/ index[p] = from[p] /\ work[p] \in {index[p], Absent}
  IN IF ok
     THEN /\ index' = [p \in Paths |-> IF Same(p) THEN index[p] ELSE to[p]]
          /\ work' = [p \in Paths |->
                        IF Same(p) \/ index[p] = to[p] THEN work[p] ELSE to[p]]
          /\ detached' = detach /\ dhist' = IF detach THEN h ELSE <<>>
          /\ undo' = undo \cup (TreesOf(dhist) \ TreesOf(branch))
          /\ UNCHANGED <<branch, backup>>
     ELSE UNCHANGED repo

\* git commit --amend, for a mutant: the commit replaces the last one.
CommitAmends(note) ==
  LET c == [time |-> clock, tree |-> index, note |-> note]
      Amend(h) == IF h = <<>> THEN <<c>> ELSE ReplaceAt(h, Len(h), c)
  IN /\ IF detached
        THEN dhist' = Amend(dhist) /\ UNCHANGED branch
        ELSE branch' = Amend(branch) /\ UNCHANGED dhist
     /\ UNCHANGED <<detached, index, work, undo, backup>>

\* git commit: the index as it is, on top of HEAD.
Commit(note) ==
  LET c == [time |-> clock, tree |-> index, note |-> note]
  IN /\ IF detached
        THEN dhist' = Append(dhist, c) /\ UNCHANGED branch
        ELSE branch' = Append(branch, c) /\ UNCHANGED dhist
     /\ UNCHANGED <<detached, index, work, undo, backup>>

\* filter-branch --prune-empty: S is taken out of every commit, and a
\* commit that then changes nothing goes.
FilterCommit(kept, c, S) ==
  LET tree == Without(c.tree, S)
  IN IF tree = TreeOf(kept) THEN kept
     ELSE Append(kept, [c EXCEPT !.tree = tree])

Filter(h, S) == FoldLeft(LAMBDA kept, c : FilterCommit(kept, c, S), <<>>, h)

Clean == \A p \in Paths : index[p] = HeadTree[p] /\ index[p] \in {Absent, work[p]}

-----------------------------------------------------------------------------
(* A tool starts and ends.  nmdl-initialize is run on its own.             *)

Start(s) ==
  /\ pc[s] = "idle"
  /\ \E j \in Jobs :
       /\ j.op \in Ops
       /\ j.op = "initialize" => Active = {}
       /\ \A r \in Active : job[r].op # "initialize"
       /\ j.op \in {"insert", "remove"} =>
            Len(branch) < MaxCommits /\ Len(dhist) < MaxCommits
       /\ j.op = "list" /\ ~j.given => j.before = clock
       /\ j.op = "purge" =>
            Wipes \/ HeadHist = <<>> \/ Filter(HeadHist, j.paths) # <<>>
       /\ job' = [job EXCEPT ![s] = j]
  /\ Go(s, "start")
  /\ UNCHANGED <<lake, repo, clock, listing>>

\* nmdl-insert, nmdl-remove and nmdl-list report success, whatever git said.
Finish(s) ==
  /\ pc[s] \in {"done", "inserted", "purged", "listed"}
  /\ job' = [job EXCEPT ![s] = NoJob]
  /\ listing' = [listing EXCEPT ![s] = {}]
  /\ Go(s, "idle")
  /\ UNCHANGED <<lake, repo, clock>>

-----------------------------------------------------------------------------
(* Git::initialize.                                                        *)

RemoveLake(s) ==
  /\ At(s, "initialize", "start")
  /\ lake' = "missing"
  /\ branch' = <<>> /\ detached' = FALSE /\ dhist' = <<>>
  /\ index' = Empty /\ work' = Empty /\ undo' = {} /\ backup' = FALSE
  /\ Go(s, "create")
  /\ UNCHANGED <<clock, job, listing>>

UserDeclines(s) ==
  /\ At(s, "initialize", "start") /\ lake # "missing"
  /\ Go(s, "done")
  /\ UNCHANGED <<lake, repo, clock, job, listing>>

CreateLake(s) ==
  /\ At(s, "initialize", "create")
  /\ lake' = "dir" /\ Go(s, "init")
  /\ UNCHANGED <<repo, clock, job, listing>>

GitInit(s) ==
  /\ At(s, "initialize", "init")
  /\ lake' = "repo" /\ Go(s, "done")
  /\ UNCHANGED <<repo, clock, job, listing>>

-----------------------------------------------------------------------------
(* Git::commit.                                                            *)

\* Mutant: the copy replaces the directory of the device.
CopyReplacesDevice(s) ==
  /\ At(s, "insert", "start")
  /\ IF lake = "missing"
     THEN Go(s, "done") /\ UNCHANGED work
     ELSE /\ work' = [p \in Paths |->
                       IF p = job[s].path THEN job[s].content
                       ELSE IF p[1] = job[s].path[1] THEN Absent ELSE work[p]]
          /\ Go(s, "add")
  /\ UNCHANGED <<lake, branch, detached, dhist, index, undo, backup, clock,
                 job, listing>>

\* changeDirToRepo, then the data is copied into the working tree.
Copy(s) ==
  /\ At(s, "insert", "start")
  /\ IF lake = "missing"
     THEN Go(s, "done") /\ UNCHANGED work
     ELSE work' = [work EXCEPT ![job[s].path] = job[s].content] /\ Go(s, "add")
  /\ UNCHANGED <<lake, branch, detached, dhist, index, undo, backup, clock,
                 job, listing>>

\* The data cannot be read: sfs::copy throws and the tool exits.
CopyFails(s) ==
  /\ At(s, "insert", "start") /\ lake # "missing"
  /\ job' = [job EXCEPT ![s] = NoJob] /\ Go(s, "idle")
  /\ UNCHANGED <<lake, repo, clock, listing>>

\* git add . takes everything that is in the working tree.
GitAdd(s) ==
  /\ At(s, "insert", "add")
  /\ IF lake = "repo" THEN index' = work /\ Go(s, "commit")
     ELSE Go(s, "done") /\ UNCHANGED index
  /\ UNCHANGED <<lake, branch, detached, dhist, work, undo, backup, clock,
                 job, listing>>

\* The check-in, tool and arguments lines of the message.  The mutant
\* leaves out the path.
NoteUnnamed(j) == IF j.op = "insert" THEN <<j.tool>> ELSE NoNote

Note(j) == IF j.op = "insert" THEN <<j.path, j.tool>> ELSE NoNote

\* Mutant: --amend, which keeps the number of commits small.
GitCommitAmends(s) ==
  /\ pc[s] = "commit"
  /\ IF lake # "repo" \/ index = HeadTree
     THEN UNCHANGED repo /\ Go(s, "done")
     ELSE /\ CommitAmends(Note(job[s]))
          /\ Go(s, IF job[s].op = "insert" THEN "inserted" ELSE "done")
  /\ UNCHANGED <<lake, clock, job, listing>>

\* git commit of nmdl-insert and nmdl-remove; it refuses an empty commit.
GitCommit(s) ==
  /\ pc[s] = "commit"
  /\ IF lake # "repo" \/ index = HeadTree
     THEN UNCHANGED repo /\ Go(s, "done")
     ELSE /\ Commit(Note(job[s]))
          /\ Go(s, IF job[s].op = "insert" THEN "inserted" ELSE "done")
  /\ UNCHANGED <<lake, clock, job, listing>>

-----------------------------------------------------------------------------
(* Git::removeLast and Git::removeAll.                                     *)

\* git rm refuses when a file it would delete is not as committed.
GitRm(s) ==
  /\ At(s, "remove", "start")
  /\ LET found == {p \in job[s].paths : index[p] # Absent}
         refused == \E p \in found :
                      /\ work[p] # Absent
                      /\ work[p] # index[p] \/ index[p] # HeadTree[p]
     IN IF lake = "repo" /\ ~refused
        THEN /\ index' = Without(index, found) /\ work' = Without(work, found)
             /\ Go(s, "commit")
        ELSE Go(s, "done") /\ UNCHANGED <<index, work>>
  /\ UNCHANGED <<lake, branch, detached, dhist, undo, backup, clock, job,
                 listing>>

\* git filter-branch: it refuses unless the tree is clean and refs/original
\* is empty.  When no commit is left it deletes the ref and then fails,
\* before it updates the working tree; the ref is HEAD itself when HEAD is
\* detached, and without HEAD there is no repository.
FilterBranch(s) ==
  /\ At(s, "purge", "start")
  /\ LET old == HeadHist
         new == Filter(old, job[s].paths)
         wiped == new = <<>>
     IN IF lake # "repo" \/ old = <<>> \/ backup \/ ~Clean \/ new = old
        THEN Go(s, "done") /\ UNCHANGED <<lake, repo>>
        ELSE /\ IF detached THEN dhist' = new /\ UNCHANGED branch
                ELSE branch' = new /\ UNCHANGED dhist
             /\ lake' = IF wiped /\ detached THEN "dir" ELSE lake
             /\ undo' = undo \cup TreesOf(old) /\ backup' = TRUE
             /\ IF wiped
                THEN UNCHANGED <<index, work>> /\ Go(s, "done")
                ELSE /\ index' = TreeOf(new)
                     /\ work' = [p \in Paths |-> IF index[p] = Absent
                                                THEN work[p] ELSE index'[p]]
                     /\ Go(s, "unref")
             /\ UNCHANGED detached
  /\ UNCHANGED <<clock, job, listing>>

\* git update-ref -d of what filter-branch kept under refs/original.
DeleteBackup(s) ==
  /\ At(s, "purge", "unref")
  /\ backup' = FALSE /\ Go(s, "gc")
  /\ UNCHANGED <<lake, branch, detached, dhist, index, work, undo, clock, job,
                 listing>>

\* git reflog expire and git gc --prune=now.  The mutant keeps the reflog.
GcNoExpire(s) ==
  /\ At(s, "purge", "gc")
  /\ Go(s, "purged")
  /\ UNCHANGED <<lake, repo, clock, job, listing>>

Gc(s) ==
  /\ At(s, "purge", "gc")
  /\ undo' = {} /\ Go(s, "purged")
  /\ UNCHANGED <<lake, branch, detached, dhist, index, work, backup, clock,
                 job, listing>>

-----------------------------------------------------------------------------
(* Git::getDataEntries.                                                    *)

\* changeDirToRepo and git branch --show-current.
ShowCurrent(s) ==
  /\ At(s, "list", "start")
  /\ Go(s, IF lake = "repo" /\ ~detached THEN "align" ELSE "done")
  /\ UNCHANGED <<lake, repo, clock, job, listing>>

\* The time is printed without a zone and git reads it as local time: right
\* for one the user gave, but the present is taken in UTC.
ReadByGit(j) == IF j.given THEN j.before ELSE j.before - Ahead

\* alignRepo(before): HEAD goes to a commit, unless the time given is the one
\* that is printed as infinity.  The result of the checkout is not looked at.
AlignRepo(s) ==
  /\ At(s, "list", "align")
  /\ LET t == ReadByGit(job[s])
         n == RevList(branch, t)
     IN IF lake # "repo" \/ n = 0 THEN Go(s, "done") /\ UNCHANGED repo
        ELSE /\ Go(s, "walk")
             /\ IF job[s].given /\ t = Infinity THEN Checkout(branch, FALSE)
                ELSE Checkout(SubSeq(branch, 1, n), TRUE)
  /\ UNCHANGED <<lake, clock, job, listing>>

\* The recursive directory iterator.
Walk(s) ==
  /\ At(s, "list", "walk")
  /\ listing' = [listing EXCEPT ![s] =
                   {<<p, NoTool>> : p \in {q \in Paths : work[q] # Absent}}]
  /\ Go(s, "log")
  /\ UNCHANGED <<lake, repo, clock, job>>

\* setIngestToolData: the newest check-in line of a path in git log, which
\* --by-tool, --unbinned and --ingest-script ask for.
ToolIn(h, p) ==
  LET found == {i \in DOMAIN h : h[i].note # NoNote /\ h[i].note[1] = p}
  IN IF found = {} THEN NoTool ELSE h[Max(found)].note[2]

ReadLog(s) ==
  /\ At(s, "list", "log")
  /\ listing' = [listing EXCEPT ![s] =
                   {<<e[1], ToolIn(HeadHist, e[1])>> : e \in listing[s]}]
  /\ Go(s, "restore")
  /\ UNCHANGED <<lake, repo, clock, job>>

\* alignRepo(): back to the branch, by the name that was read at the start.
Restore(s) ==
  /\ At(s, "list", "restore")
  /\ IF lake # "repo" \/ branch = <<>> THEN UNCHANGED repo
     ELSE Checkout(branch, FALSE)
  /\ Go(s, "listed")
  /\ UNCHANGED <<lake, clock, job, listing>>

-----------------------------------------------------------------------------
(* The environment.                                                        *)

Tick ==
  /\ clock < MaxTime /\ clock' = clock + 1
  /\ UNCHANGED <<lake, repo, job, pc, listing>>

\* A git command finds index.lock of another one: it fails.
LockHeld(s) ==
  /\ Active # {s}
  /\ \/ pc[s] \in {"add", "commit"} /\ Go(s, "done")
     \/ pc[s] = "start" /\ job[s].op \in {"remove", "purge"} /\ Go(s, "done")
     \/ pc[s] = "align" /\ RevList(branch, ReadByGit(job[s])) # 0 /\ Go(s, "walk")
     \/ pc[s] = "restore" /\ Go(s, "listed")
  /\ UNCHANGED <<lake, repo, clock, job, listing>>

\* The user interrupts a tool and the command it is running.
Crash(s) ==
  /\ MayCrash /\ pc[s] # "idle"
  /\ job' = [job EXCEPT ![s] = NoJob]
  /\ listing' = [listing EXCEPT ![s] = {}]
  /\ Go(s, "idle")
  /\ UNCHANGED <<lake, repo, clock>>

Step(s) ==
  \/ Start(s) \/ Finish(s)
  \/ RemoveLake(s) \/ UserDeclines(s) \/ CreateLake(s) \/ GitInit(s)
  \/ Copy(s) \/ CopyFails(s) \/ GitAdd(s) \/ GitCommit(s)
  \/ GitRm(s) \/ FilterBranch(s) \/ DeleteBackup(s) \/ Gc(s)
  \/ ShowCurrent(s) \/ AlignRepo(s) \/ Walk(s) \/ ReadLog(s) \/ Restore(s)
  \/ LockHeld(s) \/ Crash(s)

Next == Tick \/ \E s \in Slots : Step(s)

Spec == Init /\ [][Next]_vars

-----------------------------------------------------------------------------
(* Properties.                                                             *)

Histories == Seq([time : 0..MaxTime, tree : Tree,
                  note : {NoNote} \cup (Paths \X Tools)])

\* Type invariant.
TypeOK ==
  /\ lake \in {"missing", "dir", "repo"}
  /\ branch \in Histories /\ dhist \in Histories /\ detached \in BOOLEAN
  /\ index \in Tree /\ work \in Tree /\ undo \subseteq Tree
  /\ backup \in BOOLEAN /\ clock \in 0..MaxTime
  /\ job \in [Slots -> Jobs \cup {NoJob}]
  /\ pc \in [Slots -> {"idle", "start", "create", "init", "add", "commit",
                       "unref", "gc", "align", "walk", "log", "restore",
                       "done", "inserted", "purged", "listed"}]
  /\ listing \in [Slots -> SUBSET (Paths \X Tools)]

\* What a history says of time t: the tree of the last commit made by then,
\* and the tool of the last check-in of p.
Newest(h, is)  == IF is = {} THEN Empty ELSE h[Max(is)].tree
AsOfIn(h, t)   == Newest(h, {i \in DOMAIN h : h[i].time <= t})
AsOf(t)        == AsOfIn(branch, t)
LastTool(t, p) ==
  LET ins == {i \in DOMAIN branch : /\ branch[i].time <= t
                                    /\ branch[i].note # NoNote
                                    /\ branch[i].note[1] = p}
  IN IF ins = {} THEN NoTool ELSE branch[Max(ins)].note[2]

\* What nmdl-list has found when it ends.
Found(s, t) ==
  listing[s] = {<<p, LastTool(t, p)>> : p \in {q \in Paths : AsOf(t)[q] # Absent}}

EndOfList(s) == job[s].op = "list" /\ pc[s] \in {"done", "listed"}

\* README of nmdl-list: a listing of a given time shows what was stored then,
\* with the tool of its last check-in then, and nothing added later, although
\* it is read from a working tree that is moved there and back.  Without a
\* time the code shows the lake of as long before its start as the users'
\* clocks are ahead of UTC.
ListingIsExact ==
  \A s \in Slots : EndOfList(s) =>
    LET j == job[s]
    IN Found(s, IF j.given THEN j.before ELSE j.before - Ahead)

\* The same README: without a time the default "implies use the latest version
\* of data".  So it does where local time is not ahead of UTC.
LatestIsListed ==
  \A s \in Slots : EndOfList(s) /\ ~job[s].given => Found(s, Infinity)

\* README of nmdl-remove: with --permanent "the back-end shall remove the
\* data without the possibility to undo": no commit, no index, no file and
\* no object that git could bring back holds it.
PermanentMeansGone ==
  \A s \in Slots :
    pc[s] \in {"done", "purged"} /\ job[s].op = "purge" /\ lake = "repo" =>
      \A tree \in TreesOf(branch) \cup undo \cup {index, work} :
        \A p \in job[s].paths : tree[p] = Absent

\* What a tool asks of the lake, until its command has taken effect or failed.
Wish(j) ==
  CASE j.op = "insert" -> [do |-> "put", path |-> j.path, content |-> j.content]
    [] j.op \in {"remove", "purge"} -> [do |-> j.op, paths |-> j.paths]
    [] j.op = "initialize" -> [do |-> "purge", paths |-> Paths]
    [] OTHER -> [do |-> "none"]

Asked(s) == Wish(IF pc[s] \in {"start", "add", "commit"} THEN job[s] ELSE NoJob)

\* Each tool does to the visible history what module Lake allows: it stores
\* the one content it was given under the one name, or removes what it was
\* told to and nothing else, at most once, or leaves everything as it is; and
\* what earlier listings show changes by a permanent removal only.
Promise == INSTANCE Lake WITH
  Callers <- Slots, now <- clock, asOf <- [t \in 0..MaxTime |-> AsOf(t)],
  request <- [s \in Slots |-> Asked(s)]
KeepsPromise == Promise!LakeSpec

\* Tools that run together, or die between two commands, never lose what is
\* on the branch: it only grows, except that a permanent removal takes what
\* it names, and nothing else, out of every time.
CommittedIsKept ==
  [][\/ lake' # lake
     \/ IsPrefix(branch, branch')
     \/ \E s \in Slots :
          /\ At(s, "purge", "start")
          /\ \A t \in 0..MaxTime :
               AsOf(t)' = Without(AsOf(t), job[s].paths)]_vars

\* README of nmdl-insert: the tool "is utilized to insert new data into the
\* data lake": what was committed is in the present listing.
InsertIsListed ==
  \A s \in Slots : pc[s] = "inserted" => AsOf(Infinity)[job[s].path] # Absent
=============================================================================
