-------------------------------- MODULE Crawl -------------------------------
(***************************************************************************)
(* Crawl: runs of the offline crawl (crawl/crawl_main.py, crawl_client.py, *)
(* crawl_db.py) over the index files: plan from crawl_state, fetch day by  *)
(* day, commit crawl_state, build the staging file, swap it in.  Runs may  *)
(* fail at every step or be killed, and nothing but SQLite's write lock    *)
(* keeps two of them apart.                                                *)
(***************************************************************************)
EXTENDS IndexFiles, FiniteSetsExt

CONSTANT MaxFaults  \* bound on the faults of a behaviour

ASSUME FaultsAssumption == MaxFaults \in Nat

VARIABLES pc,      \* crawler -> where its run is
          job,     \* crawler -> the locals of run_crawl
          held,    \* the days the site has reports for
          faults   \* the faults that have happened

crawlVars == <<pc, job, held, faults>>

\* cold and the planned dates; those still to fetch; the days whose reports are
\* in "rows"; the days stamped had_reports = 0; the days skipped.
NoJob == [cold |-> FALSE, due |-> {}, todo |-> {}, rows |-> {}, blank |-> {},
          skipped |-> {}]

CrawlInit ==
  /\ pc = [k \in Crawler |-> "idle"]
  /\ job = [k \in Crawler |-> NoJob]
  /\ held \in SUBSET Day
  /\ faults = 0

Fault == faults < MaxFaults /\ faults' = faults + 1
NoFault == UNCHANGED faults

\* run_crawl is entered with a client handed to it.
Launch(k) ==
  /\ pc[k] = "idle"
  /\ \E cold \in BOOLEAN : job' = [job EXCEPT ![k].cold = cold]
  /\ pc' = [pc EXCEPT ![k] = "open"]
  /\ NoFault /\ UNCHANGED <<files, held>>

\* The command line hands no client over: CrawlClient reads the field
\* read_timeout_s, which Settings lacks, and main turns the error into exit code 1.
LaunchFromCommandLine(k) ==
  /\ pc[k] = "idle"
  /\ pc' = [pc EXCEPT ![k] = "ended"]
  /\ NoFault /\ UNCHANGED <<files, job, held>>

\* The run is over: its connection closes, and a transaction that was not
\* committed is rolled back.
Close(k) ==
  /\ pc' = [pc EXCEPT ![k] = "ended"]
  /\ fd' = [fd EXCEPT ![k] = NoFile]

\* A file that is no database is unlinked before a new one is made.
UnlinkCorrupt(k) ==
  /\ pc[k] = "open" /\ live # NoFile /\ content[live].kind = "corrupt"
  /\ live' = NoFile
  /\ UNCHANGED <<staging, fd, pc, job, held>> /\ NoFault
  /\ content' = Kept(content)

\* Mutant of Due: the window ends a day late.
DueOneMore(state, cold) ==
  {d \in Day : cold \/ state[d] \in {"none", "stale"}} \cup {Max(Day) + 1}

\* _dates_to_fetch: a recorded day is skipped, unless its rows have aged.
Due(state, cold) == {d \in Day : cold \/ state[d] \in {"none", "stale"}}

Plan(k, file) ==
  LET due == Due(file.state, job[k].cold)
  IN  job' = [job EXCEPT ![k].due = due, ![k].todo = due]

\* The connection to the live file, made with the schema when it is missing, and
\* the dates that its crawl_state leaves to fetch.
OpenState(k) ==
  /\ pc[k] = "open"
  /\ \/ live = NoFile
        /\ \E i \in Free :
             /\ live' = i
             /\ content' = [content EXCEPT ![i] = SchemaOnly]
             /\ fd' = [fd EXCEPT ![k] = i]
             /\ Plan(k, SchemaOnly)
     \/ Readable(live)
        /\ fd' = [fd EXCEPT ![k] = live]
        /\ Plan(k, content[live])
        /\ UNCHANGED <<live, content>>
  /\ pc' = [pc EXCEPT ![k] = "fetch"]
  /\ NoFault /\ UNCHANGED <<staging, held>>

\* The first INSERT takes SQLite's write lock on the file; the commit gives it
\* back.
Writing(k) == pc[k] = "fetch" /\ job[k].rows \cup job[k].blank # {}
LockedOut(k) == \E o \in Crawler \ {k} : Writing(o) /\ fd[o] = fd[k]

\* Mutant of Fetched: a day that could not be fetched is stamped as empty, too.
FetchedDownAsEmpty(k, into) ==
  /\ pc[k] = "fetch" /\ job[k].todo # {}
  /\ LET d == Min(job[k].todo)
     IN  job' = [job EXCEPT ![k].todo = @ \ {d},
                            ![k].rows = IF into = "rows" THEN @ \cup {d} ELSE @,
                            ![k].blank = IF into # "rows" THEN @ \cup {d} ELSE @,
                            ![k].skipped = IF into = "skip" THEN @ \cup {d} ELSE @]
  /\ UNCHANGED <<files, pc, held>>

\* A fetch of the next day has an outcome: rows, none, or a transient failure.
Fetched(k, into) ==
  /\ pc[k] = "fetch" /\ job[k].todo # {}
  /\ LET d == Min(job[k].todo)
     IN  job' = [job EXCEPT ![k].todo = @ \ {d},
                            ![k].rows = IF into = "rows" THEN @ \cup {d} ELSE @,
                            ![k].blank = IF into = "blank" THEN @ \cup {d} ELSE @,
                            ![k].skipped = IF into = "skip" THEN @ \cup {d} ELSE @]
  /\ UNCHANGED <<files, pc, held>>

\* search_sitting returns and the day is stamped.
FetchDay(k) ==
  /\ ~LockedOut(k)
  /\ Fetched(k, IF Min(job[k].todo) \in held THEN "rows" ELSE "blank")
  /\ NoFault

\* A failure status that is not retried, or a body that is not JSON, reads as a
\* page without rows.
FetchGarbled(k) == ~LockedOut(k) /\ Fetched(k, "blank") /\ Fault

\* CrawlTransientError: the day is skipped and not stamped.
FetchDown(k) == Fetched(k, "skip") /\ Fault

\* Any other exception ends the run, and so does the write lock of another run
\* when it outlasts SQLite's busy timeout.
FetchFails(k) ==
  /\ pc[k] = "fetch" /\ job[k].todo # {}
  /\ IF LockedOut(k) THEN NoFault ELSE Fault
  /\ Close(k)
  /\ UNCHANGED <<live, staging, job, held>>
  /\ content' = Kept(content)

\* conn.commit() stamps every day that was fetched in the file the connection has
\* open.
Commit(k) ==
  /\ pc[k] = "fetch" /\ job[k].todo = {}
  /\ pc' = [pc EXCEPT ![k] = "build"]
  /\ fd' = [fd EXCEPT ![k] = NoFile]
  /\ NoFault /\ UNCHANGED <<live, staging, job, held>>
  /\ content' = Kept([content EXCEPT ![fd[k]].state = [d \in Day |->
                        IF d \in job[k].rows THEN "fresh"
                        ELSE IF d \in job[k].blank THEN "empty" ELSE @[d]]])

\* Mutant of BuildStart: a staging file left by an earlier run is built upon.
BuildStartOnLeftover(k) ==
  /\ pc[k] = "build"
  /\ \E i \in Free :
       LET target == IF staging = NoFile THEN i ELSE staging
       IN  /\ staging' = target
           /\ content' = IF staging = NoFile
                         THEN [content EXCEPT ![i] = SchemaOnly] ELSE content
           /\ fd' = [fd EXCEPT ![k] = target]
  /\ pc' = [pc EXCEPT ![k] = "building"]
  /\ NoFault /\ UNCHANGED <<live, job, held>>

\* Mutant of BuildStart: the build takes place at the live path.
BuildStartInLive(k) ==
  /\ pc[k] = "build"
  /\ \E i \in Free :
       /\ live' = i
       /\ fd' = [fd EXCEPT ![k] = i]
  /\ pc' = [pc EXCEPT ![k] = "building"]
  /\ NoFault /\ UNCHANGED <<staging, job, held>>
  /\ content' = Kept([content EXCEPT ![live'] = SchemaOnly])

\* build_index unlinks whatever is at the staging path and makes a new file.
BuildStart(k) ==
  /\ pc[k] = "build"
  /\ \E i \in Free :
       /\ staging' = i
       /\ fd' = [fd EXCEPT ![k] = i]
  /\ pc' = [pc EXCEPT ![k] = "building"]
  /\ NoFault /\ UNCHANGED <<live, job, held>>
  /\ content' = Kept([content EXCEPT ![staging'] = SchemaOnly])

\* Mutant of BuildCommit: the new file takes over the crawl_state of the live one.
BuildCommitCarriesState(k) ==
  /\ pc[k] = "building"
  /\ \E b \in Build :
       /\ FreshBuild(b)
       /\ content' = [content EXCEPT ![fd[k]].build = b,
                        ![fd[k]].reports = @ \cup job[k].rows,
                        ![fd[k]].state = IF live = NoFile THEN @ ELSE content[live].state]
  /\ pc' = [pc EXCEPT ![k] = "swap"]
  /\ fd' = [fd EXCEPT ![k] = NoFile]
  /\ NoFault /\ UNCHANGED <<live, staging, job, held>>

\* The build commits: all the rows of this run, no crawl_state, a new build_id.
BuildCommit(k) ==
  /\ pc[k] = "building"
  /\ pc' = [pc EXCEPT ![k] = "swap"]
  /\ fd' = [fd EXCEPT ![k] = NoFile]
  /\ NoFault /\ UNCHANGED <<live, staging, job, held>>
  /\ \E b \in Build :
       /\ FreshBuild(b)
       /\ content' = Kept([content EXCEPT ![fd[k]].build = b,
                                          ![fd[k]].reports = @ \cup job[k].rows])

\* Mutant of BuildFails: the failure of the build is logged and the run goes on.
BuildFailsSwaps(k) ==
  /\ pc[k] = "building"
  /\ pc' = [pc EXCEPT ![k] = "swap"]
  /\ fd' = [fd EXCEPT ![k] = NoFile]
  /\ Fault /\ UNCHANGED <<content, live, staging, job, held>>

\* The build raises: whatever is at the staging path is unlinked.
BuildFails(k) ==
  /\ pc[k] = "building"
  /\ staging' = NoFile
  /\ Close(k)
  /\ Fault /\ UNCHANGED <<live, job, held>>
  /\ content' = Kept(content)

\* os.replace: the live path names the file that is at the staging path; when
\* there is none, it raises and the run ends.
Swap(k) ==
  /\ pc[k] = "swap"
  /\ live' = IF staging = NoFile THEN live ELSE staging
  /\ staging' = NoFile
  /\ Close(k)
  /\ NoFault /\ UNCHANGED <<job, held>>
  /\ content' = Kept(content)

\* The process is killed; a staging file stays where it is.
Crash(k) ==
  /\ pc[k] \notin {"idle", "ended"}
  /\ Close(k)
  /\ Fault /\ UNCHANGED <<live, staging, job, held>>
  /\ content' = Kept(content)

\* The crawler may be started for its next run.
Rest(k) ==
  /\ pc[k] = "ended"
  /\ pc' = [pc EXCEPT ![k] = "idle"]
  /\ job' = [job EXCEPT ![k] = NoJob]
  /\ NoFault /\ UNCHANGED <<files, held>>

\* crawl_recrawl_age_days pass.
Age(d) ==
  /\ \E i \in Inode : content[i].state[d] = "fresh"
  /\ content' = [i \in Inode |-> IF content[i].state[d] = "fresh"
                   THEN [content[i] EXCEPT !.state[d] = "stale"] ELSE content[i]]
  /\ NoFault /\ UNCHANGED <<live, staging, fd, pc, job, held>>

\* The site publishes the reports of a day.
Publish(d) ==
  /\ d \notin held
  /\ held' = held \cup {d}
  /\ NoFault /\ UNCHANGED <<files, pc, job>>

\* The operator removes the index.
Remove ==
  /\ live # NoFile
  /\ live' = NoFile
  /\ Fault /\ UNCHANGED <<staging, fd, pc, job, held>>
  /\ content' = Kept(content)

Advance(k) ==
  UnlinkCorrupt(k) \/ OpenState(k) \/ FetchDay(k) \/ Commit(k) \/ BuildStart(k)
    \/ BuildCommit(k) \/ Swap(k) \/ Rest(k)

Step(k) ==
  Launch(k) \/ LaunchFromCommandLine(k) \/ Advance(k) \/ FetchGarbled(k)
    \/ FetchDown(k) \/ FetchFails(k) \/ BuildFails(k) \/ Crash(k)

Environment == Remove \/ \E d \in Day : Age(d) \/ Publish(d)

CrawlNext == Environment \/ \E k \in Crawler : Step(k)

Init == FilesInit /\ CrawlInit
vars == <<files, crawlVars>>

\* A run that is under way goes on.  Nothing makes anyone start one, and faults are
\* finitely many.
CrawlSpec ==
  /\ Init /\ [][CrawlNext]_vars
  /\ \A k \in Crawler : WF_vars(Advance(k))

\* The crawl as the runbook schedules it: every run is started from the command
\* line, and the timer starts the next one again and again.
CommandLineSpec ==
  /\ Init /\ [][Environment \/ \E k \in Crawler : Step(k) /\ ~Launch(k)]_vars
  /\ \A k \in Crawler : WF_vars(Advance(k)) /\ WF_vars(LaunchFromCommandLine(k))
-----------------------------------------------------------------------------
JobOK(j) ==
  /\ j.cold \in BOOLEAN
  /\ \A part \in {j.due, j.todo, j.rows, j.blank, j.skipped} : part \subseteq Day

\* Files, connections and the locals of every run are well formed.
TypeOK ==
  /\ FilesTypeOK
  /\ pc \in [Crawler -> {"idle", "open", "fetch", "build", "building", "swap", "ended"}]
  /\ \A k \in Crawler : JobOK(job[k])
  /\ held \subseteq Day
  /\ faults \in 0..MaxFaults

Swapped(k) == pc[k] = "swap" /\ pc'[k] = "ended" /\ live' # live

\* A swap puts exactly the rows of its own run into service: none a killed run
\* left in the staging file, none of a build that failed.
SwapPublishesRun ==
  [][\A k \in Crawler :
       Swapped(k) => Whole(content[live'])
                       /\ content[live'].reports = job[k].rows]_vars

\* An index that is in service gives way only to a whole one, however runs fail,
\* are killed or are repeated (crawl_db.py:6).
LiveOnlyReplacedByWhole ==
  [][live # NoFile /\ live' \notin {live, NoFile} => Whole(content'[live'])]_vars

DueNow ==
  IF Readable(live) THEN Due(content[live].state, FALSE) ELSE Day

\* The days that an incremental run could not fetch are due for the next run,
\* whether this one swaps, fails or is killed (crawl_main.py:8).
SkippedStaysDue ==
  \A k \in Crawler :
    pc[k] \in {"fetch", "build", "building", "swap", "ended"} /\ ~job[k].cold =>
      job[k].skipped \subseteq DueNow

\* From some time on the index in service has every day the site has reports for.
EventuallyIndexed == <>[](held \subseteq Served(live).reports)

\* If run_crawl is entered with a working client again and again, the index in
\* service comes to have every day the site has reports for and keeps them, whatever
\* finitely many faults did.  The premise is about who starts the crawl, which is no
\* part of this code; that the command line fulfils it is CommandLineIndexes.
RunsIndexEverything ==
  (\A k \in Crawler : []<><<Launch(k)>>_vars) => EventuallyIndexed

\* The claim of the runbook that the crawl, started from the command line, populates
\* the index (deploy/RUNBOOK.md:98).  It is not true of the code: no such run gets
\* past the constructor of its client.
CommandLineIndexes == EventuallyIndexed

\* The claim that a down week never touches the live index (crawl_main.py:10): a
\* run that planned days and could fetch none swaps nothing.
DownWeekKeepsIndex ==
  [][\A k \in Crawler :
       Swapped(k) => job[k].due = {} \/ job[k].rows \cup job[k].blank # {}]_vars
=============================================================================
