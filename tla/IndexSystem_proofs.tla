------------------------- MODULE IndexSystem_proofs ------------------------
(***************************************************************************)
(* For any days, inodes, builds and faults, and one crawl process at a     *)
(* time, killed or failing anywhere: a swap publishes its own run, days    *)
(* that were skipped stay due, and the reader's cache and answers belong   *)
(* to an index that was in service; files and reader implement             *)
(* IndexPublication.                                                       *)
(***************************************************************************)
EXTENDS IndexSystem, FiniteSetTheorems, TLAPS

\* One crawl at a time: the weekly timer starts one unit, and nobody crawls by hand
\* beside it (deploy/RUNBOOK.md:83).
OneCrawler == \A k, m \in Crawler : k = m

(***************************************************************************)
(* The invariant.                                                          *)
(***************************************************************************)
Job == [cold : BOOLEAN, due : SUBSET Day, todo : SUBSET Day, rows : SUBSET Day,
        blank : SUBSET Day, skipped : SUBSET Day]

Phase == {"idle", "open", "fetch", "build", "building", "swap", "ended"}

CrawlTypes ==
  /\ FilesTypeOK
  /\ pc \in [Crawler -> Phase]
  /\ job \in [Crawler -> Job]
  /\ held \subseteq Day
  /\ faults \in 0..MaxFaults

\* Nobody reads the staging file, and no two files in use have one build_id.
FilesSound ==
  /\ staging # NoFile => staging # live /\ staging # fd[Server]
  /\ \A i, j \in InUse \ {NoFile} :
       content[i].build = content[j].build => i = j \/ content[i].build = NoBuild

\* The days of a run are still to fetch, skipped or stamped, and only one of them.
DaysApart(j) ==
  /\ j.todo \cap j.skipped = {}
  /\ j.todo \cap (j.rows \cup j.blank) = {}
  /\ j.skipped \cap (j.rows \cup j.blank) = {}

NotStamped(i, D) == \A d \in D : content[i].state[d] \in {"none", "stale"}

\* Where a run's connection is, what it has put in the staging file, and what the
\* crawl_state it worked from says of the days it has not stamped.
RunSound(k) ==
  /\ DaysApart(job[k])
  /\ pc[k] \in {"idle", "open"} => job[k] = [NoJob EXCEPT !.cold = job[k].cold]
  /\ pc[k] \notin {"fetch", "building"} => fd[k] = NoFile
  /\ pc[k] = "fetch" => fd[k] # NoFile /\ live \in {fd[k], NoFile}
  /\ pc[k] = "building" => staging # NoFile /\ fd[k] = staging /\ content[staging] = SchemaOnly
  /\ pc[k] = "swap" =>
       /\ staging # NoFile
       /\ \E b \in Build :
            content[staging] = [SchemaOnly EXCEPT !.build = b, !.reports = job[k].rows]
  /\ ~job[k].cold /\ pc[k] = "fetch" => NotStamped(fd[k], job[k].todo \cup job[k].skipped)
  /\ ~job[k].cold /\ pc[k] \in {"build", "building", "swap", "ended"} /\ Readable(live) =>
       NotStamped(live, job[k].skipped)

CrawlSound == CrawlTypes /\ FilesSound /\ \A k \in Crawler : RunSound(k)

\* The reader's cache is of its connection, and a query under way has a connection
\* to an index that was in service since it was asked.
ReaderSound ==
  /\ CacheCoherent
  /\ at = "down" => conn = NoFile
  /\ at \in {"exists", "probe", "reopen"} => conn # NoFile
  /\ Asked => Served(live) \in recent
  /\ at = "run" /\ conn # NoFile /\ NoIndex \notin recent => Served(conn) \in recent
  /\ AnswersAreCurrent

(***************************************************************************)
(* The natural numbers: a set that is closed under successor is all of     *)
(* them, for otherwise the successor maps a finite set into a smaller one. *)
(* So the next day to fetch exists.                                        *)
(***************************************************************************)

LEMMA Succession ==
  ASSUME NEW T \in SUBSET Nat, 0 \in T, \A n \in T : n + 1 \in T
  PROVE  T = Nat
<1> SUFFICES ASSUME NEW n \in Nat \ T PROVE FALSE
  OBVIOUS
<1> DEFINE A == T \cap (0..n)
           B == A \ {0}
           f == [x \in A |-> x + 1]
<1>1. /\ 0 \in A /\ A \subseteq 0..n
      /\ \A x \in A : x + 1 \in B
  OBVIOUS
<1>2. f \in [A -> B] /\ \A x, y \in A : f[x] = f[y] => x = y
  BY <1>1
<1> HIDE DEF A, f
<1>3. IsFiniteSet(A) /\ Cardinality(A) \in Nat
  <2>1. IsFiniteSet(0..n)
    BY FS_Interval
  <2> QED
    BY <1>1, <2>1, FS_Subset, FS_CardinalityType
<1>4. IsFiniteSet(B) /\ Cardinality(B) = Cardinality(A) - 1
  BY <1>1, <1>3, FS_RemoveElement
<1> HIDE DEF B
<1>5. \E x, y \in A : x # y /\ f[x] = f[y]
  BY <1>2, <1>3, <1>4, FS_PigeonHole
<1> QED
  BY <1>2, <1>5

LEMMA LeastElement ==
  ASSUME NEW T \in SUBSET Nat, T # {}
  PROVE  \E x \in T : \A y \in T : x <= y
<1> SUFFICES ASSUME \A x \in T : \E y \in T : ~(x <= y)
             PROVE  FALSE
  OBVIOUS
<1> DEFINE S == {n \in Nat : \A m \in 0..n : m \notin T}
<1>1. 0 \in S
  OBVIOUS
<1>2. \A n \in S : n + 1 \in S
  <2> TAKE n \in S
  <2>1. n + 1 \notin T
    OBVIOUS
  <2> QED
    BY <2>1
<1> HIDE DEF S
<1>3. S \in SUBSET Nat
  BY DEF S
<1>4. S = Nat
  BY <1>1, <1>2, <1>3, Succession
<1>5. PICK x \in T : TRUE
  OBVIOUS
<1>6. x \in S
  BY <1>4
<1> QED
  BY <1>6 DEF S

LEMMA MinInSet ==
  ASSUME NEW T \in SUBSET Day, T # {}
  PROVE  Min(T) \in T
BY FilesAssumption, LeastElement DEF Min

(***************************************************************************)
(* Types.                                                                  *)
(***************************************************************************)

LEMMA SchemaOnlyFacts ==
  /\ SchemaOnly \in File
  /\ SchemaOnly.kind = "db" /\ SchemaOnly.build = NoBuild /\ SchemaOnly.reports = {}
  /\ \A d \in Day : SchemaOnly.state[d] = "none"
BY DEF SchemaOnly, File, Stamp

LEMMA CorruptFacts ==
  Corrupt \in File /\ Corrupt.kind = "corrupt" /\ Corrupt.build = NoBuild /\ Corrupt.reports = {}
BY SchemaOnlyFacts DEF Corrupt, File

LEMMA BuiltFacts ==
  ASSUME NEW b \in Build, NEW R \in SUBSET Day
  PROVE  LET f == [SchemaOnly EXCEPT !.build = b, !.reports = R]
         IN  /\ f \in File /\ f.kind = "db" /\ f.build = b /\ f.reports = R
             /\ \A d \in Day : f.state[d] = "none"
BY SchemaOnlyFacts DEF File

LEMMA RestampedFacts ==
  ASSUME NEW f \in File, NEW s \in [Day -> Stamp]
  PROVE  LET g == [f EXCEPT !.state = s]
         IN  g \in File /\ g.kind = f.kind /\ g.build = f.build /\ g.reports = f.reports
             /\ g.state = s
BY DEF File

LEMMA KeptFacts ==
  ASSUME NEW c \in [Inode -> File], content' = Kept(c)
  PROVE  /\ content' \in [Inode -> File]
         /\ \A i \in Inode : i \in InUse' => content'[i] = c[i]
BY SchemaOnlyFacts DEF Kept

LEMMA JobFacts ==
  ASSUME NEW j \in Job
  PROVE  /\ j.cold \in BOOLEAN
         /\ j.due \subseteq Day /\ j.todo \subseteq Day /\ j.rows \subseteq Day
         /\ j.blank \subseteq Day /\ j.skipped \subseteq Day
BY DEF Job

LEMMA NoJobFacts ==
  /\ NoJob \in Job /\ ~NoJob.cold
  /\ \A c \in BOOLEAN :
       LET j == [NoJob EXCEPT !.cold = c]
       IN  j \in Job /\ j.cold = c /\ j.due = {} /\ j.todo = {} /\ j.rows = {} /\ j.blank = {}
             /\ j.skipped = {}
BY DEF NoJob, Job

\* A file system call of one crawler.
LEMMA CloseType ==
  ASSUME CrawlTypes, NEW k \in Crawler, Close(k)
  PROVE  /\ pc' \in [Crawler -> Phase] /\ fd' \in [Process -> Inode \cup {NoFile}]
         /\ pc'[k] = "ended" /\ fd'[k] = NoFile
         /\ \A p \in Process \ {k} : fd'[p] = fd[p]
BY DEF CrawlTypes, FilesTypeOK, Close, Phase, Process

LEMMA PhaseType ==
  ASSUME CrawlTypes, NEW k \in Crawler, NEW phase \in Phase, pc' = [pc EXCEPT ![k] = phase]
  PROVE  pc' \in [Crawler -> Phase] /\ pc'[k] = phase
BY DEF CrawlTypes

LEMMA ConnectionType ==
  ASSUME CrawlTypes, NEW p \in Process, NEW i \in Inode \cup {NoFile}, fd' = [fd EXCEPT ![p] = i]
  PROVE  /\ fd' \in [Process -> Inode \cup {NoFile}] /\ fd'[p] = i
         /\ \A q \in Process \ {p} : fd'[q] = fd[q]
BY DEF CrawlTypes, FilesTypeOK

LEMMA FaultType ==
  ASSUME CrawlTypes, Fault \/ NoFault
  PROVE  faults' \in 0..MaxFaults
BY FaultsAssumption DEF CrawlTypes, Fault, NoFault

LEMMA FreeFacts ==
  ASSUME CrawlTypes, NEW i \in Free
  PROVE  /\ i \in Inode /\ i # NoFile /\ i # live /\ i # staging
         /\ \A p \in Process : i # fd[p]
BY FilesAssumption DEF Free, InUse

LEMMA PlanType ==
  ASSUME CrawlTypes, NEW k \in Crawler, NEW file \in File, Plan(k, file)
  PROVE  /\ job' \in [Crawler -> Job]
         /\ job'[k] = [job[k] EXCEPT !.due = Due(file.state, job[k].cold),
                                     !.todo = Due(file.state, job[k].cold)]
<1>1. Due(file.state, job[k].cold) \subseteq Day
  BY DEF Due
<1> DEFINE due == Due(file.state, job[k].cold)
<1>2. job' = [job EXCEPT ![k] = [job[k] EXCEPT !.due = due, !.todo = due]]
  BY DEF Plan, CrawlTypes
<1> HIDE DEF due
<1>3. [job[k] EXCEPT !.due = due, !.todo = due] \in Job
  <2>1. job[k] \in Job /\ due \subseteq Day
    BY <1>1 DEF due, CrawlTypes
  <2> QED
    BY <2>1 DEF Job
<1>4. /\ job' \in [Crawler -> Job]
      /\ job'[k] = [job[k] EXCEPT !.due = due, !.todo = due]
  BY <1>2, <1>3 DEF CrawlTypes
<1> QED
  BY <1>4 DEF due

\* What has become of the day that was fetched.
LEMMA FetchedFacts ==
  ASSUME CrawlTypes, NEW k \in Crawler, NEW into \in {"rows", "blank", "skip"}, Fetched(k, into)
  PROVE  /\ job' \in [Crawler -> Job]
         /\ pc[k] = "fetch" /\ job'[k].cold = job[k].cold
         /\ \E d \in job[k].todo :
              /\ job'[k].todo = job[k].todo \ {d}
              /\ job'[k].rows = IF into = "rows" THEN job[k].rows \cup {d} ELSE job[k].rows
              /\ job'[k].blank = IF into = "blank" THEN job[k].blank \cup {d} ELSE job[k].blank
              /\ job'[k].skipped = IF into = "skip" THEN job[k].skipped \cup {d}
                                   ELSE job[k].skipped
<1> DEFINE d == Min(job[k].todo)
           next == [job[k] EXCEPT !.todo = @ \ {d},
                      !.rows = IF into = "rows" THEN @ \cup {d} ELSE @,
                      !.blank = IF into = "blank" THEN @ \cup {d} ELSE @,
                      !.skipped = IF into = "skip" THEN @ \cup {d} ELSE @]
<1>1. job[k] \in Job
  BY DEF CrawlTypes
<1>2. job[k].todo # {} /\ d \in job[k].todo /\ d \in Day
  BY <1>1, JobFacts, MinInSet DEF Fetched
<1>3. job' = [job EXCEPT ![k] = next]
  BY <1>1 DEF Fetched, CrawlTypes, Job
<1> HIDE DEF d
<1>4. next \in Job
  BY <1>1, <1>2, JobFacts DEF Job
<1>5. job' \in [Crawler -> Job] /\ job'[k] = next
  BY <1>3, <1>4 DEF CrawlTypes
<1>6. /\ next.cold = job[k].cold /\ next.todo = job[k].todo \ {d}
      /\ next.rows = IF into = "rows" THEN job[k].rows \cup {d} ELSE job[k].rows
      /\ next.blank = IF into = "blank" THEN job[k].blank \cup {d} ELSE job[k].blank
      /\ next.skipped = IF into = "skip" THEN job[k].skipped \cup {d} ELSE job[k].skipped
  BY <1>1 DEF Job
<1> HIDE DEF next
<1>7. pc[k] = "fetch"
  BY DEF Fetched
<1> QED
  BY <1>2, <1>5, <1>6, <1>7

LEMMA OpenStateType ==
  ASSUME CrawlTypes, NEW k \in Crawler, OpenState(k)
  PROVE  CrawlTypes'
<1>1. pc' \in [Crawler -> Phase] /\ faults' \in 0..MaxFaults
  BY PhaseType, FaultType DEF OpenState, Phase
<1>2. content' \in [Inode -> File] /\ live' \in Inode \cup {NoFile}
      /\ fd' \in [Process -> Inode \cup {NoFile}] /\ job' \in [Crawler -> Job]
  <2>1. ASSUME NEW i \in Free, live' = i, content' = [content EXCEPT ![i] = SchemaOnly],
               fd' = [fd EXCEPT ![k] = i], Plan(k, SchemaOnly)
        PROVE  content' \in [Inode -> File] /\ live' \in Inode \cup {NoFile}
               /\ fd' \in [Process -> Inode \cup {NoFile}] /\ job' \in [Crawler -> Job]
    BY <2>1, FreeFacts, PlanType, SchemaOnlyFacts, ConnectionType DEF CrawlTypes, FilesTypeOK, Process
  <2>2. CASE Readable(live) /\ fd' = [fd EXCEPT ![k] = live] /\ Plan(k, content[live])
             /\ UNCHANGED <<live, content>>
    BY <2>2, PlanType, ConnectionType DEF CrawlTypes, FilesTypeOK, Readable, Process
  <2> QED
    BY <2>1, <2>2 DEF OpenState
<1> QED
  BY <1>1, <1>2 DEF OpenState, CrawlTypes, FilesTypeOK

\* The files that Commit, BuildStart and BuildCommit leave behind are files.
LEMMA CommitType ==
  ASSUME CrawlTypes, NEW k \in Crawler, fd[k] # NoFile, Commit(k)
  PROVE  /\ CrawlTypes'
         /\ \E s \in [Day -> Stamp] :
              /\ \A d \in Day : d \notin job[k].rows \cup job[k].blank =>
                                  s[d] = content[fd[k]].state[d]
              /\ content' = Kept([content EXCEPT ![fd[k]] = [content[fd[k]] EXCEPT !.state = s]])
<1> DEFINE s == [d \in Day |-> IF d \in job[k].rows THEN "fresh"
                               ELSE IF d \in job[k].blank THEN "empty"
                               ELSE content[fd[k]].state[d]]
           c == [content EXCEPT ![fd[k]] = [content[fd[k]] EXCEPT !.state = s]]
<1>1. fd[k] \in Inode /\ content[fd[k]] \in File
  BY DEF CrawlTypes, FilesTypeOK, Process
<1>2. s \in [Day -> Stamp]
  BY <1>1 DEF File, Stamp
<1>3. content' = Kept(c)
  BY <1>1 DEF Commit, CrawlTypes, FilesTypeOK, File
<1> HIDE DEF s
<1>4. c \in [Inode -> File]
  BY <1>1, <1>2, RestampedFacts DEF CrawlTypes, FilesTypeOK
<1>5. pc' \in [Crawler -> Phase] /\ faults' \in 0..MaxFaults
      /\ fd' \in [Process -> Inode \cup {NoFile}]
  BY PhaseType, FaultType, ConnectionType DEF Commit, Phase, Process
<1>6. content' \in [Inode -> File]
  BY <1>3, <1>4, KeptFacts
<1>7. CrawlTypes'
  BY <1>5, <1>6 DEF Commit, CrawlTypes, FilesTypeOK
<1> QED
  BY <1>2, <1>3, <1>7 DEF s

LEMMA BuildStartType ==
  ASSUME CrawlTypes, NEW k \in Crawler, BuildStart(k)
  PROVE  CrawlTypes'
<1>1. staging' \in Inode /\ fd' \in [Process -> Inode \cup {NoFile}]
  BY FreeFacts, ConnectionType DEF BuildStart, Process
<1>2. [content EXCEPT ![staging'] = SchemaOnly] \in [Inode -> File]
  BY <1>1, SchemaOnlyFacts DEF CrawlTypes, FilesTypeOK
<1>3. content' \in [Inode -> File]
  BY <1>2, KeptFacts DEF BuildStart
<1>4. pc' \in [Crawler -> Phase] /\ faults' \in 0..MaxFaults
  BY PhaseType, FaultType DEF BuildStart, Phase
<1> QED
  BY <1>1, <1>3, <1>4 DEF BuildStart, CrawlTypes, FilesTypeOK

LEMMA BuildCommitType ==
  ASSUME CrawlTypes, NEW k \in Crawler, fd[k] # NoFile, BuildCommit(k)
  PROVE  /\ CrawlTypes'
         /\ \E b \in Build :
              /\ FreshBuild(b)
              /\ content' = Kept([content EXCEPT ![fd[k]] =
                   [content[fd[k]] EXCEPT !.build = b,
                                          !.reports = content[fd[k]].reports \cup job[k].rows]])
<1>1. fd[k] \in Inode /\ content[fd[k]] \in File /\ job[k].rows \subseteq Day
  BY JobFacts DEF CrawlTypes, FilesTypeOK, Process
<1>2. PICK b \in Build :
        /\ FreshBuild(b)
        /\ content' = Kept([content EXCEPT ![fd[k]] =
             [content[fd[k]] EXCEPT !.build = b,
                                    !.reports = content[fd[k]].reports \cup job[k].rows]])
  BY <1>1 DEF BuildCommit, CrawlTypes, FilesTypeOK, File
<1>3. [content[fd[k]] EXCEPT !.build = b, !.reports = content[fd[k]].reports \cup job[k].rows] \in File
  BY <1>1 DEF File
<1>4. content' \in [Inode -> File]
  BY <1>1, <1>2, <1>3, KeptFacts DEF CrawlTypes, FilesTypeOK
<1>5. pc' \in [Crawler -> Phase] /\ faults' \in 0..MaxFaults
      /\ fd' \in [Process -> Inode \cup {NoFile}]
  BY PhaseType, FaultType, ConnectionType DEF BuildCommit, Phase, Process
<1>6. CrawlTypes'
  BY <1>4, <1>5 DEF BuildCommit, CrawlTypes, FilesTypeOK
<1> QED
  BY <1>2, <1>6

LEMMA KeptContentType ==
  ASSUME CrawlTypes, content' = Kept(content)
  PROVE  content' \in [Inode -> File]
BY KeptFacts DEF CrawlTypes, FilesTypeOK

LEMMA AgeFacts ==
  ASSUME CrawlTypes, NEW d \in Day, Age(d)
  PROVE  /\ CrawlTypes'
         /\ \A i \in Inode :
              /\ content'[i].kind = content[i].kind /\ content'[i].build = content[i].build
              /\ content'[i].reports = content[i].reports
              /\ \A e \in Day :
                   \/ content'[i].state[e] = content[i].state[e]
                   \/ content'[i].state[e] = "stale" /\ content[i].state[e] = "fresh"
              /\ (\A e \in Day : content[i].state[e] # "fresh") => content'[i] = content[i]
<1> DEFINE older(i) == [content[i] EXCEPT !.state[d] = "stale"]
<1>1. \A i \in Inode : content[i] \in File
  BY DEF CrawlTypes, FilesTypeOK
<1>2. \A i \in Inode :
        /\ older(i) \in File
        /\ older(i).kind = content[i].kind /\ older(i).build = content[i].build
        /\ older(i).reports = content[i].reports
        /\ older(i).state = [content[i].state EXCEPT ![d] = "stale"]
  BY <1>1 DEF File, Stamp
<1>3. content' = [i \in Inode |-> IF content[i].state[d] = "fresh" THEN older(i) ELSE content[i]]
  BY DEF Age
<1> HIDE DEF older
<1>4. content' \in [Inode -> File]
  BY <1>1, <1>2, <1>3
<1>5. \A i \in Inode : content[i].state \in [Day -> Stamp]
  BY <1>1 DEF File
<1>6. \A i \in Inode : \A e \in Day :
        \/ content'[i].state[e] = content[i].state[e]
        \/ content'[i].state[e] = "stale" /\ content[i].state[e] = "fresh"
  BY <1>2, <1>3, <1>5
<1>7. CrawlTypes'
  BY <1>4, FaultType DEF Age, CrawlTypes, FilesTypeOK
<1> QED
  BY <1>2, <1>3, <1>6, <1>7

\* Every other step of a run, and of its environment.
LEMMA OtherTypes ==
  ASSUME CrawlTypes, NEW k \in Crawler,
         \/ Launch(k) \/ LaunchFromCommandLine(k) \/ UnlinkCorrupt(k) \/ FetchDay(k)
         \/ FetchGarbled(k) \/ FetchDown(k) \/ FetchFails(k) \/ BuildFails(k) \/ Swap(k)
         \/ Crash(k) \/ Rest(k)
  PROVE  CrawlTypes'
<1> USE DEF CrawlTypes, FilesTypeOK, files
<1>0. faults' \in 0..MaxFaults
  BY FaultType DEF Launch, LaunchFromCommandLine, UnlinkCorrupt, FetchDay, FetchGarbled,
     FetchDown, FetchFails, BuildFails, Swap, Crash, Rest
<1>1. CASE Launch(k)
  <2>1. \A c \in BOOLEAN : [job EXCEPT ![k].cold = c] \in [Crawler -> Job]
    BY DEF Job
  <2>2. pc' \in [Crawler -> Phase]
    BY <1>1 DEF Launch, Phase
  <2>3. job' \in [Crawler -> Job]
    BY <1>1, <2>1 DEF Launch
  <2> QED
    BY <1>0, <1>1, <2>2, <2>3 DEF Launch
<1>2. CASE LaunchFromCommandLine(k)
  BY <1>0, <1>2, PhaseType DEF LaunchFromCommandLine, Phase
<1>3. CASE UnlinkCorrupt(k)
  BY <1>0, <1>3, KeptContentType DEF UnlinkCorrupt
<1>4. CASE FetchDay(k)
  <2>1. \E into \in {"rows", "blank", "skip"} : Fetched(k, into)
    BY <1>4 DEF FetchDay
  <2> QED
    BY <1>0, <2>1, FetchedFacts DEF Fetched
<1>5. CASE FetchGarbled(k) \/ FetchDown(k)
  <2>1. \E into \in {"rows", "blank", "skip"} : Fetched(k, into)
    BY <1>5 DEF FetchGarbled, FetchDown
  <2> QED
    BY <1>0, <2>1, FetchedFacts DEF Fetched
<1>6. CASE FetchFails(k)
  BY <1>0, <1>6, KeptContentType, CloseType DEF FetchFails
<1>7. CASE BuildFails(k)
  BY <1>0, <1>7, KeptContentType, CloseType DEF BuildFails
<1>8. CASE Swap(k)
  BY <1>0, <1>8, KeptContentType, CloseType DEF Swap
<1>9. CASE Crash(k)
  BY <1>0, <1>9, KeptContentType, CloseType DEF Crash
<1>10. CASE Rest(k)
  BY <1>0, <1>10, PhaseType, NoJobFacts DEF Rest, Phase
<1> QED
  BY <1>1, <1>2, <1>3, <1>4, <1>5, <1>6, <1>7, <1>8, <1>9, <1>10

LEMMA EnvironmentTypes ==
  ASSUME CrawlTypes, Environment
  PROVE  CrawlTypes'
<1>1. CASE Remove
  BY <1>1, KeptContentType, FaultType DEF Remove, CrawlTypes, FilesTypeOK
<1>2. ASSUME NEW d \in Day, Age(d)
      PROVE  CrawlTypes'
  BY <1>2, AgeFacts
<1>3. ASSUME NEW d \in Day, Publish(d)
      PROVE  CrawlTypes'
  BY <1>3, FaultType DEF Publish, CrawlTypes, FilesTypeOK, files
<1> QED
  BY <1>1, <1>2, <1>3 DEF Environment

(***************************************************************************)
(* What a step of the crawl does to the files: the reader's file stays as  *)
(* it is, and what is in service stays, goes, or gives way to a whole      *)
(* index that the reader does not have.                                    *)
(***************************************************************************)
ReaderKept ==
  /\ conn' = conn
  /\ conn # NoFile => Served(conn)' = Served(conn) /\ content'[conn].build = content[conn].build

WholeIndex == [build : Build, reports : SUBSET Day]

Supersedes == Served(live)' \in WholeIndex /\ Served(live)' # Served(conn)

PublishStep == Served(live)' = Served(live) \/ Served(live)' = NoIndex \/ Supersedes

FileStep == FilesSound' /\ ReaderKept /\ PublishStep

SameIndex(i) ==
  /\ content'[i].kind = content[i].kind
  /\ content'[i].build = content[i].build
  /\ content'[i].reports = content[i].reports

LEMMA ServedFacts ==
  /\ NoIndex = [build |-> NoBuild, reports |-> {}]
  /\ \A i \in Inode : Served(i) = IF Whole(content[i])
                                  THEN [build |-> content[i].build, reports |-> content[i].reports]
                                  ELSE NoIndex
BY FilesAssumption DEF NoIndex, Served

LEMMA ServedSame ==
  ASSUME NEW i \in Inode, SameIndex(i)
  PROVE  /\ (IF i # NoFile /\ Whole(content'[i])
             THEN [build |-> content'[i].build, reports |-> content'[i].reports]
             ELSE [build |-> NoBuild, reports |-> {}]) = Served(i)
         /\ content'[i].build = content[i].build
BY DEF SameIndex, Served, Whole

\* No path and no connection comes to name a file that was not in use.
LEMMA Narrowing ==
  ASSUME CrawlTypes, FilesSound, live' \in {live, NoFile}, staging' \in {staging, NoFile},
         \A p \in Process : fd'[p] \in {fd[p], NoFile, live},
         \A i \in Inode : i \in InUse' => content'[i].build = content[i].build
  PROVE  FilesSound'
<1>1. Server \in Process
  BY DEF Process
<1>2. InUse' \subseteq InUse \cup {NoFile}
  BY DEF InUse
<1>3. InUse \subseteq Inode \cup {NoFile}
  BY DEF InUse, CrawlTypes, FilesTypeOK
<1>4. staging' # NoFile => staging' # live' /\ staging' # fd'[Server]
  BY <1>1 DEF FilesSound
<1>5. \A i, j \in InUse' \ {NoFile} :
        content'[i].build = content'[j].build => i = j \/ content'[i].build = NoBuild
  BY <1>2, <1>3 DEF FilesSound
<1> QED
  BY <1>4, <1>5 DEF FilesSound

LEMMA NarrowStep ==
  ASSUME CrawlTypes, FilesSound, live' \in {live, NoFile}, staging' \in {staging, NoFile},
         \A p \in Process : fd'[p] \in {fd[p], NoFile, live}, conn' = conn,
         \A i \in Inode : i \in InUse' => SameIndex(i)
  PROVE  FileStep
<1>1. FilesSound'
  BY Narrowing DEF SameIndex
<1>2. conn # NoFile => conn \in Inode /\ conn \in InUse'
  BY DEF CrawlTypes, FilesTypeOK, Process, InUse, conn
<1>3. ReaderKept
  BY <1>2, ServedSame DEF ReaderKept, Served
<1>4. live' # NoFile => live \in Inode /\ live \in InUse'
  BY DEF CrawlTypes, FilesTypeOK, InUse
<1>5. Served(live)' = Served(live) \/ Served(live)' = NoIndex
  BY <1>4, ServedSame DEF Served, NoIndex
<1> QED
  BY <1>1, <1>3, <1>5 DEF FileStep, PublishStep

\* One file is made or written, at the staging path, which the reader does not have.
LEMMA WriteStep ==
  ASSUME CrawlTypes, FilesSound, NEW i \in Inode, i # live, i # conn,
         live' = live, staging' = i, conn' = conn,
         \A p \in Process : fd'[p] \in {fd[p], i, NoFile},
         \A j \in Inode : j \in InUse' \ {i} => content'[j] = content[j],
         \/ content'[i].build = NoBuild
         \/ \A j \in InUse \ {NoFile} : content[j].build # content'[i].build
  PROVE  FileStep
<1>1. \A j \in {live, conn} \ {NoFile} : j \in Inode /\ j \in InUse' \ {i}
  BY DEF CrawlTypes, FilesTypeOK, Process, InUse, conn
<1>2. \A j \in Inode : j \in InUse' \ {i} => SameIndex(j)
  BY DEF SameIndex
<1>3. ReaderKept
  BY <1>1, <1>2, ServedSame DEF ReaderKept, Served
<1>4. Served(live)' = Served(live)
  BY <1>1, <1>2, ServedSame DEF Served
<1>5. InUse' \subseteq InUse \cup {i, NoFile}
  BY DEF InUse
<1>6. InUse \subseteq Inode \cup {NoFile}
  BY DEF InUse, CrawlTypes, FilesTypeOK
<1>7. \A j, l \in InUse' \ {NoFile} :
        content'[j].build = content'[l].build => j = l \/ content'[j].build = NoBuild
  <2>1. \A j, l \in InUse' \ {NoFile, i} :
          content'[j].build = content'[l].build => j = l \/ content'[j].build = NoBuild
    BY <1>5, <1>6 DEF FilesSound
  <2>2. \A j \in InUse' \ {NoFile, i} :
          content'[j].build = content'[i].build => content'[i].build = NoBuild
    BY <1>5, <1>6
  <2> QED
    BY <2>1, <2>2
<1>8. FilesSound'
  BY <1>7 DEF FilesSound, conn
<1> QED
  BY <1>3, <1>4, <1>8 DEF FileStep, PublishStep

LEMMA CreateLiveStep ==
  ASSUME CrawlTypes, FilesSound, NEW k \in Crawler, NEW i \in Free, live = NoFile, live' = i,
         content' = [content EXCEPT ![i] = SchemaOnly], fd' = [fd EXCEPT ![k] = i],
         UNCHANGED staging
  PROVE  FileStep
<1>1. i \in Inode /\ i # staging /\ \A p \in Process : i # fd[p]
  BY FreeFacts
<1>2. Server \in Process /\ k # Server
  BY FilesAssumption DEF Process
<1>3. content'[i] = SchemaOnly /\ \A j \in Inode \ {i} : content'[j] = content[j]
  BY <1>1 DEF CrawlTypes, FilesTypeOK
<1>4. conn' = conn /\ conn # i /\ \A p \in Process : fd'[p] \in {fd[p], i}
  BY <1>1, <1>2 DEF conn, CrawlTypes, FilesTypeOK
<1>5. ReaderKept
  <2>1. conn # NoFile => conn \in Inode \ {i}
    BY <1>2, <1>4 DEF conn, CrawlTypes, FilesTypeOK
  <2> QED
    BY <1>3, <1>4, <2>1 DEF ReaderKept, Served
<1>6. Served(live)' = NoIndex
  BY <1>3, SchemaOnlyFacts DEF Served, NoIndex, Whole
<1>7. InUse' \subseteq InUse \cup {i} /\ InUse \subseteq Inode \cup {NoFile}
  BY <1>4 DEF InUse, CrawlTypes, FilesTypeOK
<1>8. \A j, l \in InUse' \ {NoFile} :
        content'[j].build = content'[l].build => j = l \/ content'[j].build = NoBuild
  BY <1>3, <1>7, SchemaOnlyFacts DEF FilesSound
<1>9. FilesSound'
  BY <1>1, <1>4, <1>8 DEF FilesSound, conn
<1> QED
  BY <1>5, <1>6, <1>9 DEF FileStep, PublishStep

LEMMA BuildStartStep ==
  ASSUME CrawlTypes, FilesSound, NEW k \in Crawler, BuildStart(k)
  PROVE  /\ FileStep /\ content'[staging'] = SchemaOnly
         /\ staging' \in Inode \ {live} /\ fd'[k] = staging'
         /\ live # NoFile => content'[live] = content[live]
<1>1. PICK i \in Free : staging' = i /\ fd' = [fd EXCEPT ![k] = i]
  BY DEF BuildStart
<1> DEFINE c == [content EXCEPT ![i] = SchemaOnly]
<1>2. /\ i \in Inode /\ i # live /\ i # staging
      /\ \A p \in Process : i # fd[p]
  BY FreeFacts
<1>3. Server \in Process /\ k \in Process /\ k # Server
  BY FilesAssumption DEF Process
<1>4. fd'[k] = i /\ conn' = conn /\ conn # i /\ \A p \in Process : fd'[p] \in {fd[p], i}
  BY <1>1, <1>2, <1>3 DEF conn, CrawlTypes, FilesTypeOK
<1>5. c \in [Inode -> File] /\ c[i] = SchemaOnly /\ \A j \in Inode \ {i} : c[j] = content[j]
  BY <1>2, SchemaOnlyFacts DEF CrawlTypes, FilesTypeOK
<1>6. content' = Kept(c)
  BY <1>1 DEF BuildStart
<1> HIDE DEF c
<1>7. \A j \in Inode : j \in InUse' => content'[j] = c[j]
  BY <1>5, <1>6, KeptFacts
<1>8. i \in InUse' /\ live' = live /\ (live # NoFile => live \in Inode /\ live \in InUse')
  BY <1>1 DEF InUse, BuildStart, CrawlTypes, FilesTypeOK
<1>9. content'[i] = SchemaOnly
  BY <1>2, <1>5, <1>7, <1>8
<1>10. FileStep
  BY <1>1, <1>2, <1>4, <1>5, <1>7, <1>8, <1>9, SchemaOnlyFacts, WriteStep
<1> QED
  BY <1>1, <1>2, <1>4, <1>5, <1>7, <1>8, <1>9, <1>10

LEMMA BuildCommitStep ==
  ASSUME CrawlTypes, FilesSound, NEW k \in Crawler, RunSound(k), BuildCommit(k)
  PROVE  /\ FileStep
         /\ staging' = staging /\ staging # NoFile
         /\ \E b \in Build :
              content'[staging] = [SchemaOnly EXCEPT !.build = b, !.reports = job[k].rows]
         /\ live # NoFile => content'[live] = content[live]
<1>1. /\ staging \in Inode /\ fd[k] = staging /\ content[staging] = SchemaOnly
      /\ live' = live /\ staging' = staging /\ fd' = [fd EXCEPT ![k] = NoFile]
  BY DEF BuildCommit, RunSound, CrawlTypes, FilesTypeOK
<1>2. PICK b \in Build :
        /\ FreshBuild(b)
        /\ content' = Kept([content EXCEPT ![staging] =
             [SchemaOnly EXCEPT !.build = b, !.reports = SchemaOnly.reports \cup job[k].rows]])
  BY <1>1, BuildCommitType, FilesAssumption DEF CrawlTypes, FilesTypeOK
<1> DEFINE f == [SchemaOnly EXCEPT !.build = b, !.reports = job[k].rows]
           c == [content EXCEPT ![staging] = f]
<1>3. SchemaOnly.reports \cup job[k].rows = job[k].rows /\ job[k].rows \subseteq Day
  BY SchemaOnlyFacts, JobFacts DEF CrawlTypes
<1>4. content' = Kept(c)
  BY <1>2, <1>3
<1>5. f \in File /\ f.build = b
  BY <1>3, SchemaOnlyFacts DEF File
<1> HIDE DEF f
<1>6. c \in [Inode -> File] /\ c[staging] = f /\ \A j \in Inode \ {staging} : c[j] = content[j]
  BY <1>1, <1>5 DEF CrawlTypes, FilesTypeOK
<1> HIDE DEF c
<1>7. \A j \in Inode : j \in InUse' => content'[j] = c[j]
  BY <1>4, <1>6, KeptFacts
<1>8. staging \in InUse' /\ (live # NoFile => live \in Inode /\ live \in InUse')
  BY <1>1 DEF InUse, CrawlTypes, FilesTypeOK
<1>9. content'[staging] = f
  BY <1>1, <1>6, <1>7, <1>8
<1>10. staging # live /\ staging # conn /\ Server \in Process /\ k # Server
  BY <1>1, FilesAssumption DEF FilesSound, conn, Process, CrawlTypes, FilesTypeOK
<1>11. conn' = conn /\ \A p \in Process : fd'[p] \in {fd[p], NoFile}
  BY <1>1, <1>10 DEF conn, CrawlTypes, FilesTypeOK
<1>12. \A j \in InUse \ {NoFile} : content[j].build # content'[staging].build
  BY <1>2, <1>5, <1>9 DEF FreshBuild
<1>13. \A j \in Inode : j \in InUse' \ {staging} => content'[j] = content[j]
  BY <1>6, <1>7
<1>14. FileStep
  <2> DEFINE s == staging
  <2>1. s \in Inode /\ s # live /\ s # conn /\ live' = live /\ staging' = s /\ conn' = conn
    BY <1>1, <1>10, <1>11
  <2>2. \A p \in Process : fd'[p] \in {fd[p], s, NoFile}
    BY <1>11
  <2> QED
    BY <1>12, <1>13, <2>1, <2>2, WriteStep
<1>15. f = [SchemaOnly EXCEPT !.build = b, !.reports = job[k].rows]
  BY DEF f
<1>16. live # NoFile => content'[live] = content[live]
  BY <1>8, <1>10, <1>13
<1> QED
  BY <1>1, <1>9, <1>14, <1>15, <1>16, FilesAssumption

LEMMA SwapStep ==
  ASSUME CrawlTypes, FilesSound, NEW k \in Crawler, RunSound(k), Swap(k)
  PROVE  /\ FileStep
         /\ live' # NoFile /\ content'[live'] = content[staging]
         /\ \E b \in Build :
              content'[live'] = [SchemaOnly EXCEPT !.build = b, !.reports = job[k].rows]
<1>1. PICK b \in Build :
        content[staging] = [SchemaOnly EXCEPT !.build = b, !.reports = job[k].rows]
  BY DEF RunSound, Swap
<1>2. /\ staging \in Inode /\ staging # live /\ staging # conn
      /\ live' = staging /\ staging' = NoFile
  BY DEF RunSound, Swap, CrawlTypes, FilesTypeOK, FilesSound, conn
<1>3. Server \in Process /\ k # Server
  BY FilesAssumption DEF Process
<1>4. conn' = conn /\ \A p \in Process : fd'[p] \in {fd[p], NoFile}
  BY <1>3 DEF Swap, Close, conn, CrawlTypes, FilesTypeOK
<1>5. \A j \in Inode : j \in InUse' => content'[j] = content[j]
  BY KeptFacts DEF Swap, CrawlTypes, FilesTypeOK
<1>6. live' \in InUse' /\ content'[live'] = content[staging]
  BY <1>2, <1>5 DEF InUse
<1>7. InUse' \subseteq InUse \cup {NoFile} /\ InUse \subseteq Inode \cup {NoFile}
  BY <1>2, <1>4 DEF InUse, CrawlTypes, FilesTypeOK
<1>8. FilesSound'
  <2>1. \A i, j \in InUse' \ {NoFile} :
          content'[i].build = content'[j].build => i = j \/ content'[i].build = NoBuild
    BY <1>5, <1>7 DEF FilesSound
  <2> QED
    BY <1>2, <2>1 DEF FilesSound
<1>9. conn # NoFile => conn \in Inode /\ conn \in InUse /\ conn \in InUse'
  BY <1>3, <1>4 DEF conn, InUse, CrawlTypes, FilesTypeOK
<1>10. ReaderKept
  BY <1>4, <1>5, <1>9 DEF ReaderKept, Served
<1> DEFINE f == [SchemaOnly EXCEPT !.build = b, !.reports = job[k].rows]
<1>11. f.kind = "db" /\ f.build = b /\ f.reports = job[k].rows /\ job[k].rows \subseteq Day
  <2>1. job[k].rows \subseteq Day
    BY JobFacts DEF CrawlTypes
  <2> QED
    BY <2>1, SchemaOnlyFacts DEF File
<1>12. content[staging] = f
  BY <1>1
<1> HIDE DEF f
<1>13. Served(live)' = [build |-> b, reports |-> job[k].rows]
  BY <1>2, <1>6, <1>11, <1>12, FilesAssumption DEF Served, Whole
<1>14. conn # NoFile => content[conn].build # b
  BY <1>2, <1>9, <1>11, <1>12, FilesAssumption DEF FilesSound, InUse
<1>15. Served(conn).build # b
  BY <1>14, FilesAssumption DEF Served
<1>16. PublishStep
  BY <1>11, <1>13, <1>15 DEF PublishStep, Supersedes, WholeIndex
<1> QED
  BY <1>1, <1>2, <1>6, <1>8, <1>10, <1>16, FilesAssumption DEF FileStep

\* The file steps that only let go of files.
LEMMA LetGoStep ==
  ASSUME CrawlTypes, FilesSound, NEW k \in Crawler,
         \/ UnlinkCorrupt(k) \/ FetchFails(k) \/ BuildFails(k) \/ Crash(k) \/ Remove
  PROVE  /\ FileStep
         /\ live' \in {live, NoFile}
         /\ live' # NoFile => content'[live'] = content[live]
<1>1. Server \in Process /\ k # Server
  BY FilesAssumption DEF Process
<1>2. /\ live' \in {live, NoFile} /\ staging' \in {staging, NoFile} /\ conn' = conn
      /\ \A p \in Process : fd'[p] \in {fd[p], NoFile}
      /\ content' = Kept(content)
  BY <1>1 DEF UnlinkCorrupt, FetchFails, BuildFails, Crash, Remove, Close, conn, CrawlTypes, FilesTypeOK
<1>3. \A j \in Inode : j \in InUse' => content'[j] = content[j]
  BY <1>2, KeptFacts DEF CrawlTypes, FilesTypeOK
<1>4. FileStep
  BY <1>2, <1>3, NarrowStep DEF SameIndex
<1>5. live' # NoFile => live' \in Inode /\ live' \in InUse'
  BY <1>2 DEF InUse, CrawlTypes, FilesTypeOK
<1> QED
  BY <1>2, <1>3, <1>4, <1>5

LEMMA OpenStateStep ==
  ASSUME CrawlTypes, FilesSound, NEW k \in Crawler, RunSound(k), OpenState(k)
  PROVE  FileStep /\ RunSound(k)'
<1> DEFINE plan(D) == [job[k] EXCEPT !.due = D, !.todo = D]
<1>1. job[k] = [NoJob EXCEPT !.cold = job[k].cold] /\ job[k] \in Job /\ pc[k] = "open"
  BY DEF RunSound, OpenState, CrawlTypes
<1>2. \A D : /\ plan(D).todo = D /\ plan(D).cold = job[k].cold
             /\ plan(D).rows = {} /\ plan(D).blank = {} /\ plan(D).skipped = {}
  BY <1>1 DEF Job, NoJob
<1>3. pc'[k] = "fetch"
  BY DEF OpenState, CrawlTypes
<1>4. ASSUME NEW file \in File, Plan(k, file), NEW i \in Inode, fd'[k] = i, live' = i,
             content'[i] = file
      PROVE  RunSound(k)'
  <2>1. job'[k] = plan(Due(file.state, job[k].cold))
    BY <1>4, PlanType
  <2>2. ~job[k].cold => \A d \in Due(file.state, job[k].cold) : file.state[d] \in {"none", "stale"}
    BY DEF Due
  <2> HIDE DEF plan
  <2>3. DaysApart(job'[k])
    BY <1>2, <2>1 DEF DaysApart
  <2>4. ~job'[k].cold => \A d \in job'[k].todo \cup job'[k].skipped :
                            content'[fd'[k]].state[d] \in {"none", "stale"}
    BY <1>2, <1>4, <2>1, <2>2
  <2> QED
    BY <1>3, <1>4, <2>3, <2>4, FilesAssumption DEF RunSound, DaysApart, NotStamped
<1>5. ASSUME NEW i \in Free, live = NoFile, live' = i,
             content' = [content EXCEPT ![i] = SchemaOnly],
             fd' = [fd EXCEPT ![k] = i], Plan(k, SchemaOnly), UNCHANGED staging
      PROVE  FileStep /\ RunSound(k)'
  <2>1. i \in Inode /\ content'[i] = SchemaOnly /\ fd'[k] = i
    BY <1>5, FreeFacts DEF CrawlTypes, FilesTypeOK, Process
  <2> QED
    BY <1>4, <1>5, <2>1, CreateLiveStep, SchemaOnlyFacts
<1>6. CASE /\ Readable(live) /\ fd' = [fd EXCEPT ![k] = live] /\ Plan(k, content[live])
           /\ UNCHANGED <<live, content, staging>>
  <2>1. live \in Inode /\ content[live] \in File /\ fd'[k] = live
    BY <1>6 DEF CrawlTypes, FilesTypeOK, Process, Readable
  <2>2. RunSound(k)'
    BY <1>4, <1>6, <2>1
  <2>3. conn' = conn /\ \A p \in Process : fd'[p] \in {fd[p], NoFile, live}
    BY <1>6, FilesAssumption DEF conn, Process, CrawlTypes, FilesTypeOK
  <2>4. FileStep
    BY <1>6, <2>3, NarrowStep DEF SameIndex
  <2> QED
    BY <2>2, <2>4
<1> QED
  BY <1>5, <1>6 DEF OpenState

LEMMA CommitStep ==
  ASSUME CrawlTypes, FilesSound, NEW k \in Crawler, RunSound(k), Commit(k)
  PROVE  FileStep /\ RunSound(k)'
<1>1. /\ fd[k] \in Inode /\ live \in {fd[k], NoFile} /\ live' = live /\ staging' = staging
      /\ content[fd[k]] \in File /\ UNCHANGED job /\ pc[k] = "fetch" /\ pc'[k] = "build"
      /\ fd' = [fd EXCEPT ![k] = NoFile]
  BY DEF Commit, RunSound, CrawlTypes, FilesTypeOK, Process
<1>2. PICK s \in [Day -> Stamp] :
        /\ \A d \in Day : d \notin job[k].rows \cup job[k].blank => s[d] = content[fd[k]].state[d]
        /\ content' = Kept([content EXCEPT ![fd[k]] = [content[fd[k]] EXCEPT !.state = s]])
  BY <1>1, CommitType, FilesAssumption
<1> DEFINE f == [content[fd[k]] EXCEPT !.state = s]
           c == [content EXCEPT ![fd[k]] = f]
<1>3. /\ f \in File /\ f.kind = content[fd[k]].kind /\ f.build = content[fd[k]].build
      /\ f.reports = content[fd[k]].reports /\ f.state = s
  BY <1>1, RestampedFacts
<1>4. content' = Kept(c)
  BY <1>2
<1> HIDE DEF f
<1>5. c \in [Inode -> File] /\ c[fd[k]] = f /\ \A j \in Inode \ {fd[k]} : c[j] = content[j]
  BY <1>1, <1>3 DEF CrawlTypes, FilesTypeOK
<1> HIDE DEF c
<1>6. \A j \in Inode : j \in InUse' => content'[j] = c[j]
  BY <1>4, <1>5, KeptFacts
<1>7. \A j \in Inode : j \in InUse' => SameIndex(j)
  BY <1>3, <1>5, <1>6 DEF SameIndex
<1>8. fd'[k] = NoFile /\ conn' = conn /\ \A p \in Process : fd'[p] \in {fd[p], NoFile, live}
  BY <1>1, FilesAssumption DEF conn, Process, CrawlTypes, FilesTypeOK
<1>9. FileStep
  BY <1>1, <1>7, <1>8, NarrowStep
<1>10. live # NoFile => content'[live] = f /\ f.state = s
  <2>1. live # NoFile => live = fd[k] /\ live \in InUse'
    BY <1>1 DEF InUse
  <2> QED
    BY <1>1, <1>3, <1>5, <1>6, <2>1
<1>11. job[k].skipped \subseteq Day /\ job[k].skipped \cap (job[k].rows \cup job[k].blank) = {}
  BY JobFacts DEF CrawlTypes, RunSound, DaysApart
<1>12. ~job[k].cold /\ live # NoFile =>
         \A d \in job[k].skipped : content'[live].state[d] \in {"none", "stale"}
  BY <1>1, <1>2, <1>10, <1>11 DEF RunSound, NotStamped
<1>13. RunSound(k)'
  BY <1>1, <1>8, <1>12 DEF RunSound, DaysApart, NotStamped, Readable
<1> QED
  BY <1>9, <1>13

LEMMA FetchStep ==
  ASSUME CrawlTypes, FilesSound, NEW k \in Crawler, RunSound(k),
         FetchDay(k) \/ FetchGarbled(k) \/ FetchDown(k)
  PROVE  FileStep /\ RunSound(k)'
<1>1. PICK into \in {"rows", "blank", "skip"} : Fetched(k, into)
  BY DEF FetchDay, FetchGarbled, FetchDown
<1> DEFINE Stamped(d) ==
             /\ job'[k].cold = job[k].cold
             /\ job'[k].todo = job[k].todo \ {d}
             /\ job'[k].rows = IF into = "rows" THEN job[k].rows \cup {d} ELSE job[k].rows
             /\ job'[k].blank = IF into = "blank" THEN job[k].blank \cup {d} ELSE job[k].blank
             /\ job'[k].skipped = IF into = "skip" THEN job[k].skipped \cup {d}
                                  ELSE job[k].skipped
<1>2. UNCHANGED <<files, pc>> /\ pc[k] = "fetch"
  BY <1>1 DEF Fetched
<1>3. FileStep
  BY <1>2, NarrowStep DEF files, SameIndex, conn
<1>4. \E d \in job[k].todo : Stamped(d)
  BY <1>1, FetchedFacts
<1>5. DaysApart(job[k])
  BY DEF RunSound
<1>6. PICK d \in job[k].todo : Stamped(d)
  BY <1>4
<1>7. /\ DaysApart(job'[k])
      /\ job'[k].todo \cup job'[k].skipped \subseteq job[k].todo \cup job[k].skipped
  BY <1>5, <1>6 DEF DaysApart
<1> QED
  BY <1>2, <1>3, <1>6, <1>7 DEF RunSound, NotStamped, files

\* The steps of a run that are over, or that only move it on.
LEMMA MoveStep ==
  ASSUME CrawlTypes, FilesSound, NEW k \in Crawler, RunSound(k),
         Launch(k) \/ LaunchFromCommandLine(k) \/ Rest(k)
  PROVE  FileStep /\ RunSound(k)'
<1>1. UNCHANGED files
  BY DEF Launch, LaunchFromCommandLine, Rest
<1>2. FileStep
  BY <1>1, NarrowStep DEF files, SameIndex, conn
<1>3. job[k] \in Job
  BY DEF CrawlTypes
<1>4. CASE Launch(k) \/ LaunchFromCommandLine(k)
  <2>1. /\ pc[k] = "idle" /\ pc'[k] \in {"open", "ended"}
        /\ \E c \in BOOLEAN : job'[k] = [job[k] EXCEPT !.cold = c]
    BY <1>3, <1>4 DEF Launch, LaunchFromCommandLine, CrawlTypes, Job
  <2>2. PICK c \in BOOLEAN : job'[k] = [NoJob EXCEPT !.cold = c]
    BY <1>3, <2>1 DEF RunSound, Job, NoJob
  <2>3. job'[k].cold = c /\ DaysApart(job'[k]) /\ job'[k].skipped = {}
    BY <2>2, NoJobFacts DEF DaysApart
  <2> QED
    BY <1>1, <1>2, <2>1, <2>2, <2>3 DEF RunSound, NotStamped, files
<1>5. CASE Rest(k)
  <2>1. /\ pc[k] = "ended" /\ pc'[k] = "idle" /\ job'[k] = NoJob
    BY <1>5 DEF Rest, CrawlTypes
  <2>2. NoJob = [NoJob EXCEPT !.cold = NoJob.cold] /\ DaysApart(NoJob)
    BY DEF NoJob, DaysApart
  <2> QED
    BY <1>1, <1>2, <2>1, <2>2 DEF RunSound, files
<1> QED
  BY <1>4, <1>5

LEMMA BuildSteps ==
  ASSUME CrawlTypes, FilesSound, NEW k \in Crawler, RunSound(k),
         BuildStart(k) \/ BuildCommit(k) \/ Swap(k)
  PROVE  FileStep /\ RunSound(k)'
<1>1. CASE BuildStart(k)
  <2>1. pc[k] = "build" /\ pc'[k] = "building" /\ UNCHANGED <<live, job>>
    BY <1>1 DEF BuildStart, CrawlTypes
  <2> QED
    BY <1>1, <2>1, BuildStartStep, FilesAssumption DEF RunSound, DaysApart, NotStamped, Readable
<1>2. CASE BuildCommit(k)
  <2>1. pc[k] = "building" /\ pc'[k] = "swap" /\ UNCHANGED <<live, job>> /\ fd'[k] = NoFile
    BY <1>2 DEF BuildCommit, CrawlTypes, FilesTypeOK, Process
  <2>2. /\ FileStep /\ staging' # NoFile
        /\ \E b \in Build :
             content'[staging'] = [SchemaOnly EXCEPT !.build = b, !.reports = job'[k].rows]
        /\ live # NoFile => content'[live] = content[live]
    BY <1>2, <2>1, BuildCommitStep
  <2>3. ~job[k].cold /\ Readable(live)' => NotStamped(live, job[k].skipped)'
    BY <2>1, <2>2 DEF RunSound, NotStamped, Readable
  <2> QED
    BY <2>1, <2>2, <2>3 DEF RunSound, DaysApart, NotStamped, Readable
<1>3. CASE Swap(k)
  <2>1. pc'[k] = "ended" /\ UNCHANGED job /\ fd'[k] = NoFile
    BY <1>3 DEF Swap, Close, CrawlTypes, FilesTypeOK, Process
  <2>2. job[k].skipped \subseteq Day /\ job[k].rows \subseteq Day
    BY JobFacts DEF CrawlTypes
  <2>3. NotStamped(live, job[k].skipped)'
    <3>1. PICK b \in Build :
            content'[live'] = [SchemaOnly EXCEPT !.build = b, !.reports = job[k].rows]
      BY <1>3, SwapStep
    <3> DEFINE f == [SchemaOnly EXCEPT !.build = b, !.reports = job[k].rows]
    <3>2. \A d \in Day : f.state[d] = "none"
      BY <2>2, SchemaOnlyFacts DEF File
    <3>3. content'[live'] = f
      BY <3>1
    <3> HIDE DEF f
    <3> QED
      BY <2>1, <2>2, <3>2, <3>3 DEF NotStamped
  <2> QED
    BY <1>3, <2>1, <2>3, SwapStep DEF RunSound, DaysApart, NotStamped
<1> QED
  BY <1>1, <1>2, <1>3

LEMMA EndSteps ==
  ASSUME CrawlTypes, FilesSound, NEW k \in Crawler, RunSound(k),
         UnlinkCorrupt(k) \/ FetchFails(k) \/ BuildFails(k) \/ Crash(k)
  PROVE  FileStep /\ RunSound(k)'
<1>1. /\ FileStep /\ live' \in {live, NoFile}
      /\ live' # NoFile => content'[live'] = content[live]
  BY LetGoStep
<1>2. CASE UnlinkCorrupt(k)
  <2>1. pc[k] = "open" /\ UNCHANGED <<pc, job, fd>>
    BY <1>2 DEF UnlinkCorrupt
  <2> QED
    BY <1>1, <2>1 DEF RunSound
<1>3. CASE FetchFails(k) \/ BuildFails(k) \/ Crash(k)
  <2>1. pc[k] # "idle" /\ pc'[k] = "ended" /\ fd'[k] = NoFile /\ UNCHANGED job
    BY <1>3, CloseType DEF FetchFails, BuildFails, Crash
  <2>2. pc[k] \in Phase /\ (pc[k] = "open" => job[k].skipped = {})
    BY NoJobFacts DEF RunSound, CrawlTypes, Job, NoJob
  <2>3. ~job[k].cold /\ Readable(live)' => NotStamped(live, job[k].skipped)'
    BY <1>1, <2>1, <2>2 DEF RunSound, NotStamped, Readable, Phase
  <2> QED
    BY <1>1, <2>1, <2>3 DEF RunSound, DaysApart, NotStamped, Readable
<1> QED
  BY <1>2, <1>3

\* A run on whose files nothing has been written is where it was.
LEMMA RunKept ==
  ASSUME NEW k \in Crawler, RunSound(k), pc'[k] = pc[k], job'[k] = job[k], fd'[k] = fd[k],
         staging' = staging, live' \in {live, NoFile},
         pc[k] \in {"building", "swap"} => content'[staging] = content[staging],
         pc[k] = "fetch" => \A d \in job[k].todo \cup job[k].skipped :
           content[fd[k]].state[d] \in {"none", "stale"} =>
             content'[fd[k]].state[d] \in {"none", "stale"},
         Readable(live)' =>
           /\ Readable(live)
           /\ \A d \in job[k].skipped : content[live].state[d] \in {"none", "stale"} =>
                content'[live].state[d] \in {"none", "stale"}
  PROVE  RunSound(k)'
<1>1. /\ DaysApart(job'[k])
      /\ pc'[k] \in {"idle", "open"} => job'[k] = [NoJob EXCEPT !.cold = job'[k].cold]
      /\ pc'[k] \notin {"fetch", "building"} => fd'[k] = NoFile
      /\ pc'[k] = "fetch" => fd'[k] # NoFile /\ live' \in {fd'[k], NoFile}
  BY DEF RunSound
<1>2. pc'[k] = "building" =>
        staging' # NoFile /\ fd'[k] = staging' /\ content'[staging'] = SchemaOnly
  BY DEF RunSound
<1>3. pc'[k] = "swap" =>
        /\ staging' # NoFile
        /\ \E b \in Build :
             content'[staging'] = [SchemaOnly EXCEPT !.build = b, !.reports = job'[k].rows]
  BY DEF RunSound
<1>4. ~job'[k].cold /\ pc'[k] = "fetch" =>
        \A d \in job'[k].todo \cup job'[k].skipped :
          content'[fd'[k]].state[d] \in {"none", "stale"}
  BY DEF RunSound, NotStamped
<1>5. ASSUME ~job'[k].cold, pc'[k] \in {"build", "building", "swap", "ended"}, Readable(live)'
      PROVE  \A d \in job'[k].skipped : content'[live'].state[d] \in {"none", "stale"}
  <2>1. live' = live
    BY <1>5 DEF Readable
  <2> QED
    BY <1>5, <2>1 DEF RunSound, NotStamped
<1> QED
  BY <1>1, <1>2, <1>3, <1>4, <1>5 DEF RunSound, NotStamped

\* The files that a run has made stay as they are when its fresh days grow old.
LEMMA AgeStep ==
  ASSUME CrawlTypes, FilesSound, \A k \in Crawler : RunSound(k), NEW d \in Day, Age(d)
  PROVE  FileStep /\ \A k \in Crawler : RunSound(k)'
<1>1. /\ UNCHANGED <<live, staging, fd, pc, job>>
      /\ \A i \in Inode :
           /\ SameIndex(i)
           /\ \A e \in Day : \/ content'[i].state[e] = content[i].state[e]
                             \/ content'[i].state[e] = "stale"
           /\ (\A e \in Day : content[i].state[e] # "fresh") => content'[i] = content[i]
  BY AgeFacts DEF Age, SameIndex
<1>2. FileStep
  BY <1>1, NarrowStep DEF conn
<1>3. ASSUME NEW k \in Crawler
      PROVE  RunSound(k)'
  <2>1. /\ job[k].todo \subseteq Day /\ job[k].skipped \subseteq Day /\ job[k].rows \subseteq Day
        /\ fd[k] \in Inode \cup {NoFile}
        /\ live \in Inode \cup {NoFile} /\ staging \in Inode \cup {NoFile}
    BY JobFacts DEF CrawlTypes, FilesTypeOK, Process
  <2>2. pc[k] = "building" => content'[staging] = content[staging]
    BY <1>1, <2>1, SchemaOnlyFacts DEF RunSound
  <2>3. pc[k] = "swap" => content'[staging] = content[staging]
    <3> SUFFICES ASSUME pc[k] = "swap"
                 PROVE  \A e \in Day : content[staging].state[e] # "fresh"
      BY <1>1, <2>1 DEF RunSound
    <3>1. PICK b \in Build :
            content[staging] = [SchemaOnly EXCEPT !.build = b, !.reports = job[k].rows]
      BY DEF RunSound
    <3> DEFINE f == [SchemaOnly EXCEPT !.build = b, !.reports = job[k].rows]
    <3>2. \A e \in Day : f.state[e] = "none"
      BY <2>1, SchemaOnlyFacts DEF File
    <3>3. content[staging] = f
      BY <3>1
    <3> HIDE DEF f
    <3> QED
      BY <3>2, <3>3
  <2>4. /\ pc'[k] = pc[k] /\ job'[k] = job[k] /\ fd'[k] = fd[k] /\ staging' = staging
        /\ live' = live /\ (Readable(live)' => Readable(live))
    BY <1>1, <2>1 DEF Readable, SameIndex
  <2>5. pc[k] = "fetch" => \A e \in job[k].todo \cup job[k].skipped :
          content[fd[k]].state[e] \in {"none", "stale"} =>
            content'[fd[k]].state[e] \in {"none", "stale"}
    BY <1>1, <2>1 DEF RunSound
  <2>6. Readable(live)' => \A e \in job[k].skipped :
          content[live].state[e] \in {"none", "stale"} =>
            content'[live].state[e] \in {"none", "stale"}
    BY <1>1, <2>1 DEF Readable
  <2> QED
    BY <2>2, <2>3, <2>4, <2>5, <2>6, RunKept
<1> QED
  BY <1>2, <1>3

LEMMA EnvironmentStep ==
  ASSUME CrawlTypes, FilesSound, \A k \in Crawler : RunSound(k), Environment
  PROVE  FileStep /\ \A k \in Crawler : RunSound(k)'
<1>1. CASE Remove
  <2>1. UNCHANGED <<staging, fd, pc, job>> /\ live' = NoFile /\ content' = Kept(content)
    BY <1>1 DEF Remove
  <2>2. \A j \in Inode : j \in InUse' => content'[j] = content[j]
    BY <2>1, KeptFacts DEF CrawlTypes, FilesTypeOK
  <2>3. FileStep
    BY <2>1, <2>2, NarrowStep DEF SameIndex, conn
  <2>4. \A k \in Crawler : fd[k] \in InUse' /\ staging \in InUse'
    BY <2>1 DEF InUse, Process
  <2>5. \A k \in Crawler : fd[k] # NoFile => content'[fd[k]] = content[fd[k]]
    BY <2>2, <2>4 DEF CrawlTypes, FilesTypeOK, Process
  <2>6. \A k \in Crawler : staging # NoFile => content'[staging] = content[staging]
    BY <2>2, <2>4 DEF CrawlTypes, FilesTypeOK
  <2>7. ASSUME NEW k \in Crawler
        PROVE  RunSound(k)'
    <3>1. RunSound(k)
      OBVIOUS
    <3>2. live' = NoFile /\ fd'[k] = fd[k] /\ staging' = staging /\ pc'[k] = pc[k] /\ job'[k] = job[k]
      BY <2>1
    <3>3. /\ fd[k] # NoFile => content'[fd[k]] = content[fd[k]]
          /\ staging # NoFile => content'[staging] = content[staging]
      BY <2>5, <2>6
    <3>4. ~Readable(live)'
      BY <3>2 DEF Readable
    <3>5. /\ pc[k] \in {"building", "swap"} => content'[staging] = content[staging]
          /\ pc[k] = "fetch" => content'[fd[k]] = content[fd[k]]
      BY <3>1, <3>3 DEF RunSound
    <3> QED
      BY <3>1, <3>2, <3>4, <3>5, RunKept
  <2> QED
    BY <2>3, <2>7
<1>2. ASSUME NEW d \in Day, Age(d)
      PROVE  FileStep /\ \A k \in Crawler : RunSound(k)'
  BY <1>2, AgeStep
<1>3. ASSUME NEW d \in Day, Publish(d)
      PROVE  FileStep /\ \A k \in Crawler : RunSound(k)'
  <2>1. UNCHANGED <<files, pc, job>>
    BY <1>3 DEF Publish
  <2>2. FileStep
    BY <2>1, NarrowStep DEF files, SameIndex, conn
  <2> QED
    BY <2>1, <2>2 DEF RunSound, NotStamped, Readable, files
<1> QED
  BY <1>1, <1>2, <1>3 DEF Environment

LEMMA RunStep ==
  ASSUME CrawlTypes, FilesSound, NEW k \in Crawler, RunSound(k), Step(k)
  PROVE  CrawlTypes' /\ FileStep /\ RunSound(k)'
<1>1. CASE OpenState(k)
  BY <1>1, OpenStateType, OpenStateStep
<1>2. CASE Commit(k)
  BY <1>2, CommitType, CommitStep, FilesAssumption DEF RunSound, Commit
<1>3. CASE BuildStart(k)
  BY <1>3, BuildStartType, BuildSteps
<1>4. CASE BuildCommit(k)
  BY <1>4, BuildCommitType, BuildSteps DEF RunSound, BuildCommit
<1>5. CASE Swap(k)
  BY <1>5, OtherTypes, BuildSteps
<1>6. CASE FetchDay(k) \/ FetchGarbled(k) \/ FetchDown(k)
  BY <1>6, OtherTypes, FetchStep
<1>7. CASE Launch(k) \/ LaunchFromCommandLine(k) \/ Rest(k)
  BY <1>7, OtherTypes, MoveStep
<1>8. CASE UnlinkCorrupt(k) \/ FetchFails(k) \/ BuildFails(k) \/ Crash(k)
  BY <1>8, OtherTypes, EndSteps
<1> QED
  BY <1>1, <1>2, <1>3, <1>4, <1>5, <1>6, <1>7, <1>8 DEF Step, Advance

LEMMA CrawlStepSound ==
  ASSUME OneCrawler, CrawlSound, CrawlNext
  PROVE  CrawlSound' /\ FileStep
<1>1. CASE Environment
  BY <1>1, EnvironmentTypes, EnvironmentStep DEF CrawlSound, FileStep
<1>2. ASSUME NEW k \in Crawler, Step(k)
      PROVE  CrawlSound' /\ FileStep
  <2>1. CrawlTypes' /\ FileStep /\ RunSound(k)'
    BY <1>2, RunStep DEF CrawlSound
  <2>2. \A m \in Crawler : RunSound(m)'
    BY <2>1 DEF OneCrawler
  <2> QED
    BY <2>1, <2>2 DEF CrawlSound, FileStep
<1> QED
  BY <1>1, <1>2 DEF CrawlNext

LEMMA CrawlInitSound ==
  ASSUME Init
  PROVE  CrawlSound
<1>1. CrawlTypes
  BY SchemaOnlyFacts, CorruptFacts, NoJobFacts, FaultsAssumption
     DEF Init, FilesInit, CrawlInit, CrawlTypes, FilesTypeOK, Phase
<1>2. FilesSound
  <2>1. \A i \in Inode : content[i].build = NoBuild
    BY SchemaOnlyFacts, CorruptFacts DEF Init, FilesInit
  <2>2. InUse \subseteq Inode \cup {NoFile}
    BY <1>1 DEF InUse, CrawlTypes, FilesTypeOK
  <2> QED
    BY <2>1, <2>2 DEF Init, FilesInit, FilesSound
<1>3. ASSUME NEW k \in Crawler
      PROVE  RunSound(k)
  <2>1. pc[k] = "idle" /\ fd[k] = NoFile /\ job[k] = NoJob
    BY <1>3 DEF Init, FilesInit, CrawlInit, Process
  <2>2. NoJob = [NoJob EXCEPT !.cold = NoJob.cold] /\ DaysApart(NoJob)
    BY DEF NoJob, DaysApart
  <2> QED
    BY <2>1, <2>2 DEF RunSound
<1> QED
  BY <1>1, <1>2, <1>3 DEF CrawlSound

LEMMA CrawlStutter ==
  ASSUME CrawlSound, UNCHANGED vars
  PROVE  CrawlSound' /\ FileStep
<1>1. CrawlTypes' /\ FilesSound'
  BY DEF vars, files, crawlVars, CrawlSound, CrawlTypes, FilesTypeOK, FilesSound, InUse
<1>2. \A k \in Crawler : RunSound(k)'
  BY RunKept DEF vars, files, crawlVars, CrawlSound, Readable
<1>3. FileStep
  BY NarrowStep DEF vars, files, CrawlSound, SameIndex, conn
<1> QED
  BY <1>1, <1>2, <1>3 DEF CrawlSound

LEMMA CrawlInvariance ==
  ASSUME OneCrawler
  PROVE  CrawlSpec => []CrawlSound
<1>1. CrawlSound /\ [CrawlNext]_vars => CrawlSound'
  BY CrawlStepSound, CrawlStutter
<1> QED
  BY <1>1, CrawlInitSound, PTL DEF CrawlSpec

(***************************************************************************)
(* What holds of every behaviour of the crawl.                             *)
(***************************************************************************)
\* Files, connections and the locals of every run are well formed.
THEOREM CrawlTypeCorrect ==
  ASSUME OneCrawler
  PROVE  CrawlSpec => []TypeOK
<1>1. CrawlSound => TypeOK
  BY JobFacts DEF CrawlSound, CrawlTypes, TypeOK, Phase, JobOK
<1> QED
  BY <1>1, CrawlInvariance, PTL

\* run_crawl: a day that an incremental run could not fetch is due for the next
\* run, whether this one swaps, fails or is killed.
THEOREM SkippedDaysStayDue ==
  ASSUME OneCrawler
  PROVE  CrawlSpec => []SkippedStaysDue
<1>1. CrawlSound => SkippedStaysDue
  <2> SUFFICES ASSUME CrawlSound, NEW k \in Crawler,
                      pc[k] \in {"fetch", "build", "building", "swap", "ended"}, ~job[k].cold
               PROVE  job[k].skipped \subseteq DueNow
    BY DEF SkippedStaysDue
  <2>1. job[k].skipped \subseteq Day
    BY JobFacts DEF CrawlSound, CrawlTypes
  <2>2. Readable(live) => NotStamped(live, job[k].skipped)
    BY DEF CrawlSound, RunSound, NotStamped, Readable
  <2> QED
    BY <2>1, <2>2 DEF DueNow, Due, NotStamped
<1> QED
  BY <1>1, CrawlInvariance, PTL

\* Only os.replace ends a run and changes what the live path names.
LEMMA OnlySwap ==
  ASSUME OneCrawler, CrawlSound, CrawlNext, NEW k \in Crawler, Swapped(k)
  PROVE  Swap(k)
<1>1. ~Environment
  BY DEF Environment, Remove, Age, Publish, Swapped
<1>2. PICK m \in Crawler : Step(m)
  BY <1>1 DEF CrawlNext
<1>3. Step(k)
  BY <1>2 DEF OneCrawler
<1>4. pc[k] = "swap" /\ pc'[k] = "ended" /\ live' # live
  BY DEF Swapped
<1> QED
  BY <1>3, <1>4
     DEF Step, Advance, Launch, LaunchFromCommandLine, UnlinkCorrupt, OpenState, FetchDay, Commit,
         BuildStart, BuildCommit, Rest, FetchGarbled, FetchDown, Fetched, FetchFails, BuildFails,
         Crash

\* build_index and swap_into_place: what a swap puts in service has the rows of
\* its own run and no others.
THEOREM SwapsPublishTheirRun ==
  ASSUME OneCrawler
  PROVE  CrawlSpec => SwapPublishesRun
<1> DEFINE A == \A k \in Crawler :
                  Swapped(k) => Whole(content[live']) /\ content[live'].reports = job[k].rows
<1>1. CrawlSound /\ [CrawlNext]_vars => [A]_vars
  <2> SUFFICES ASSUME CrawlSound, CrawlNext, NEW k \in Crawler, Swapped(k)
               PROVE  Whole(content[live']) /\ content[live'].reports = job[k].rows
    BY DEF A
  <2>1. Swap(k)
    BY OnlySwap
  <2>2. CrawlTypes /\ FilesSound /\ RunSound(k)
    BY DEF CrawlSound
  <2>3. staging # NoFile /\ live' = staging /\ job[k].rows \subseteq Day
    BY <2>1, <2>2, JobFacts DEF Swap, Swapped, CrawlTypes
  <2>4. PICK b \in Build :
          content[staging] = [SchemaOnly EXCEPT !.build = b, !.reports = job[k].rows]
    BY <2>1, <2>2 DEF RunSound, Swap
  <2> DEFINE f == [SchemaOnly EXCEPT !.build = b, !.reports = job[k].rows]
  <2>5. f.kind = "db" /\ f.build = b /\ f.reports = job[k].rows
    BY <2>3, SchemaOnlyFacts DEF File
  <2>6. content[live'] = f
    BY <2>3, <2>4
  <2> HIDE DEF f
  <2> QED
    BY <2>5, <2>6, FilesAssumption DEF Whole
<1> HIDE DEF A
<1>2. CrawlSpec => [][A]_vars
  BY <1>1, CrawlInvariance, PTL DEF CrawlSpec
<1> QED
  BY <1>2 DEF A, SwapPublishesRun

\* The index in service gives way only to one that a build has finished.
THEOREM LiveIndexesAreWhole ==
  ASSUME OneCrawler
  PROVE  CrawlSpec => LiveOnlyReplacedByWhole
<1> DEFINE A == live # NoFile /\ live' \notin {live, NoFile} => Whole(content'[live'])
<1>1. CrawlSound /\ [CrawlNext]_vars => [A]_vars
  <2> SUFFICES ASSUME CrawlSound, CrawlNext, live # NoFile, live' \notin {live, NoFile}
               PROVE  Whole(content'[live'])
    OBVIOUS
  <2>1. ~Environment
    BY DEF Environment, Remove, Age, Publish, files
  <2>2. PICK k \in Crawler : Step(k)
    BY <2>1 DEF CrawlNext
  <2>3. Swap(k)
    BY <2>2
       DEF Step, Advance, Launch, LaunchFromCommandLine, UnlinkCorrupt, OpenState, FetchDay,
           Commit, BuildStart, BuildCommit, Rest, FetchGarbled, FetchDown, Fetched, FetchFails,
           BuildFails, Crash, files
  <2>4. content'[live'] = content[staging]
    BY <2>3, SwapStep DEF CrawlSound
  <2>5. job[k].rows \subseteq Day
    BY JobFacts DEF CrawlSound, CrawlTypes
  <2>6. PICK b \in Build :
          content[staging] = [SchemaOnly EXCEPT !.build = b, !.reports = job[k].rows]
    BY <2>3 DEF CrawlSound, RunSound, Swap
  <2> DEFINE f == [SchemaOnly EXCEPT !.build = b, !.reports = job[k].rows]
  <2>7. f.kind = "db" /\ f.build = b
    BY <2>5, SchemaOnlyFacts DEF File
  <2>8. content'[live'] = f
    BY <2>4, <2>6
  <2> HIDE DEF f
  <2> QED
    BY <2>7, <2>8, FilesAssumption DEF Whole
<1> HIDE DEF A
<1>2. CrawlSpec => [][A]_vars
  BY <1>1, CrawlInvariance, PTL DEF CrawlSpec
<1> QED
  BY <1>2 DEF A, LiveOnlyReplacedByWhole

(***************************************************************************)
(* The reader beside the crawl.                                            *)
(***************************************************************************)
\* The reader opens the file at the live path, or closes its connection.
ReaderMove ==
  /\ fd' \in {fd, [fd EXCEPT ![Server] = live], [fd EXCEPT ![Server] = NoFile]}
  /\ content' \in {content, Kept(content)}
  /\ UNCHANGED <<live, staging, crawlVars>>

LEMMA ReaderMoveSound ==
  ASSUME CrawlSound, ReaderMove
  PROVE  CrawlSound' /\ \A i \in Inode : i \in InUse' => content'[i] = content[i]
<1>1. /\ CrawlTypes /\ FilesSound /\ \A k \in Crawler : RunSound(k)
      /\ live' = live /\ staging' = staging /\ pc' = pc /\ job' = job /\ held' = held
      /\ faults' = faults
  BY DEF CrawlSound, ReaderMove, crawlVars
<1>2. content' \in [Inode -> File] /\ \A i \in Inode : i \in InUse' => content'[i] = content[i]
  BY <1>1, KeptFacts DEF ReaderMove, CrawlTypes, FilesTypeOK
<1>3. /\ fd' \in [Process -> Inode \cup {NoFile}]
      /\ \A p \in Process : fd'[p] \in {fd[p], NoFile, live}
      /\ \A k \in Crawler : fd'[k] = fd[k]
  BY <1>1, FilesAssumption DEF ReaderMove, CrawlTypes, FilesTypeOK, Process
<1>4. CrawlTypes'
  BY <1>1, <1>2, <1>3 DEF CrawlTypes, FilesTypeOK
<1>5. FilesSound'
  BY <1>1, <1>2, <1>3, Narrowing
<1>6. ASSUME NEW k \in Crawler
      PROVE  RunSound(k)'
  <2>1. fd[k] \in InUse' /\ live \in InUse' /\ staging \in InUse'
    BY <1>1, <1>3 DEF InUse, Process
  <2>2. \A i \in {fd[k], live, staging} \ {NoFile} : content'[i] = content[i]
    BY <1>1, <1>2, <2>1 DEF CrawlTypes, FilesTypeOK, Process
  <2>3. /\ RunSound(k)
        /\ pc'[k] = pc[k] /\ job'[k] = job[k] /\ fd'[k] = fd[k] /\ live' = live
        /\ staging' = staging
    BY <1>1, <1>3
  <2>4. /\ fd[k] # NoFile => content'[fd[k]] = content[fd[k]]
        /\ live # NoFile => content'[live] = content[live]
        /\ staging # NoFile => content'[staging] = content[staging]
    BY <2>2
  <2>5. /\ pc[k] \in {"building", "swap"} => content'[staging] = content[staging]
        /\ pc[k] = "fetch" => content'[fd[k]] = content[fd[k]]
    BY <2>3, <2>4 DEF RunSound
  <2>6. Readable(live)' => Readable(live) /\ content'[live] = content[live]
    BY <2>3, <2>4 DEF Readable
  <2> QED
    BY <2>3, <2>5, <2>6, RunKept
<1> QED
  BY <1>2, <1>4, <1>5, <1>6 DEF CrawlSound

LEMMA ServiceMoves ==
  ASSUME ServiceNext, UNCHANGED crawlVars
  PROVE  ReaderMove
BY DEF ServiceNext, Boot, Open, Vanished, Exists, ProbeFails, Probe, Reopen, RunEmpty, Hit, Miss,
       Done, Stop, AskEmpty, Ask, ReaderMove, files

\* What is in service is the same before and after a step of the reader, and what
\* the reader has open is what it had, what is in service, or nothing.
LEMMA ReaderMoveServed ==
  ASSUME CrawlSound, ReaderMove
  PROVE  /\ Served(live)' = Served(live)
         /\ \/ conn' = conn /\ Served(conn)' = Served(conn)
               /\ (conn # NoFile => content'[conn].build = content[conn].build)
            \/ conn' = live /\ Served(conn)' = Served(live)
               /\ (live # NoFile => content'[live].build = content[live].build)
            \/ conn' = NoFile /\ Served(conn)' = NoIndex
<1>1. /\ CrawlTypes /\ live' = live
      /\ \A i \in Inode : i \in InUse' => content'[i] = content[i]
  BY ReaderMoveSound DEF CrawlSound, ReaderMove
<1>2. live # NoFile => content'[live] = content[live]
  BY <1>1 DEF InUse, CrawlTypes, FilesTypeOK
<1>3. Server \in Process /\ fd \in [Process -> Inode \cup {NoFile}]
  BY <1>1 DEF Process, CrawlTypes, FilesTypeOK
<1>4. conn' \in {conn, live, NoFile} /\ conn \in Inode \cup {NoFile}
  BY <1>3 DEF ReaderMove, conn
<1>5. conn' = conn /\ conn # NoFile => content'[conn] = content[conn]
  BY <1>1, <1>3, <1>4 DEF InUse, conn
<1>6. Served(live)' = Served(live)
  BY <1>1, <1>2 DEF Served
<1>7. CASE conn' = conn
  BY <1>5, <1>6, <1>7 DEF Served
<1>8. CASE conn' = live
  BY <1>2, <1>6, <1>8 DEF Served
<1>9. CASE conn' = NoFile
  BY <1>6, <1>9 DEF Served, NoIndex
<1> QED
  BY <1>4, <1>7, <1>8, <1>9

(***************************************************************************)
(* The invariant of the system.                                            *)
(***************************************************************************)
ServiceSound ==
  /\ ServiceTypeOK
  /\ IsFiniteSet(DOMAIN cache)
  /\ Asked => ask \in Query

SystemInv == CrawlSound /\ ServiceSound /\ ReaderSound

LEMMA ResultType ==
  ASSUME CrawlTypes, NEW i \in Inode \cup {NoFile}, NEW q
  PROVE  ResultOf(i, q) \in Result /\ Served(i).build \in Build \cup {NoBuild}
<1>1. i # NoFile => content[i] \in File
  BY DEF CrawlTypes, FilesTypeOK
<1>2. Served(i).build \in Build \cup {NoBuild}
  BY <1>1 DEF Served, File
<1> QED
  BY <1>2 DEF ResultOf, Result

\* _query: the cache never holds more than _CACHE_MAXSIZE results.
LEMMA StoreFacts ==
  ASSUME ServiceSound, NEW result \in Result, ask \in Query, ask \notin DOMAIN cache,
         Store(result)
  PROVE  /\ DOMAIN cache' \subseteq Query /\ IsFiniteSet(DOMAIN cache')
         /\ Cardinality(DOMAIN cache') <= CacheMax
         /\ \A q \in DOMAIN cache' :
              \/ q = ask /\ cache'[q] = result
              \/ q \in DOMAIN cache /\ cache'[q] = cache[q]
<1> DEFINE old == IF Cardinality(DOMAIN cache) >= CacheMax THEN NoCache ELSE cache
<1>1. cache' = [q \in DOMAIN old \cup {ask} |-> IF q = ask THEN result ELSE old[q]]
  BY DEF Store
<1>2. DOMAIN NoCache = {}
  BY DEF NoCache
<1>3. Cardinality(DOMAIN cache) \in Nat /\ CacheMax \in Nat \ {0}
  BY ServiceAssumption, FS_CardinalityType DEF ServiceSound
<1>4. /\ IsFiniteSet(DOMAIN old) /\ Cardinality(DOMAIN old) \in Nat
      /\ Cardinality(DOMAIN old) < CacheMax /\ ask \notin DOMAIN old
      /\ DOMAIN old \subseteq DOMAIN cache /\ \A q \in DOMAIN old : old[q] = cache[q]
  <2>1. CASE Cardinality(DOMAIN cache) >= CacheMax
    <3>1. old = NoCache
      BY <2>1
    <3>2. Cardinality({}) = 0 /\ IsFiniteSet({})
      BY FS_EmptySet
    <3> HIDE DEF old
    <3> QED
      BY <1>2, <1>3, <3>1, <3>2
  <2>2. CASE ~(Cardinality(DOMAIN cache) >= CacheMax)
    <3>1. old = cache
      BY <2>2
    <3> HIDE DEF old
    <3> QED
      BY <1>3, <2>2, <3>1 DEF ServiceSound
  <2> QED
    BY <2>1, <2>2
<1> HIDE DEF old
<1>5. DOMAIN cache' = DOMAIN old \cup {ask}
  BY <1>1
<1>6. IsFiniteSet(DOMAIN cache') /\ Cardinality(DOMAIN cache') = Cardinality(DOMAIN old) + 1
  BY <1>4, <1>5, FS_AddElement
<1>7. DOMAIN cache' \subseteq Query
  BY <1>4, <1>5 DEF ServiceSound, ServiceTypeOK
<1>8. \A q \in DOMAIN cache' :
        \/ q = ask /\ cache'[q] = result
        \/ q \in DOMAIN cache /\ cache'[q] = cache[q]
  BY <1>1, <1>4, <1>5
<1> QED
  BY <1>3, <1>4, <1>6, <1>7, <1>8

LEMMA ServiceStepSound ==
  ASSUME CrawlSound, ServiceSound, ReaderSound, ServiceNext, UNCHANGED crawlVars
  PROVE  ServiceSound'
<1>1. /\ CrawlTypes /\ conn \in Inode \cup {NoFile} /\ live \in Inode \cup {NoFile}
      /\ at \in {"down", "ready", "exists", "probe", "reopen", "run", "answered"}
  BY DEF CrawlSound, CrawlTypes, FilesTypeOK, conn, Process, ServiceSound, ServiceTypeOK
<1>2. NoCache \in [{} -> Result] /\ IsFiniteSet({}) /\ Cardinality({}) = 0 /\ 0 <= CacheMax
  BY FS_EmptySet, ServiceAssumption DEF NoCache
<1>3. DOMAIN NoCache = {}
  BY <1>2
<1>4. Default \in Result
  BY DEF Default, Result
<1>5. live # NoFile => content[live].build \in Build \cup {NoBuild}
  BY <1>1 DEF CrawlTypes, FilesTypeOK, File
<1>6. CASE Boot \/ Exists \/ ProbeFails \/ Probe \/ RunEmpty \/ Done \/ \E q \in Query : AskEmpty(q) \/ Ask(q)
  BY <1>1, <1>4, <1>5, <1>6
     DEF ServiceSound, ServiceTypeOK, Boot, Open, Readable, Exists, ProbeFails, Probe, RunEmpty,
         Done, AskEmpty, Ask, Answer, Asked
<1>7. CASE Vanished \/ Reopen \/ Stop
  BY <1>1, <1>2, <1>3, <1>4, <1>5, <1>7
     DEF ServiceSound, ServiceTypeOK, Vanished, Open, Readable, Reopen, Stop, Answer, Asked
<1>8. CASE Hit
  BY <1>8 DEF ServiceSound, ServiceTypeOK, Hit, Answer, Asked
<1>9. CASE Miss
  <2>1. ResultOf(conn, ask) \in Result
    BY <1>1, ResultType
  <2>2. ask \in Query /\ ask \notin DOMAIN cache
    BY <1>9 DEF ServiceSound, Miss, Asked
  <2>3. /\ DOMAIN cache' \subseteq Query /\ IsFiniteSet(DOMAIN cache')
        /\ Cardinality(DOMAIN cache') <= CacheMax
        /\ \A q \in DOMAIN cache' : cache'[q] \in Result
    BY <1>9, <2>1, <2>2, StoreFacts DEF Miss, ServiceSound, ServiceTypeOK
  <2> QED
    BY <1>9, <2>1, <2>2, <2>3 DEF ServiceSound, ServiceTypeOK, Miss, Answer, Asked
<1> QED
  BY <1>6, <1>7, <1>8, <1>9 DEF ServiceNext

\* The crawl changes no file the reader has open, and the history grows.
LEMMA ReaderBesideCrawl ==
  ASSUME ReaderSound, ReaderKept, UNCHANGED serviceVars,
         recent' = IF Asked THEN recent \cup {Served(live)'} ELSE {}
  PROVE  ReaderSound'
<1>1. /\ at' = at /\ ask' = ask /\ buildId' = buildId /\ cache' = cache /\ answer' = answer
      /\ conn' = conn
      /\ conn # NoFile => Served(conn)' = Served(conn) /\ content'[conn].build = content[conn].build
  BY DEF serviceVars, ReaderKept
<1>2. CacheCoherent'
  BY <1>1 DEF ReaderSound, CacheCoherent, ResultOf
<1>3. Asked' => Served(live)' \in recent' /\ recent \subseteq recent'
  BY <1>1 DEF Asked
<1>4. (at = "run" /\ conn # NoFile /\ NoIndex \notin recent => Served(conn) \in recent)'
  BY <1>1, <1>3 DEF ReaderSound, Asked, NoIndex, Served
<1>5. AnswersAreCurrent'
  BY <1>1, <1>3 DEF ReaderSound, AnswersAreCurrent, Asked, NoIndex, Served
<1> QED
  BY <1>1, <1>2, <1>3, <1>4, <1>5 DEF ReaderSound

\* Two files in use with one build_id are one file: what the probe found to have
\* the reader's build is the file the reader has open.
LEMMA SameBuildSameIndex ==
  ASSUME CrawlSound, conn # NoFile, Readable(live), content[live].build = content[conn].build
  PROVE  Served(conn) = Served(live) \/ Served(live) = NoIndex
<1>1. live \in InUse \ {NoFile} /\ conn \in InUse \ {NoFile}
  BY DEF InUse, conn, Process, Readable
<1>2. live = conn \/ content[live].build = NoBuild
  BY <1>1 DEF CrawlSound, FilesSound
<1> QED
  BY <1>2 DEF Served, Whole, NoIndex

LEMMA ReaderStepSound ==
  ASSUME CrawlSound, ServiceSound, ReaderSound, ServiceNext, UNCHANGED crawlVars,
         recent' = IF Asked' THEN recent \cup {Served(live)'} ELSE {}
  PROVE  ReaderSound'
<1>1. Served(live)' = Served(live)
  BY ServiceMoves, ReaderMoveServed
<1>2. NoIndex' = NoIndex
  BY DEF NoIndex, Served
<1>3. Asked' => Served(live)' \in recent' /\ recent \subseteq recent'
  OBVIOUS
<1>4. NoCache \in [{} -> Result] /\ DOMAIN NoCache = {}
  BY DEF NoCache
<1>5. CASE Exists \/ Done \/ RunEmpty \/ Hit \/ ProbeFails \/ Probe \/ \E q \in Query : AskEmpty(q) \/ Ask(q)
  <2>1. /\ conn' = conn /\ Served(conn)' = Served(conn) /\ CacheCoherent'
    BY <1>5
       DEF Exists, Done, RunEmpty, Hit, ProbeFails, Probe, AskEmpty, Ask, files, conn, Served,
           ReaderSound, CacheCoherent, ResultOf
  <2>2. CASE Exists \/ Done \/ RunEmpty \/ \E q \in Query : AskEmpty(q) \/ Ask(q)
    BY <1>3, <2>1, <2>2
       DEF ReaderSound, AnswersAreCurrent, Asked, Exists, Done, RunEmpty, AskEmpty, Ask, Answer
  <2>3. CASE Hit
    BY <1>2, <1>3, <2>1, <2>3
       DEF ReaderSound, AnswersAreCurrent, Asked, Hit, Answer, CacheCoherent, ResultOf
  <2>4. CASE ProbeFails \/ Probe
    <3>1. at = "probe" /\ conn # NoFile /\ Asked /\ Served(live) \in recent
      BY <2>4 DEF ProbeFails, Probe, ReaderSound, Asked
    <3>2. ~Readable(live) => Served(live) = NoIndex
      BY DEF Readable, Served, Whole, NoIndex
    <3>3. at' = "run" => NoIndex \in recent \/ Served(conn) \in recent
      BY <2>4, <3>1, <3>2, SameBuildSameIndex DEF ProbeFails, Probe, ReaderSound, CacheCoherent
    <3>4. at' \in {"run", "reopen"}
      BY <2>4 DEF ProbeFails, Probe
    <3> QED
      BY <1>1, <1>2, <1>3, <2>1, <3>1, <3>3, <3>4 DEF ReaderSound, AnswersAreCurrent, Asked
  <2> QED
    BY <1>5, <2>2, <2>3, <2>4
<1>6. CASE Miss
  <2>1. /\ conn' = conn /\ Served(conn)' = Served(conn) /\ conn # NoFile
        /\ UNCHANGED <<content, buildId, ask>> /\ at = "run" /\ at' = "answered"
        /\ answer' = ResultOf(conn, ask)
    BY <1>6 DEF Miss, Answer, files, conn, Served
  <2>2. ask \in Query /\ ask \notin DOMAIN cache /\ ResultOf(conn, ask) \in Result
    BY <1>6, ResultType
       DEF ServiceSound, Miss, Asked, CrawlSound, CrawlTypes, FilesTypeOK, Process, conn
  <2>3. CacheCoherent'
    BY <1>6, <2>1, <2>2, StoreFacts DEF Miss, ReaderSound, CacheCoherent, ResultOf
  <2>4. AnswersAreCurrent'
    BY <1>2, <1>3, <2>1 DEF ReaderSound, AnswersAreCurrent, Asked, ResultOf
  <2> QED
    BY <1>3, <2>1, <2>3, <2>4 DEF ReaderSound
<1>7. CASE Vanished \/ Stop
  <2>1. conn' = NoFile /\ cache' = NoCache /\ at' \in {"answered", "down"}
    BY <1>7 DEF Vanished, Stop, conn, Answer, CrawlSound, CrawlTypes, FilesTypeOK, Process
  <2> QED
    BY <1>3, <1>4, <2>1 DEF ReaderSound, CacheCoherent, AnswersAreCurrent
<1>8. CASE Boot \/ Reopen
  <2>1. /\ conn' \in {live, NoFile} /\ (conn' # NoFile => conn' = live)
        /\ buildId' = (IF Readable(live) THEN content[live].build ELSE NoBuild)
        /\ conn' = (IF Readable(live) THEN live ELSE NoFile)
    BY <1>8 DEF Boot, Reopen, Open, conn, CrawlSound, CrawlTypes, FilesTypeOK, Process
  <2>2. conn' # NoFile => content'[conn'].build = buildId' /\ Served(conn)' = Served(live)
    <3>1. conn' # NoFile => live \in Inode /\ live \in InUse'
      BY <1>8, <2>1 DEF InUse, CrawlSound, CrawlTypes, FilesTypeOK, Boot, Reopen
    <3>2. conn' # NoFile => content'[live] = content[live]
      BY <3>1, ServiceMoves, ReaderMoveSound
    <3> QED
      BY <2>1, <3>2 DEF Served, Readable
  <2>3. \A q \in DOMAIN cache : conn # NoFile
    BY DEF ReaderSound, CacheCoherent
  <2>4. CASE Boot
    <3>1. at = "down" /\ at' = "ready" /\ cache' = cache /\ conn = NoFile
      BY <2>4 DEF Boot, ReaderSound
    <3>2. CacheCoherent'
      BY <2>2, <2>3, <3>1 DEF CacheCoherent
    <3> QED
      BY <3>1, <3>2 DEF ReaderSound, AnswersAreCurrent, Asked
  <2>5. CASE Reopen
    <3>1. at = "reopen" /\ at' = "run" /\ cache' = NoCache
      BY <2>5 DEF Reopen
    <3>2. CacheCoherent'
      BY <1>4, <2>2, <3>1 DEF CacheCoherent
    <3>3. conn' # NoFile => Served(conn)' \in recent'
      BY <1>1, <1>3, <2>2, <3>1 DEF Asked
    <3> QED
      BY <1>3, <3>1, <3>2, <3>3 DEF ReaderSound, AnswersAreCurrent
  <2> QED
    BY <1>8, <2>4, <2>5
<1> QED
  BY <1>5, <1>6, <1>7, <1>8 DEF ServiceNext

LEMMA SystemInitSound ==
  ASSUME SystemInit
  PROVE  SystemInv
<1>1. CrawlSound
  BY CrawlInitSound DEF SystemInit, Init
<1>2. DOMAIN NoCache = {} /\ NoCache = [q \in {} |-> Default]
  BY DEF NoCache
<1>3. IsFiniteSet({}) /\ Cardinality({}) = 0 /\ 0 <= CacheMax
  BY FS_EmptySet, ServiceAssumption
<1>4. ServiceSound
  BY <1>2, <1>3
     DEF SystemInit, ServiceInit, ServiceSound, ServiceTypeOK, Asked, Default, Result
<1>5. conn = NoFile
  BY DEF SystemInit, FilesInit, conn, Process
<1>6. ReaderSound
  BY <1>2, <1>5 DEF SystemInit, ServiceInit, ReaderSound, CacheCoherent, AnswersAreCurrent, Asked
<1> QED
  BY <1>1, <1>4, <1>6 DEF SystemInv

LEMMA SystemStepSound ==
  ASSUME OneCrawler, SystemInv, SystemNext
  PROVE  SystemInv'
<1>1. CASE CrawlStep
  <2>1. CrawlSound' /\ ReaderKept
    BY <1>1, CrawlStepSound DEF CrawlStep, SystemInv, FileStep
  <2>2. ServiceSound'
    BY <1>1 DEF CrawlStep, serviceVars, SystemInv, ServiceSound, ServiceTypeOK, Asked
  <2>3. ReaderSound'
    BY <1>1, <2>1, ReaderBesideCrawl DEF CrawlStep, SystemInv
  <2> QED
    BY <2>1, <2>2, <2>3 DEF SystemInv
<1>2. CASE ServiceStep
  <2>1. CrawlSound'
    BY <1>2, ServiceMoves, ReaderMoveSound DEF ServiceStep, SystemInv
  <2> QED
    BY <1>2, <2>1, ServiceStepSound, ReaderStepSound DEF ServiceStep, SystemInv
<1> QED
  BY <1>1, <1>2 DEF SystemNext

LEMMA SystemStutter ==
  ASSUME SystemInv, UNCHANGED systemVars
  PROVE  SystemInv'
<1>1. CrawlSound' /\ ReaderKept
  BY CrawlStutter DEF SystemInv, systemVars, FileStep
<1>2. UNCHANGED vars /\ UNCHANGED serviceVars /\ recent' = recent
  BY DEF systemVars
<1>3. ServiceSound'
  BY <1>2 DEF serviceVars, SystemInv, ServiceSound, ServiceTypeOK, Asked
<1>4. /\ UNCHANGED <<content, live, fd, conn, at, ask, buildId, cache, answer, recent>>
  BY <1>2 DEF vars, files, serviceVars, conn
<1>5. ReaderSound'
  BY <1>4
     DEF SystemInv, ReaderSound, CacheCoherent, AnswersAreCurrent, Asked, ResultOf, Served, NoIndex
<1> QED
  BY <1>1, <1>3, <1>5 DEF SystemInv

LEMMA SystemInvariance ==
  ASSUME OneCrawler
  PROVE  SystemSpec => []SystemInv
<1>1. SystemInv /\ [SystemNext]_systemVars => SystemInv'
  BY SystemStepSound, SystemStutter
<1> QED
  BY <1>1, SystemInitSound, PTL DEF SystemSpec

(***************************************************************************)
(* What holds of every behaviour of the crawl and the reader.              *)
(***************************************************************************)
\* IndexService's variables are well formed, and its cache stays within
\* _CACHE_MAXSIZE.
THEOREM SystemTypeCorrect ==
  ASSUME OneCrawler
  PROVE  SystemSpec => []SystemTypeOK
<1>1. SystemInv => SystemTypeOK
  BY JobFacts
     DEF SystemInv, CrawlSound, CrawlTypes, ServiceSound, SystemTypeOK, TypeOK, Phase, JobOK
<1> QED
  BY <1>1, SystemInvariance, PTL

\* _maybe_reopen and _query: every cached result is what its query would return now
\* from the connection that is open, whose build is the one the service believes in.
THEOREM CachesAreCoherent ==
  ASSUME OneCrawler
  PROVE  SystemSpec => []CacheCoherent
<1>1. SystemInv => CacheCoherent
  BY DEF SystemInv, ReaderSound
<1> QED
  BY <1>1, SystemInvariance, PTL

\* A query that found a connection is answered from an index that was in service
\* between the question and the answer, whatever the crawl did in between.
THEOREM AnswersComeFromService ==
  ASSUME OneCrawler
  PROVE  SystemSpec => []AnswersAreCurrent
<1>1. SystemInv => AnswersAreCurrent
  BY DEF SystemInv, ReaderSound
<1> QED
  BY <1>1, SystemInvariance, PTL

\* The files of the crawl and the connection of the reader implement
\* IndexPublication: whole indexes are published one after the other, and the
\* reader turns to what is published at that moment.
THEOREM Publication ==
  ASSUME OneCrawler
  PROVE  SystemSpec => ImplementsPromise
<1>1. SystemInit => Promise!Init
  BY FilesAssumption, CorruptFacts
     DEF SystemInit, FilesInit, Promise!Init, Promise!Nothing, Published, View, Served, conn,
         Process, Whole
<1>2. Promise!Nothing = NoIndex /\ Promise!Index = WholeIndex
  BY DEF Promise!Nothing, Promise!Index, NoIndex, Served, WholeIndex
<1>3. ASSUME SystemInv, CrawlStep
      PROVE  [Promise!Next]_<<Published, View>>
  <2>1. FileStep
    BY <1>3, CrawlStepSound DEF CrawlStep, SystemInv
  <2>2. View' = View
    BY <2>1 DEF FileStep, ReaderKept, View, Served
  <2>3. CASE Served(live)' = Served(live)
    BY <2>2, <2>3 DEF Published
  <2>4. CASE Served(live)' = NoIndex
    BY <1>2, <2>2, <2>4 DEF Published, Promise!Next, Promise!Withdraw
  <2>5. CASE Supersedes
    BY <1>2, <2>2, <2>5 DEF Supersedes, Published, View, Promise!Next, Promise!Publish
  <2> QED
    BY <2>1, <2>3, <2>4, <2>5 DEF FileStep, PublishStep
<1>4. ASSUME SystemInv, ServiceStep
      PROVE  [Promise!Next]_<<Published, View>>
  <2>1. /\ Served(live)' = Served(live)
        /\ \/ Served(conn)' = Served(conn)
           \/ Served(conn)' = Served(live)
           \/ Served(conn)' = NoIndex
    BY <1>4, ServiceMoves, ReaderMoveServed DEF ServiceStep, SystemInv
  <2> QED
    BY <1>2, <2>1 DEF Published, View, Promise!Next, Promise!Follow, Promise!Blank
<1>5. ASSUME UNCHANGED systemVars
      PROVE  UNCHANGED <<Published, View>>
  BY <1>5 DEF systemVars, vars, files, Published, View, Served, conn
<1>6. SystemInv /\ [SystemNext]_systemVars => [Promise!Next]_<<Published, View>>
  BY <1>3, <1>4, <1>5 DEF SystemNext
<1> QED
  BY <1>1, <1>6, SystemInvariance, PTL DEF SystemSpec, ImplementsPromise, Promise!Spec
=============================================================================
