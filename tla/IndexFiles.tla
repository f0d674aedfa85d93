----------------------------- MODULE IndexFiles -----------------------------
(***************************************************************************)
(* IndexFiles: the file system the crawl and the server share.  A path     *)
(* names an inode; replacing or unlinking a path leaves the inode to       *)
(* whoever has it open (SQLite connections on POSIX), which is what the    *)
(* swap of crawl/crawl_db.py and the reader of index/loader.py rely on.    *)
(***************************************************************************)
EXTENDS Integers, FiniteSets

CONSTANTS Day,      \* the sitting dates from crawl_start_date to today
          Inode,    \* enough inodes for the paths and the open connections
          Build,    \* enough build_ids for the files that exist at one time
          Crawler,  \* the crawl processes that may run at one time
          Server,   \* the process that runs IndexService
          NoFile,   \* no inode: a path that does not exist, no connection
          NoBuild   \* no build_id: the meta table has no such row

ASSUME FilesAssumption ==
  /\ Day \subseteq Nat
  /\ NoFile \notin Inode
  /\ NoBuild \notin Build
  /\ Server \notin Crawler

VARIABLES content,  \* inode -> what the file holds
          live,     \* the inode at index_db_path
          staging,  \* the inode at the path with STAGING_SUFFIX
          fd        \* process -> the inode its SQLite connection has open

files == <<content, live, staging, fd>>

Process == Crawler \cup {Server}

\* crawl_state of a file: per day, no row, a row with had_reports = 0, or a row
\* with had_reports = 1 that is younger or older than crawl_recrawl_age_days.
Stamp == {"none", "empty", "fresh", "stale"}

\* reports holds the days whose rows the report table (and so every table built
\* from it) has.
File == [kind : {"db", "corrupt"}, build : Build \cup {NoBuild},
         reports : SUBSET Day, state : [Day -> Stamp]]

\* A file with the tables of init_db and no rows.
SchemaOnly == [kind |-> "db", build |-> NoBuild, reports |-> {},
               state |-> [d \in Day |-> "none"]]

Corrupt == [SchemaOnly EXCEPT !.kind = "corrupt"]

InUse == {live, staging} \cup {fd[p] : p \in Process}
Free == Inode \ InUse

\* A file is gone when no path names it and no connection has it open.
Kept(c) == [i \in Inode |-> IF i \in InUse' THEN c[i] ELSE SchemaOnly]

\* A uuid4: a build_id no file has.
FreshBuild(b) == \A i \in InUse \ {NoFile} : content[i].build # b

\* A new installation, or one whose index file is not a database.
FilesInit ==
  /\ staging = NoFile
  /\ fd = [p \in Process |-> NoFile]
  /\ live \in Inode \cup {NoFile}
  /\ content = [i \in Inode |-> IF i = live THEN Corrupt ELSE SchemaOnly]

FilesTypeOK ==
  /\ content \in [Inode -> File]
  /\ live \in Inode \cup {NoFile}
  /\ staging \in Inode \cup {NoFile}
  /\ fd \in [Process -> Inode \cup {NoFile}]

\* The path or connection gives a database.
Readable(i) == i # NoFile /\ content[i].kind = "db"

Whole(file) == file.kind = "db" /\ file.build # NoBuild

\* What a query can find at a path: the build and the days it has, or nothing.
Served(i) ==
  IF i # NoFile /\ Whole(content[i])
  THEN [build |-> content[i].build, reports |-> content[i].reports]
  ELSE [build |-> NoBuild, reports |-> {}]
=============================================================================
