----------------------------- MODULE TokenStore -----------------------------
(***************************************************************************)
(* The capability tokens: the management commands, which load tokens.yaml, *)
(* change one entry and put a new file in its place                        *)
(* (src/hansard_gateway/manage_tokens.py), and the server, which reads the *)
(* file once and admits requests from memory (auth.py, and the two other   *)
(* lookups in logging_setup.py and validation_errors.py).                  *)
(*                                                                         *)
(* Every system call of a save is a step, a command can be killed before   *)
(* any of them, and a write can fail half done.  Files are inodes behind   *)
(* two names, because a write goes to the inode that was opened, whatever  *)
(* its name is by then.                                                    *)
(***************************************************************************)
EXTENDS TokenEntries

CONSTANTS Misshapen,    \* a string that is not shaped like a token
          Operator,     \* the commands that may run at a time
          Inode,        \* the files there can be
          None          \* no label, no token, no file

ASSUME NamesAssumption ==
  /\ Misshapen \notin Token
  /\ None \notin Label \cup Token \cup Inode

VARIABLES content,      \* inode -> what was written to it
          private,      \* inode -> whether its mode is 0600
          live,         \* the inode named tokens.yaml, or None
          tmp,          \* the inode named tokens.yaml.tmp, or None
          cmd,          \* operator -> its command
          memory,       \* the entries that the server has read, None before
          reply,        \* the last answer of the server
          issued,       \* history: every token generated
          printed,      \* history: the tokens shown to an operator
          gone,         \* history: the tokens disabled or replaced in the store
          known         \* history: printed and gone when the server read the store

files == <<content, private, live, tmp>>
server == <<memory, reply, known>>
history == <<issued, printed, gone>>
vars == <<files, cmd, server, history>>

(***************************************************************************)
(* What a file can hold: a store written whole, part of one (nothing, or   *)
(* YAML that was cut between two entries), or YAML that does not parse.    *)
(***************************************************************************)
Content == [state : {"whole", "part", "torn"}, entries : Store]

Whole(s) == [state |-> "whole", entries |-> s]
Part(s) == [state |-> "part", entries |-> s]
Blank == Part(NoEntries)
Torn == [state |-> "torn", entries |-> NoEntries]

\* What a write that stopped half way leaves.
Prefixes(s) == {Torn} \cup {Part([l \in D |-> s[l]]) : D \in SUBSET DOMAIN s}

Idle == [at |-> "idle", token |-> None, old |-> None, store |-> NoEntries,
         fd |-> None, exit |-> None]

\* Mutant of LoadFails: a store that does not parse passes for an empty one.
LoadNeverFails(file) == FALSE

\* `load_store`: the entries of the file; a missing or an empty file has none,
\* and one that does not parse is refused.
LoadFails(file) == file # None /\ content[file].state = "torn"
LoadStore(file) == IF file = None THEN NoEntries ELSE content[file].entries

Ends(op, exit) == cmd' = [cmd EXCEPT ![op] = [Idle EXCEPT !.exit = exit]]

\* Every command starts by loading the store (`cmd_list` ends there).
ListTokens(op) ==
  /\ cmd[op].at = "idle"
  /\ Ends(op, IF LoadFails(live) THEN "store_error" ELSE "ok")
  /\ UNCHANGED <<files, server, history>>

\* The change is made in the command's own copy of the entries; the save is
\* still to come.
Saves(op, label, token, store) ==
  cmd' = [cmd EXCEPT ![op] =
    [at |-> "open", token |-> token,
     old |-> IF label \in DOMAIN LoadStore(live)
             THEN LoadStore(live)[label].token ELSE None,
     store |-> store, fd |-> None, exit |-> None]]

\* `cmd_generate`: a label that exists is an error (use rotate).
CmdGenerate(op, label) ==
  /\ cmd[op].at = "idle"
  /\ IF LoadFails(live) THEN Ends(op, "store_error") /\ UNCHANGED issued
     ELSE IF label \in DOMAIN LoadStore(live)
       THEN Ends(op, "label_error") /\ UNCHANGED issued
     ELSE \E t \in Token \ issued :
            /\ Saves(op, label, t, Generated(LoadStore(live), label, t))
            /\ issued' = issued \cup {t}
  /\ UNCHANGED <<files, server, printed, gone>>

\* `cmd_disable`: the entry stays, switched off.
CmdDisable(op, label) ==
  /\ cmd[op].at = "idle"
  /\ IF LoadFails(live) THEN Ends(op, "store_error")
     ELSE IF label \notin DOMAIN LoadStore(live) THEN Ends(op, "label_error")
     ELSE Saves(op, label, None, Disabled(LoadStore(live), label))
  /\ UNCHANGED <<files, server, history>>

\* `cmd_rotate`: a new digest in the entry, switched on.
CmdRotate(op, label) ==
  /\ cmd[op].at = "idle"
  /\ IF LoadFails(live) THEN Ends(op, "store_error") /\ UNCHANGED issued
     ELSE IF label \notin DOMAIN LoadStore(live)
       THEN Ends(op, "label_error") /\ UNCHANGED issued
     ELSE \E t \in Token \ issued :
            /\ Saves(op, label, t, Rotated(LoadStore(live), label, t))
            /\ issued' = issued \cup {t}
  /\ UNCHANGED <<files, server, printed, gone>>

(***************************************************************************)
(* save_store, one system call at a time.                                  *)
(***************************************************************************)
InUse == {live, tmp} \cup {cmd[op].fd : op \in Operator}

\* Mutant of OpenTmp: the store is written in place.
OpenInPlace(op) ==
  /\ cmd[op].at = "open"
  /\ live # None
  /\ content' = [content EXCEPT ![live] = Blank]
  /\ tmp' = live
  /\ cmd' = [cmd EXCEPT ![op].at = "write", ![op].fd = live]
  /\ UNCHANGED <<live, private, server, history>>

\* `tmp_path.write_text` opens the file: the one that has the name, emptied,
\* or a new one with the default mode.
OpenTmp(op) ==
  /\ cmd[op].at = "open"
  /\ \E i \in Inode :
       /\ IF tmp # None THEN i = tmp ELSE i \notin InUse
       /\ content' = [content EXCEPT ![i] = Blank]
       /\ private' = [private EXCEPT ![i] = IF tmp # None THEN @ ELSE FALSE]
       /\ tmp' = i
       /\ cmd' = [cmd EXCEPT ![op].at = "write", ![op].fd = i]
  /\ UNCHANGED <<live, server, history>>

\* ... and writes it out and closes it.
WriteTmp(op) ==
  /\ cmd[op].at = "write"
  /\ content' = [content EXCEPT ![cmd[op].fd] = Whole(cmd[op].store)]
  /\ cmd' = [cmd EXCEPT ![op].at = "chmod", ![op].fd = None]
  /\ UNCHANGED <<private, live, tmp, server, history>>

\* The write fails, or the command is killed in it, with part of the file out.
WriteStops(op) ==
  /\ cmd[op].at = "write"
  /\ \E c \in Prefixes(cmd[op].store) :
       content' = [content EXCEPT ![cmd[op].fd] = c]
  /\ Ends(op, "crash")
  /\ UNCHANGED <<private, live, tmp, server, history>>

\* `os.chmod(tmp_path)`; it raises if another command has moved the file away.
ChmodTmp(op) ==
  /\ cmd[op].at = "chmod"
  /\ IF tmp = None THEN Ends(op, "crash") /\ UNCHANGED private
     ELSE /\ private' = [private EXCEPT ![tmp] = TRUE]
          /\ cmd' = [cmd EXCEPT ![op].at = "replace"]
  /\ UNCHANGED <<content, live, tmp, server, history>>

\* `os.replace(tmp_path, path)`: from here on the change is in the store.
Replace(op) ==
  /\ cmd[op].at = "replace"
  /\ IF tmp = None THEN Ends(op, "crash") /\ UNCHANGED <<live, gone>>
     ELSE /\ live' = tmp
          /\ gone' = gone \cup ({cmd[op].old} \ {None})
          /\ cmd' = [cmd EXCEPT ![op].at = "chmod_live"]
  /\ tmp' = None
  /\ UNCHANGED <<content, private, server, issued, printed>>

\* `os.chmod(path)`.
ChmodLive(op) ==
  /\ cmd[op].at = "chmod_live"
  /\ private' = [private EXCEPT ![live] = TRUE]
  /\ cmd' = [cmd EXCEPT ![op].at = "print"]
  /\ UNCHANGED <<content, live, tmp, server, history>>

\* The one line of output: the new token, or that the label is disabled.
PrintResult(op) ==
  /\ cmd[op].at = "print"
  /\ printed' = printed \cup ({cmd[op].token} \ {None})
  /\ Ends(op, "ok")
  /\ UNCHANGED <<files, server, issued, gone>>

\* The command is killed between two system calls.
Kill(op) ==
  /\ cmd[op].at # "idle"
  /\ Ends(op, "crash")
  /\ UNCHANGED <<files, server, history>>

(***************************************************************************)
(* The server: one process, which reads the store at its first request.    *)
(***************************************************************************)
\* `TokenStore.reload`: what does not parse, and what is not a mapping with a
\* list (an empty file), is a store without entries.
Reload == LoadStore(live)

\* `get_token_store`: read once, at the first lookup, and never again.
Held == IF memory = None THEN Reload ELSE memory

\* Mutant of Enabled: the flag is not looked at.
EnabledAnyway(s) == s

\* `enabled_entries`.
Enabled(s) == [l \in {m \in DOMAIN s : s[m].enabled} |-> s[l]]

Holder(token) ==
  LET match == {l \in DOMAIN Enabled(Held) : Enabled(Held)[l].token = token}
  IN  IF match = {} THEN None ELSE CHOOSE l \in match : TRUE

\* `require_capability_token`: what is not shaped like a token is refused
\* before it is looked up.
Admits(token) == token # Misshapen /\ Holder(token) # None

\* `_label_for_path`, for the log line, and `_resolve_token`, for the page of a
\* rejected parameter: the same lookup, without the shape.
LabelForPath(token) == Holder(token)
ResolveToken(token) == IF Holder(token) = None THEN None ELSE token

\* A request: the log's lookup comes first and reads the store if nobody has.
Request(token) ==
  /\ memory' = Held
  /\ known' = IF memory = None THEN [printed |-> printed, gone |-> gone] ELSE known
  /\ reply' = [token |-> token, admitted |-> Admits(token),
               logged |-> LabelForPath(token), page |-> ResolveToken(token)]
  /\ UNCHANGED <<files, cmd, history>>

\* The service is restarted: a new process has read nothing.
Restart ==
  /\ memory # None
  /\ memory' = None
  /\ known' = [printed |-> {}, gone |-> {}]
  /\ reply' = [token |-> None, admitted |-> FALSE, logged |-> None, page |-> None]
  /\ UNCHANGED <<files, cmd, history>>

(***************************************************************************)
(* A store made by earlier commands, no store at all, or one that somebody *)
(* has broken by hand.                                                     *)
(***************************************************************************)
Init ==
  /\ \E i \in Inode, c \in {Torn} \cup {Whole(s) : s \in Store} :
       /\ \A l, m \in DOMAIN c.entries :
            c.entries[l].token = c.entries[m].token => l = m
       /\ content = [j \in Inode |-> IF j = i THEN c ELSE Blank]
       /\ live \in IF c.entries = NoEntries THEN {i, None} ELSE {i}
       /\ issued = {c.entries[l].token : l \in DOMAIN c.entries}
  /\ private = [i \in Inode |-> TRUE]
  /\ tmp = None
  /\ cmd = [op \in Operator |-> Idle]
  /\ memory = None
  /\ reply = [token |-> None, admitted |-> FALSE, logged |-> None, page |-> None]
  /\ printed = Working(LoadStore(live))
  /\ gone = {}
  /\ known = [printed |-> {}, gone |-> {}]

Command(op) ==
  \/ ListTokens(op)
  \/ \E label \in Label :
       CmdGenerate(op, label) \/ CmdDisable(op, label) \/ CmdRotate(op, label)
  \/ OpenTmp(op) \/ WriteTmp(op) \/ WriteStops(op) \/ ChmodTmp(op)
  \/ Replace(op) \/ ChmodLive(op) \/ PrintResult(op) \/ Kill(op)

Next ==
  \/ \E op \in Operator : Command(op)
  \/ \E token \in Token \cup {Misshapen} : Request(token)
  \/ Restart

Spec == Init /\ [][Next]_vars

(***************************************************************************)
(* Properties.                                                             *)
(***************************************************************************)
At == {"idle", "open", "write", "chmod", "replace", "chmod_live", "print"}

Commands ==
  [at : At, token : Token \cup {None}, old : Token \cup {None}, store : Store,
   fd : Inode \cup {None}, exit : {"ok", "store_error", "label_error", "crash", None}]

TypeOK ==
  /\ content \in [Inode -> Content]
  /\ private \in [Inode -> BOOLEAN]
  /\ live \in Inode \cup {None}
  /\ tmp \in Inode \cup {None}
  /\ cmd \in [Operator -> Commands]
  /\ memory \in Store \cup {None}
  /\ reply \in [token : Token \cup {Misshapen, None}, admitted : BOOLEAN,
                logged : Label \cup {None}, page : Token \cup {None}]
  /\ issued \in SUBSET Token
  /\ printed \in SUBSET Token
  /\ gone \in SUBSET Token
  /\ known \in [printed : SUBSET Token, gone : SUBSET Token]

\* save_store and load_store: wherever a command stops, tokens.yaml never
\* becomes a part of a file, nor readable by others on the way, and a file that
\* does not parse is left as it is.
LiveStoreSound ==
  [][/\ live' # None /\ (live' # live \/ content'[live'] # content[live']) =>
          content'[live'].state = "whole" /\ private'[live']
     /\ live # None /\ content[live].state = "torn" =>
          live' = live /\ content'[live] = content[live]]_vars

\* A server honours every command that came before it read the store: what
\* was disabled or replaced by then is refused, and what was handed out and
\* not taken back is admitted, whatever was killed in between.
ServerHonoursStore ==
  memory # None =>
    \A t \in Token :
      /\ t \in known.gone => ~Admits(t)
      /\ t \in known.printed \ known.gone => Admits(t)

\* The commands, killed anywhere, implement TokenPromise: the store changes
\* by one whole command at a time, made on the store as it is.
Promise == INSTANCE TokenPromise WITH store <- LoadStore(live)
ImplementsPromise == Promise!Spec
=============================================================================
