-------------------------- MODULE TokenStore_proofs -------------------------
(***************************************************************************)
(* For any labels, tokens and files, and one command at a time, killed or  *)
(* failing anywhere: the store in place is always whole and private, it    *)
(* changes as TokenPromise says, and the server honours what it has read.  *)
(***************************************************************************)
EXTENDS TokenStore, TLAPS

Tokens(s) == {s[l].token : l \in DOMAIN s}
Distinct(s) == \A l, m \in DOMAIN s : s[l].token = s[m].token => l = m

(***************************************************************************)
(* Stores and the changes of one label.                                    *)
(***************************************************************************)
LEMMA StoreIsFunction ==
  ASSUME NEW s \in Store
  PROVE  DOMAIN s \in SUBSET Label /\ s \in [DOMAIN s -> Entry]
BY DEF Store

LEMMA FunctionIsStore ==
  ASSUME NEW D \in SUBSET Label, NEW s \in [D -> Entry]
  PROVE  s \in Store
BY DEF Store

LEMMA NewEntry ==
  ASSUME NEW t \in Token
  PROVE  [token |-> t, enabled |-> TRUE] \in Entry
BY DEF Entry

LEMMA EntrySwitchedOff ==
  ASSUME NEW e \in Entry
  PROVE  [e EXCEPT !.enabled = FALSE] \in Entry
BY DEF Entry

LEMMA GeneratedIsStore ==
  ASSUME NEW s \in Store, NEW label \in Label, NEW t \in Token
  PROVE  Generated(s, label, t) \in Store
<1> DEFINE D == DOMAIN s \cup {label}
           e == [token |-> t, enabled |-> TRUE]
<1>1. D \in SUBSET Label /\ s \in [DOMAIN s -> Entry] /\ e \in Entry
  BY StoreIsFunction, NewEntry
<1> HIDE DEF e
<1>2. \A l \in D : (IF l = label THEN e ELSE s[l]) \in Entry
  BY <1>1
<1>3. [l \in D |-> IF l = label THEN e ELSE s[l]] \in [D -> Entry]
  BY <1>2
<1>4. [l \in D |-> IF l = label THEN e ELSE s[l]] \in Store
  BY <1>1, <1>3, FunctionIsStore
<1> QED
  BY <1>4 DEF Generated, e

LEMMA DisabledIsStore ==
  ASSUME NEW s \in Store, NEW label \in DOMAIN s
  PROVE  Disabled(s, label) \in Store
<1> DEFINE D == DOMAIN s
           e == [s[label] EXCEPT !.enabled = FALSE]
<1>1. D \in SUBSET Label /\ s \in [D -> Entry]
  BY StoreIsFunction
<1>2. e \in Entry
  BY <1>1, EntrySwitchedOff
<1> HIDE DEF e
<1>3. [s EXCEPT ![label] = e] \in [D -> Entry]
  BY <1>1, <1>2
<1>4. [s EXCEPT ![label] = e] \in Store
  BY <1>1, <1>3, FunctionIsStore
<1> QED
  BY <1>4 DEF Disabled, e

LEMMA RotatedIsStore ==
  ASSUME NEW s \in Store, NEW label \in DOMAIN s, NEW t \in Token
  PROVE  Rotated(s, label, t) \in Store
<1> DEFINE D == DOMAIN s
           e == [token |-> t, enabled |-> TRUE]
<1>1. D \in SUBSET Label /\ s \in [D -> Entry] /\ e \in Entry
  BY StoreIsFunction, NewEntry
<1> HIDE DEF e
<1>3. [s EXCEPT ![label] = e] \in [D -> Entry]
  BY <1>1
<1>4. [s EXCEPT ![label] = e] \in Store
  BY <1>1, <1>3, FunctionIsStore
<1> QED
  BY <1>4 DEF Rotated, e

LEMMA NoEntriesFacts ==
  NoEntries \in Store /\ Distinct(NoEntries) /\ Tokens(NoEntries) = {} /\ Working(NoEntries) = {}
BY DEF NoEntries, Store, Distinct, Tokens, Working

LEMMA WorkingTokens ==
  ASSUME NEW s \in Store
  PROVE  Working(s) \subseteq Tokens(s) /\ Tokens(s) \subseteq Token
BY DEF Working, Tokens, Store, Entry

LEMMA GeneratedFacts ==
  ASSUME NEW s \in Store, Distinct(s), NEW label \in Label, label \notin DOMAIN s,
         NEW t \in Token, t \notin Tokens(s)
  PROVE  LET g == Generated(s, label, t)
         IN  /\ Distinct(g) /\ Tokens(g) = Tokens(s) \cup {t}
             /\ Working(g) = Working(s) \cup {t}
<1> DEFINE g == Generated(s, label, t)
<1>1. /\ DOMAIN g = DOMAIN s \cup {label} /\ g[label].token = t /\ g[label].enabled
      /\ \A l \in DOMAIN s : g[l] = s[l]
  BY DEF Generated
<1> HIDE DEF g
<1>2. Distinct(g)
  BY <1>1 DEF Distinct, Tokens
<1>3. Tokens(g) = Tokens(s) \cup {t}
  BY <1>1 DEF Tokens
<1>4. Working(g) = Working(s) \cup {t}
  BY <1>1 DEF Working
<1> QED
  BY <1>2, <1>3, <1>4 DEF g

LEMMA DisabledFacts ==
  ASSUME NEW s \in Store, Distinct(s), NEW label \in DOMAIN s
  PROVE  LET d == Disabled(s, label)
         IN  /\ Distinct(d) /\ Tokens(d) = Tokens(s)
             /\ Working(d) = Working(s) \ {s[label].token}
<1> DEFINE d == Disabled(s, label)
<1>1. /\ DOMAIN d = DOMAIN s /\ d[label].token = s[label].token /\ ~d[label].enabled
      /\ \A l \in DOMAIN s \ {label} : d[l] = s[l]
  BY DEF Disabled, Store, Entry
<1> HIDE DEF d
<1>2. Distinct(d)
  BY <1>1 DEF Distinct
<1>3. Tokens(d) = Tokens(s)
  BY <1>1 DEF Tokens
<1>4. Working(d) = Working(s) \ {s[label].token}
  BY <1>1 DEF Working, Distinct
<1> QED
  BY <1>2, <1>3, <1>4 DEF d

LEMMA RotatedFacts ==
  ASSUME NEW s \in Store, Distinct(s), NEW label \in DOMAIN s,
         NEW t \in Token, t \notin Tokens(s)
  PROVE  LET r == Rotated(s, label, t)
         IN  /\ Distinct(r) /\ Tokens(r) \subseteq Tokens(s) \cup {t}
             /\ Working(r) = (Working(s) \ {s[label].token}) \cup {t}
<1> DEFINE r == Rotated(s, label, t)
<1>1. /\ DOMAIN r = DOMAIN s /\ r[label].token = t /\ r[label].enabled
      /\ \A l \in DOMAIN s \ {label} : r[l] = s[l]
  BY DEF Rotated
<1> HIDE DEF r
<1>2. Distinct(r)
  BY <1>1 DEF Distinct, Tokens
<1>3. Tokens(r) \subseteq Tokens(s) \cup {t}
  BY <1>1 DEF Tokens
<1>4. Working(r) = (Working(s) \ {s[label].token}) \cup {t}
  BY <1>1 DEF Working, Distinct, Tokens
<1> QED
  BY <1>2, <1>3, <1>4 DEF r

(***************************************************************************)
(* The invariant.  A command that has changed its copy of the entries, and *)
(* has not yet put it in place, holds one promised change of the store as  *)
(* it still is; nobody else can have saved meanwhile.                      *)
(***************************************************************************)
OneOperator == \A o, p \in Operator : o = p

S == LoadStore(live)

FilesApart == live # None => live # tmp

PromisedChange(s, new) ==
  \E label \in Label :
    \/ label \notin DOMAIN s /\ \E t \in Token : new = Generated(s, label, t)
    \/ label \in DOMAIN s /\ new = Disabled(s, label)
    \/ label \in DOMAIN s /\ \E t \in Token : new = Rotated(s, label, t)

\* What a command is about to put in the place of S.
Change(c) ==
  /\ PromisedChange(S, c.store)
  /\ Distinct(c.store)
  /\ Tokens(c.store) \subseteq issued
  /\ Working(c.store) = (Working(S) \ {c.old}) \cup ({c.token} \ {None})
  /\ c.token \notin printed \cup gone
  /\ c.token = c.old => c.token = None
  /\ c.old \in issued \cup {None}

CommandSound(c) ==
  /\ c.at \in {"open", "write", "chmod", "replace"} => ~LoadFails(live) /\ Change(c)
  /\ c.at = "write" => tmp # None /\ c.fd = tmp
  /\ c.at \in {"chmod", "replace"} => tmp # None /\ content[tmp] = Whole(c.store)
  /\ c.at = "replace" => private[tmp]
  /\ c.at \in {"chmod_live", "print"} =>
       live # None /\ (c.token # None => c.token \in Working(S))

CommandsSound == \A op \in Operator : CommandSound(cmd[op])

HistorySound ==
  /\ Distinct(S)
  /\ Tokens(S) \subseteq issued
  /\ printed \cup gone \subseteq issued
  /\ printed \ gone \subseteq Working(S)
  /\ gone \cap Working(S) = {}

MemorySound ==
  memory # None =>
    /\ Distinct(memory)
    /\ known.printed \ known.gone \subseteq Working(memory)
    /\ known.gone \cap Working(memory) = {}

IInv ==
  TypeOK /\ FilesApart /\ CommandsSound /\ HistorySound /\ MemorySound

(***************************************************************************)
(* Types.                                                                  *)
(***************************************************************************)
LEMMA StoreLoaded ==
  ASSUME TypeOK
  PROVE  S \in Store
BY NoEntriesFacts DEF TypeOK, S, LoadStore, Content

LEMMA StoreUnmoved ==
  ASSUME live' = live, live # None => content'[live] = content[live]
  PROVE  S' = S /\ LoadFails(live)' = LoadFails(live)
BY DEF S, LoadStore, LoadFails

LEMMA WrittenContent ==
  ASSUME NEW s \in Store
  PROVE  Whole(s) \in Content /\ Blank \in Content /\ Torn \in Content
         /\ \A c \in Prefixes(s) : c \in Content
<1>1. \A D \in SUBSET DOMAIN s : Part([l \in D |-> s[l]]) \in Content
  <2> TAKE D \in SUBSET DOMAIN s
  <2>1. D \in SUBSET Label /\ [l \in D |-> s[l]] \in [D -> Entry]
    BY StoreIsFunction
  <2>2. [l \in D |-> s[l]] \in Store
    BY <2>1, FunctionIsStore
  <2> QED
    BY <2>2 DEF Part, Content
<1> QED
  BY <1>1, NoEntriesFacts DEF Whole, Blank, Part, Torn, Prefixes, Content

Exits == {"ok", "store_error", "label_error", "crash", None}

LEMMA IdleCommand ==
  \A x \in Exits : /\ [Idle EXCEPT !.exit = x] \in Commands
                   /\ [Idle EXCEPT !.exit = x].at = "idle"
BY NoEntriesFacts DEF Exits, Idle, Commands, At

LEMMA EndsType ==
  ASSUME cmd \in [Operator -> Commands], NEW op \in Operator, NEW x \in Exits, Ends(op, x)
  PROVE  cmd' \in [Operator -> Commands] /\ cmd'[op].at = "idle"
BY IdleCommand DEF Ends

LEMMA SavesType ==
  ASSUME TypeOK, NEW op \in Operator, NEW label, NEW t \in Token \cup {None},
         NEW s \in Store, Saves(op, label, t, s)
  PROVE  cmd' \in [Operator -> Commands]
<1>1. S \in Store
  BY StoreLoaded
<1>2. (IF label \in DOMAIN S THEN S[label].token ELSE None) \in Token \cup {None}
  BY <1>1, WorkingTokens DEF Tokens
<1> QED
  BY <1>2 DEF Saves, TypeOK, Commands, At, S

LEMMA HolderType ==
  ASSUME NEW token
  PROVE  Holder(token) = None \/ (Holder(token) \in DOMAIN Held /\ Held[Holder(token)].token = token
                                  /\ Held[Holder(token)].enabled)
BY DEF Holder, Enabled

LEMMA ReplyRecord ==
  \A a \in Token \cup {Misshapen, None}, b \in BOOLEAN, c \in Label \cup {None},
     d \in Token \cup {None} :
    [token |-> a, admitted |-> b, logged |-> c, page |-> d] \in
      [token : Token \cup {Misshapen, None}, admitted : BOOLEAN,
       logged : Label \cup {None}, page : Token \cup {None}]
OBVIOUS

LEMMA RequestType ==
  ASSUME TypeOK, NEW token \in Token \cup {Misshapen}, Request(token)
  PROVE  TypeOK'
<1>1. Held \in Store
  BY StoreLoaded DEF Held, Reload, S, TypeOK
<1>2. DOMAIN Held \subseteq Label /\ \A l \in DOMAIN Held : Held[l].token \in Token
  BY <1>1, StoreIsFunction, WorkingTokens DEF Tokens
<1>3. LabelForPath(token) \in Label \cup {None} /\ ResolveToken(token) \in Token \cup {None}
  BY <1>2, HolderType DEF LabelForPath, ResolveToken
<1>4. Admits(token) \in BOOLEAN
  BY DEF Admits
<1>5. reply' \in [token : Token \cup {Misshapen, None}, admitted : BOOLEAN,
                  logged : Label \cup {None}, page : Token \cup {None}]
  BY <1>3, <1>4, ReplyRecord DEF Request
<1>6. known' \in [printed : SUBSET Token, gone : SUBSET Token]
  BY DEF Request, TypeOK
<1> QED
  BY <1>1, <1>5, <1>6 DEF Request, TypeOK, files, history

LEMMA RestartType ==
  ASSUME TypeOK, Restart
  PROVE  TypeOK'
<1>1. reply' \in [token : Token \cup {Misshapen, None}, admitted : BOOLEAN,
                  logged : Label \cup {None}, page : Token \cup {None}]
  BY ReplyRecord DEF Restart
<1> QED
  BY <1>1 DEF Restart, TypeOK, files, history

LEMMA CommandType ==
  ASSUME TypeOK, NEW op \in Operator, Command(op)
  PROVE  TypeOK'
<1> USE NamesAssumption
<1>t. cmd \in [Operator -> Commands] /\ cmd[op].store \in Store
  BY DEF TypeOK, Commands
<1>s. S \in Store
  BY StoreLoaded
<1>1. CASE ListTokens(op)
  BY <1>1, <1>t, EndsType DEF ListTokens, Exits, TypeOK, files, server, history
<1>2. ASSUME NEW label \in Label, CmdGenerate(op, label)
      PROVE  TypeOK'
  <2>1. \A t \in Token : Generated(S, label, t) \in Store
    BY <1>s, GeneratedIsStore
  <2>2. cmd' \in [Operator -> Commands] /\ issued' \in SUBSET Token
    <3>1. ASSUME NEW x \in Exits, Ends(op, x), UNCHANGED issued
          PROVE  cmd' \in [Operator -> Commands] /\ issued' \in SUBSET Token
      BY <1>t, <3>1, EndsType DEF TypeOK
    <3>2. ASSUME NEW t \in Token, Saves(op, label, t, Generated(LoadStore(live), label, t)),
                 issued' = issued \cup {t}
          PROVE  cmd' \in [Operator -> Commands] /\ issued' \in SUBSET Token
      BY <2>1, <3>2, SavesType DEF TypeOK, S
    <3> QED
      BY <1>2, <3>1, <3>2 DEF CmdGenerate, Exits
  <2> QED
    BY <1>2, <2>2 DEF CmdGenerate, TypeOK, files, server
<1>3. ASSUME NEW label \in Label, CmdDisable(op, label)
      PROVE  TypeOK'
  <2>1. cmd' \in [Operator -> Commands]
    <3>1. CASE \E x \in Exits : Ends(op, x)
      BY <1>t, <3>1, EndsType
    <3>2. CASE label \in DOMAIN S /\ Saves(op, label, None, Disabled(S, label))
      BY <1>s, <3>2, DisabledIsStore, SavesType
    <3> QED
      BY <1>3, <3>1, <3>2 DEF CmdDisable, Exits, S
  <2> QED
    BY <1>3, <2>1 DEF CmdDisable, TypeOK, files, server, history
<1>4. ASSUME NEW label \in Label, CmdRotate(op, label)
      PROVE  TypeOK'
  <2>2. cmd' \in [Operator -> Commands] /\ issued' \in SUBSET Token
    <3>1. ASSUME NEW x \in Exits, Ends(op, x), UNCHANGED issued
          PROVE  cmd' \in [Operator -> Commands] /\ issued' \in SUBSET Token
      BY <1>t, <3>1, EndsType DEF TypeOK
    <3>2. ASSUME label \in DOMAIN S, NEW t \in Token,
                 Saves(op, label, t, Rotated(LoadStore(live), label, t)),
                 issued' = issued \cup {t}
          PROVE  cmd' \in [Operator -> Commands] /\ issued' \in SUBSET Token
      <4>1. Rotated(LoadStore(live), label, t) \in Store
        BY <1>s, <3>2, RotatedIsStore DEF S
      <4> QED
        BY <3>2, <4>1, SavesType DEF TypeOK
    <3> QED
      BY <1>4, <3>1, <3>2 DEF CmdRotate, Exits, S
  <2> QED
    BY <1>4, <2>2 DEF CmdRotate, TypeOK, files, server
<1>5. CASE OpenTmp(op)
  <2>1. PICK i \in Inode :
          /\ content' = [content EXCEPT ![i] = Blank]
          /\ private' = [private EXCEPT ![i] = IF tmp # None THEN @ ELSE FALSE]
          /\ tmp' = i
          /\ cmd' = [cmd EXCEPT ![op].at = "write", ![op].fd = i]
    BY <1>5 DEF OpenTmp
  <2>2. cmd' \in [Operator -> Commands]
    <3>1. [cmd[op] EXCEPT !.at = "write", !.fd = i] \in Commands
      BY <1>t DEF Commands, At
    <3>2. cmd' = [cmd EXCEPT ![op] = [cmd[op] EXCEPT !.at = "write", !.fd = i]]
      BY <1>t, <2>1
    <3> QED
      BY <1>t, <3>1, <3>2
  <2>3. content' \in [Inode -> Content]
    BY <1>t, <2>1, WrittenContent DEF TypeOK
  <2>4. private' \in [Inode -> BOOLEAN]
    BY <2>1 DEF TypeOK
  <2> QED
    BY <1>5, <2>1, <2>2, <2>3, <2>4 DEF OpenTmp, TypeOK, server, history
<1>6. CASE WriteTmp(op)
  <2>1. cmd' \in [Operator -> Commands]
    <3>1. [cmd[op] EXCEPT !.at = "chmod", !.fd = None] \in Commands
      BY <1>t DEF Commands, At
    <3>2. cmd' = [cmd EXCEPT ![op] = [cmd[op] EXCEPT !.at = "chmod", !.fd = None]]
      BY <1>6, <1>t DEF WriteTmp
    <3> QED
      BY <1>t, <3>1, <3>2
  <2>2. content' \in [Inode -> Content]
    BY <1>6, <1>t, WrittenContent DEF WriteTmp, TypeOK
  <2> QED
    BY <1>6, <2>1, <2>2 DEF WriteTmp, TypeOK, server, history
<1>7. CASE WriteStops(op)
  <2>1. cmd' \in [Operator -> Commands]
    BY <1>7, <1>t, EndsType DEF WriteStops, Exits
  <2>2. content' \in [Inode -> Content]
    BY <1>7, <1>t, WrittenContent DEF WriteStops, TypeOK
  <2> QED
    BY <1>7, <2>1, <2>2 DEF WriteStops, TypeOK, server, history
<1>8. CASE ChmodTmp(op)
  <2>1. cmd' \in [Operator -> Commands]
    BY <1>8, <1>t, EndsType DEF ChmodTmp, Exits, Commands, At
  <2>2. private' \in [Inode -> BOOLEAN]
    BY <1>8 DEF ChmodTmp, TypeOK
  <2> QED
    BY <1>8, <2>1, <2>2 DEF ChmodTmp, TypeOK, server, history
<1>9. CASE Replace(op)
  <2>1. cmd' \in [Operator -> Commands]
    BY <1>9, <1>t, EndsType DEF Replace, Exits, Commands, At
  <2>2. gone' \in SUBSET Token /\ live' \in Inode \cup {None}
    BY <1>9, <1>t DEF Replace, TypeOK, Commands
  <2> QED
    BY <1>9, <2>1, <2>2 DEF Replace, TypeOK, server
<1>10. CASE ChmodLive(op)
  <2>1. cmd' \in [Operator -> Commands]
    BY <1>10, <1>t DEF ChmodLive, Commands, At
  <2>2. private' \in [Inode -> BOOLEAN]
    BY <1>10 DEF ChmodLive, TypeOK
  <2> QED
    BY <1>10, <2>1, <2>2 DEF ChmodLive, TypeOK, server, history
<1>11. CASE PrintResult(op)
  <2>1. cmd' \in [Operator -> Commands]
    BY <1>11, <1>t, EndsType DEF PrintResult, Exits
  <2>2. printed' \in SUBSET Token
    BY <1>11, <1>t DEF PrintResult, TypeOK, Commands
  <2> QED
    BY <1>11, <2>1, <2>2 DEF PrintResult, TypeOK, files, server
<1>12. CASE Kill(op)
  BY <1>12, <1>t, EndsType DEF Kill, Exits, TypeOK, files, server, history
<1> QED
  BY <1>1, <1>2, <1>3, <1>4, <1>5, <1>6, <1>7, <1>8, <1>9, <1>10, <1>11, <1>12 DEF Command

(***************************************************************************)
(* The commands keep the invariant.                                        *)
(***************************************************************************)
Rest == FilesApart /\ CommandsSound /\ HistorySound /\ MemorySound

\* A command that has ended asks for nothing.
LEMMA EndedCommand ==
  ASSUME IInv, OneOperator, NEW op \in Operator, NEW x \in Exits, Ends(op, x),
         UNCHANGED <<live, tmp, server, issued, gone>>, HistorySound', 
         live # None => content'[live] = content[live]
  PROVE  Rest'
<1>1. cmd'[op].at = "idle"
  BY EndsType DEF IInv, TypeOK
<1>2. CommandSound(cmd[op])'
  BY <1>1 DEF CommandSound
<1>3. CommandsSound'
  BY <1>2 DEF CommandsSound, OneOperator
<1>4. FilesApart' /\ MemorySound'
  BY DEF IInv, FilesApart, MemorySound, server
<1> QED
  BY <1>3, <1>4 DEF Rest

LEMMA HistoryUnmoved ==
  ASSUME IInv, UNCHANGED <<live, history>>, live # None => content'[live] = content[live]
  PROVE  HistorySound'
<1>1. S' = S
  BY StoreUnmoved
<1> QED
  BY <1>1 DEF IInv, HistorySound, history

\* A token that was never issued is in no record.
LEMMA FreshToken ==
  ASSUME IInv, NEW t \in Token \ issued
  PROVE  t \notin Tokens(S) /\ t \notin printed \cup gone
BY DEF IInv, HistorySound

\* The command's copy holds the change once it is made.
LEMMA ChangeMade ==
  ASSUME IInv, OneOperator, NEW op \in Operator, NEW label, NEW t \in Token \cup {None},
         NEW s \in Store, Saves(op, label, t, s), ~LoadFails(live),
         PromisedChange(S, s), Distinct(s), Tokens(s) \subseteq issued',
         Working(s) = (Working(S) \ {IF label \in DOMAIN S THEN S[label].token ELSE None})
                        \cup ({t} \ {None}),
         t \notin printed \cup gone,
         label \in DOMAIN S => t # S[label].token,
         issued' \in SUBSET Token, issued \subseteq issued',
         UNCHANGED <<files, server, printed, gone>>
  PROVE  Rest'
<1> DEFINE old == IF label \in DOMAIN S THEN S[label].token ELSE None
<1>1. S' = S /\ LoadFails(live)' = LoadFails(live)
  BY StoreUnmoved DEF files
<1>2. /\ cmd'[op].at = "open" /\ cmd'[op].store = s /\ cmd'[op].old = old
      /\ cmd'[op].token = t
  BY DEF Saves, IInv, TypeOK, S
<1>3. old \in issued \cup {None}
  BY DEF IInv, HistorySound, Tokens
<1>4. t = old => t = None
  OBVIOUS
<1> HIDE DEF old
<1>5. Change(cmd[op])'
  <2>1. PromisedChange(S, cmd[op].store)'
    BY <1>1, <1>2 DEF PromisedChange
  <2> QED
    BY <1>1, <1>2, <1>3, <1>4, <2>1 DEF Change, old
<1>6. CommandSound(cmd[op])'
  BY <1>1, <1>2, <1>5 DEF CommandSound
<1>7. CommandsSound'
  BY <1>6 DEF CommandsSound, OneOperator
<1>8. FilesApart' /\ MemorySound'
  BY DEF IInv, FilesApart, MemorySound, server, files
<1>9. HistorySound'
  BY <1>1 DEF IInv, HistorySound
<1> QED
  BY <1>7, <1>8, <1>9 DEF Rest

LEMMA GenerateStep ==
  ASSUME IInv, OneOperator, NEW op \in Operator, NEW label \in Label, CmdGenerate(op, label)
  PROVE  Rest'
<1>1. CASE \E x \in Exits : Ends(op, x) /\ UNCHANGED issued
  <2>1. UNCHANGED <<files, server, history>>
    BY <1>1 DEF CmdGenerate, history
  <2>2. HistorySound'
    BY <2>1, HistoryUnmoved DEF files
  <2> QED
    BY <1>1, <2>1, <2>2, EndedCommand DEF files, history
<1>2. ASSUME ~LoadFails(live), label \notin DOMAIN S, NEW t \in Token \ issued,
             Saves(op, label, t, Generated(S, label, t)), issued' = issued \cup {t}
      PROVE  Rest'
  <2> DEFINE g == Generated(S, label, t)
  <2>1. S \in Store /\ Distinct(S) /\ Tokens(S) \subseteq issued /\ issued \in SUBSET Token
    BY StoreLoaded DEF IInv, HistorySound, TypeOK
  <2>2. t \notin Tokens(S) /\ t \notin printed \cup gone
    BY FreshToken
  <2>3. g \in Store
    BY <2>1, GeneratedIsStore
  <2>4. Distinct(g) /\ Tokens(g) = Tokens(S) \cup {t} /\ Working(g) = Working(S) \cup {t}
    BY <1>2, <2>1, <2>2, GeneratedFacts
  <2>5. PromisedChange(S, g)
    BY <1>2 DEF PromisedChange
  <2>6. None \notin Working(S) /\ t # None
    BY <2>1, WorkingTokens, NamesAssumption
  <2>7. UNCHANGED <<files, server, printed, gone>>
    BY DEF CmdGenerate
  <2> HIDE DEF g
  <2> QED
    BY <1>2, <2>1, <2>2, <2>3, <2>4, <2>5, <2>6, <2>7, ChangeMade DEF g
<1> QED
  BY <1>1, <1>2 DEF CmdGenerate, Exits, S

LEMMA DisableStep ==
  ASSUME IInv, OneOperator, NEW op \in Operator, NEW label \in Label, CmdDisable(op, label)
  PROVE  Rest'
<1>1. UNCHANGED <<files, server, history>>
  BY DEF CmdDisable
<1>2. CASE \E x \in Exits : Ends(op, x)
  <2>1. HistorySound'
    BY <1>1, HistoryUnmoved DEF files
  <2> QED
    BY <1>1, <1>2, <2>1, EndedCommand DEF files, history
<1>3. ASSUME ~LoadFails(live), label \in DOMAIN S, Saves(op, label, None, Disabled(S, label))
      PROVE  Rest'
  <2> DEFINE d == Disabled(S, label)
  <2>1. S \in Store /\ Distinct(S) /\ Tokens(S) \subseteq issued /\ issued \in SUBSET Token
    BY StoreLoaded DEF IInv, HistorySound, TypeOK
  <2>2. None \notin printed \cup gone /\ S[label].token # None
    BY <1>3, <2>1, WorkingTokens, NamesAssumption DEF IInv, TypeOK, Tokens
  <2>3. d \in Store
    BY <1>3, <2>1, DisabledIsStore
  <2>4. Distinct(d) /\ Tokens(d) = Tokens(S) /\ Working(d) = Working(S) \ {S[label].token}
    BY <1>3, <2>1, DisabledFacts
  <2>5. PromisedChange(S, d)
    BY <1>3 DEF PromisedChange
  <2> HIDE DEF d
  <2> QED
    BY <1>1, <1>3, <2>1, <2>2, <2>3, <2>4, <2>5, ChangeMade DEF d, history
<1> QED
  BY <1>2, <1>3 DEF CmdDisable, Exits, S

LEMMA RotateStep ==
  ASSUME IInv, OneOperator, NEW op \in Operator, NEW label \in Label, CmdRotate(op, label)
  PROVE  Rest'
<1>1. CASE \E x \in Exits : Ends(op, x) /\ UNCHANGED issued
  <2>1. UNCHANGED <<files, server, history>>
    BY <1>1 DEF CmdRotate, history
  <2>2. HistorySound'
    BY <2>1, HistoryUnmoved DEF files
  <2> QED
    BY <1>1, <2>1, <2>2, EndedCommand DEF files, history
<1>2. ASSUME ~LoadFails(live), label \in DOMAIN S, NEW t \in Token \ issued,
             Saves(op, label, t, Rotated(S, label, t)), issued' = issued \cup {t}
      PROVE  Rest'
  <2> DEFINE r == Rotated(S, label, t)
  <2>1. S \in Store /\ Distinct(S) /\ Tokens(S) \subseteq issued /\ issued \in SUBSET Token
    BY StoreLoaded DEF IInv, HistorySound, TypeOK
  <2>2. t \notin Tokens(S) /\ t \notin printed \cup gone
    BY FreshToken
  <2>3. r \in Store
    BY <1>2, <2>1, RotatedIsStore
  <2>4. /\ Distinct(r) /\ Tokens(r) \subseteq Tokens(S) \cup {t}
        /\ Working(r) = (Working(S) \ {S[label].token}) \cup {t}
    BY <1>2, <2>1, <2>2, RotatedFacts
  <2>5. PromisedChange(S, r)
    BY <1>2 DEF PromisedChange
  <2>6. t # None /\ S[label].token \in Tokens(S)
    BY <1>2, NamesAssumption DEF Tokens
  <2>7. UNCHANGED <<files, server, printed, gone>>
    BY DEF CmdRotate
  <2> HIDE DEF r
  <2> QED
    BY <1>2, <2>1, <2>2, <2>3, <2>4, <2>5, <2>6, <2>7, ChangeMade DEF r
<1> QED
  BY <1>1, <1>2 DEF CmdRotate, Exits, S

\* A step of the save that leaves tokens.yaml and the records alone.
LEMMA SaveStep ==
  ASSUME IInv, OneOperator, NEW op \in Operator, UNCHANGED <<live, server, history>>,
         live # None => content'[live] = content[live], FilesApart',
         CommandSound(cmd[op])'
  PROVE  Rest'
<1>1. CommandsSound'
  BY DEF CommandsSound, OneOperator
<1>2. HistorySound'
  BY HistoryUnmoved
<1>3. MemorySound'
  BY DEF IInv, MemorySound, server
<1> QED
  BY <1>1, <1>2, <1>3 DEF Rest

\* ... and the change that the command holds.
LEMMA ChangeKept ==
  ASSUME IInv, NEW op \in Operator, UNCHANGED <<live, history>>,
         live # None => content'[live] = content[live],
         cmd[op].at \in {"open", "write", "chmod", "replace"},
         cmd'[op].store = cmd[op].store, cmd'[op].old = cmd[op].old,
         cmd'[op].token = cmd[op].token
  PROVE  Change(cmd[op])' /\ ~LoadFails(live)'
<1>1. S' = S /\ LoadFails(live)' = LoadFails(live)
  BY StoreUnmoved
<1>2. Change(cmd[op]) /\ ~LoadFails(live)
  BY DEF IInv, CommandsSound, CommandSound
<1>3. PromisedChange(S, cmd[op].store)'
  BY <1>1, <1>2 DEF Change, PromisedChange
<1> QED
  BY <1>1, <1>2, <1>3 DEF Change, history

LEMMA OpenStep ==
  ASSUME IInv, OneOperator, NEW op \in Operator, OpenTmp(op)
  PROVE  Rest'
<1>1. PICK i \in Inode :
        /\ IF tmp # None THEN i = tmp ELSE i \notin InUse
        /\ content' = [content EXCEPT ![i] = Blank]
        /\ tmp' = i
        /\ cmd' = [cmd EXCEPT ![op].at = "write", ![op].fd = i]
  BY DEF OpenTmp
<1>2. live # i
  BY <1>1, NamesAssumption DEF InUse, IInv, FilesApart
<1>3. /\ live # None => content'[live] = content[live]
      /\ FilesApart'
  BY <1>1, <1>2 DEF OpenTmp, IInv, TypeOK, FilesApart
<1>4. /\ cmd'[op].at = "write" /\ cmd'[op].fd = i /\ cmd'[op].store = cmd[op].store
      /\ cmd'[op].old = cmd[op].old /\ cmd'[op].token = cmd[op].token
  BY <1>1 DEF IInv, TypeOK, Commands
<1>5. Change(cmd[op])' /\ ~LoadFails(live)'
  BY <1>3, <1>4, ChangeKept DEF OpenTmp
<1>6. CommandSound(cmd[op])'
  BY <1>1, <1>4, <1>5, NamesAssumption DEF CommandSound
<1> QED
  BY <1>3, <1>6, SaveStep DEF OpenTmp

LEMMA WriteStep ==
  ASSUME IInv, OneOperator, NEW op \in Operator, WriteTmp(op)
  PROVE  Rest'
<1>1. tmp # None /\ cmd[op].fd = tmp /\ tmp \in Inode
  BY DEF WriteTmp, IInv, CommandsSound, CommandSound, TypeOK
<1>2. live # None => content'[live] = content[live]
  BY <1>1 DEF WriteTmp, IInv, TypeOK, FilesApart
<1>3. /\ cmd'[op].at = "chmod" /\ cmd'[op].store = cmd[op].store
      /\ cmd'[op].old = cmd[op].old /\ cmd'[op].token = cmd[op].token
  BY DEF WriteTmp, IInv, TypeOK, Commands
<1>4. Change(cmd[op])' /\ ~LoadFails(live)'
  BY <1>2, <1>3, ChangeKept DEF WriteTmp
<1>5. content'[tmp] = Whole(cmd[op].store)
  BY <1>1 DEF WriteTmp, IInv, TypeOK
<1>6. CommandSound(cmd[op])'
  BY <1>1, <1>3, <1>4, <1>5 DEF CommandSound, WriteTmp
<1> QED
  BY <1>2, <1>6, SaveStep DEF WriteTmp, IInv, FilesApart

LEMMA WriteStopsStep ==
  ASSUME IInv, OneOperator, NEW op \in Operator, WriteStops(op)
  PROVE  Rest'
<1>1. tmp # None /\ cmd[op].fd = tmp /\ tmp \in Inode
  BY DEF WriteStops, IInv, CommandsSound, CommandSound, TypeOK
<1>2. live # None => content'[live] = content[live]
  BY <1>1 DEF WriteStops, IInv, TypeOK, FilesApart
<1>3. HistorySound'
  BY <1>2, HistoryUnmoved DEF WriteStops
<1> QED
  BY <1>2, <1>3, EndedCommand DEF WriteStops, Exits, history

LEMMA ChmodStep ==
  ASSUME IInv, OneOperator, NEW op \in Operator, ChmodTmp(op)
  PROVE  Rest'
<1>1. tmp # None /\ tmp \in Inode /\ content[tmp] = Whole(cmd[op].store)
  BY DEF ChmodTmp, IInv, CommandsSound, CommandSound, TypeOK
<1>2. /\ cmd'[op].at = "replace" /\ cmd'[op].store = cmd[op].store
      /\ cmd'[op].old = cmd[op].old /\ cmd'[op].token = cmd[op].token
  BY <1>1 DEF ChmodTmp, IInv, TypeOK, Commands
<1>3. Change(cmd[op])' /\ ~LoadFails(live)'
  BY <1>2, ChangeKept DEF ChmodTmp
<1>4. private'[tmp]
  BY <1>1 DEF ChmodTmp, IInv, TypeOK
<1>5. CommandSound(cmd[op])'
  BY <1>1, <1>2, <1>3, <1>4 DEF CommandSound, ChmodTmp
<1> QED
  BY <1>5, SaveStep DEF ChmodTmp, IInv, FilesApart

LEMMA ReplaceStep ==
  ASSUME IInv, OneOperator, NEW op \in Operator, Replace(op)
  PROVE  Rest' /\ PromisedChange(S, S')
<1>1. tmp # None /\ tmp \in Inode /\ content[tmp] = Whole(cmd[op].store) /\ Change(cmd[op])
  BY DEF Replace, IInv, CommandsSound, CommandSound, TypeOK
<1>2. live' = tmp /\ tmp' = None /\ gone' = gone \cup ({cmd[op].old} \ {None})
  BY <1>1 DEF Replace
<1>3. S' = cmd[op].store
  BY <1>1, <1>2 DEF S, LoadStore, Replace, Whole
<1>4. cmd'[op].at = "chmod_live" /\ cmd'[op].token = cmd[op].token
  BY <1>1 DEF Replace, IInv, TypeOK, Commands
<1>5. FilesApart'
  BY <1>2, <1>1 DEF FilesApart
<1>6. HistorySound'
  <2>1. Distinct(S)' /\ (Tokens(S) \subseteq issued)'
    BY <1>1, <1>3 DEF Replace, Change
  <2>2. (printed \cup gone \subseteq issued)'
    BY <1>1, <1>2 DEF Replace, Change, IInv, HistorySound
  <2>3. (printed \ gone \subseteq Working(S))'
    BY <1>1, <1>2, <1>3, NamesAssumption DEF Replace, Change, IInv, HistorySound, TypeOK
  <2>4. (gone \cap Working(S) = {})'
    BY <1>1, <1>2, <1>3 DEF Replace, Change, IInv, HistorySound, TypeOK
  <2> QED
    BY <2>1, <2>2, <2>3, <2>4 DEF HistorySound
<1>7. CommandSound(cmd[op])'
  BY <1>1, <1>2, <1>3, <1>4 DEF CommandSound, Change
<1>8. CommandsSound'
  BY <1>7 DEF CommandsSound, OneOperator
<1>9. MemorySound'
  BY DEF Replace, IInv, MemorySound, server
<1> QED
  BY <1>1, <1>3, <1>5, <1>6, <1>8, <1>9 DEF Rest, Change

LEMMA ChmodLiveStep ==
  ASSUME IInv, OneOperator, NEW op \in Operator, ChmodLive(op)
  PROVE  Rest'
<1>1. S' = S
  BY StoreUnmoved DEF ChmodLive
<1>2. cmd'[op].at = "print" /\ cmd'[op].token = cmd[op].token
  BY DEF ChmodLive, IInv, TypeOK, Commands
<1>3. CommandSound(cmd[op])'
  BY <1>1, <1>2 DEF CommandSound, ChmodLive, IInv, CommandsSound
<1> QED
  BY <1>3, SaveStep DEF ChmodLive, IInv, FilesApart

LEMMA PrintStep ==
  ASSUME IInv, OneOperator, NEW op \in Operator, PrintResult(op)
  PROVE  Rest'
<1>1. S' = S
  BY StoreUnmoved DEF PrintResult, files
<1>2. cmd[op].token # None => cmd[op].token \in Working(S)
  BY DEF PrintResult, IInv, CommandsSound, CommandSound
<1>3. Working(S) \subseteq Tokens(S)
  BY StoreLoaded, WorkingTokens DEF IInv
<1>4. HistorySound'
  BY <1>1, <1>2, <1>3 DEF PrintResult, IInv, HistorySound
<1> QED
  BY <1>4, EndedCommand DEF PrintResult, Exits, files

\* Nothing but a replacement touches the store in place.
LEMMA OnlyReplaceMoves ==
  ASSUME IInv, NEW op \in Operator, Command(op), ~Replace(op)
  PROVE  live' = live /\ (live # None => content'[live] = content[live])
<1>1. CASE OpenTmp(op)
  <2>1. PICK i \in Inode : /\ IF tmp # None THEN i = tmp ELSE i \notin InUse
                           /\ content' = [content EXCEPT ![i] = Blank]
    BY <1>1 DEF OpenTmp
  <2>2. live # i
    BY <2>1, NamesAssumption DEF InUse, IInv, FilesApart
  <2> QED
    BY <1>1, <2>1, <2>2 DEF OpenTmp, IInv, TypeOK
<1>2. CASE WriteTmp(op) \/ WriteStops(op)
  <2>1. cmd[op].fd = tmp /\ tmp # None
    BY <1>2 DEF WriteTmp, WriteStops, IInv, CommandsSound, CommandSound
  <2> QED
    BY <1>2, <2>1 DEF WriteTmp, WriteStops, IInv, TypeOK, FilesApart
<1> QED
  BY <1>1, <1>2 DEF Command, ListTokens, CmdGenerate, CmdDisable, CmdRotate,
     ChmodTmp, ChmodLive, PrintResult, Kill, files

LEMMA CommandStep ==
  ASSUME IInv, OneOperator, NEW op \in Operator, Command(op)
  PROVE  IInv'
<1>1. Rest'
  <2>1. CASE ListTokens(op)
    <3>1. HistorySound'
      BY <2>1, HistoryUnmoved DEF ListTokens, files
    <3> QED
      BY <2>1, <3>1, EndedCommand DEF ListTokens, Exits, files, history
  <2>2. CASE Kill(op)
    <3>1. HistorySound'
      BY <2>2, HistoryUnmoved DEF Kill, files
    <3> QED
      BY <2>2, <3>1, EndedCommand DEF Kill, Exits, files, history
  <2> QED
    BY <2>1, <2>2, GenerateStep, DisableStep, RotateStep, OpenStep, WriteStep, WriteStopsStep,
       ChmodStep, ReplaceStep, ChmodLiveStep, PrintStep DEF Command
<1> QED
  BY <1>1, CommandType DEF IInv, Rest

(***************************************************************************)
(* The server, and the start.                                              *)
(***************************************************************************)
LEMMA ServerStep ==
  ASSUME IInv, Restart \/ \E token \in Token \cup {Misshapen} : Request(token)
  PROVE  IInv'
<1>1. TypeOK'
  BY RequestType, RestartType DEF IInv
<1>2. UNCHANGED <<files, cmd, history>>
  BY DEF Request, Restart
<1>3. S' = S /\ LoadFails(live)' = LoadFails(live)
  BY <1>2, StoreUnmoved DEF files
<1>4. FilesApart' /\ HistorySound'
  BY <1>2, <1>3 DEF IInv, FilesApart, HistorySound, files, history
<1>5. CommandsSound'
  <2>1. ASSUME NEW op \in Operator
        PROVE  CommandSound(cmd[op])'
    <3>1. CommandSound(cmd[op])
      BY DEF IInv, CommandsSound
    <3>2. Change(cmd[op]) => Change(cmd[op])'
      BY <1>2, <1>3 DEF Change, PromisedChange, history
    <3> QED
      BY <1>2, <1>3, <3>1, <3>2 DEF CommandSound, files
  <2> QED
    BY <1>2, <2>1 DEF CommandsSound
<1>6. MemorySound'
  <2>1. CASE Restart
    BY <2>1 DEF Restart, MemorySound
  <2>2. CASE memory = None /\ \E token \in Token \cup {Misshapen} : Request(token)
    BY <2>2 DEF Request, Held, Reload, S, MemorySound, IInv, HistorySound
  <2>3. CASE memory # None /\ \E token \in Token \cup {Misshapen} : Request(token)
    BY <2>3 DEF Request, Held, MemorySound, IInv
  <2> QED
    BY <2>1, <2>2, <2>3
<1> QED
  BY <1>1, <1>4, <1>5, <1>6 DEF IInv

LEMMA InitSound ==
  ASSUME Init
  PROVE  IInv
<1>1. PICK i \in Inode, c \in {Torn} \cup {Whole(s) : s \in Store} :
        /\ Distinct(c.entries)
        /\ content = [j \in Inode |-> IF j = i THEN c ELSE Blank]
        /\ live \in IF c.entries = NoEntries THEN {i, None} ELSE {i}
        /\ issued = Tokens(c.entries)
  BY DEF Init, Distinct, Tokens
<1>2. c \in Content /\ c.entries \in Store /\ Blank \in Content
  BY NoEntriesFacts, WrittenContent DEF Whole, Torn, Content
<1>3. S = c.entries
  BY <1>1, NamesAssumption DEF S, LoadStore
<1>4. S \in Store /\ Working(S) \subseteq Tokens(S) /\ Tokens(S) \subseteq Token
  BY <1>2, <1>3, WorkingTokens
<1>5. printed = Working(S) /\ gone = {} /\ memory = None /\ tmp = None
      /\ cmd = [op \in Operator |-> Idle]
  BY DEF Init, S
<1>6. Idle \in Commands /\ Idle.at = "idle"
  BY NoEntriesFacts DEF Idle, Commands, At
<1>7. TypeOK
  <2>1. content \in [Inode -> Content] /\ live \in Inode \cup {None}
    BY <1>1, <1>2
  <2>2. private \in [Inode -> BOOLEAN]
    BY DEF Init
  <2>3. reply \in [token : Token \cup {Misshapen, None}, admitted : BOOLEAN,
                   logged : Label \cup {None}, page : Token \cup {None}]
    BY ReplyRecord DEF Init
  <2>4. known \in [printed : SUBSET Token, gone : SUBSET Token]
    BY DEF Init
  <2>5. issued \in SUBSET Token /\ printed \in SUBSET Token /\ gone \in SUBSET Token
    BY <1>1, <1>3, <1>4, <1>5
  <2> QED
    BY <1>5, <1>6, <2>1, <2>2, <2>3, <2>4, <2>5 DEF TypeOK
<1>8. HistorySound
  BY <1>1, <1>3, <1>4, <1>5 DEF HistorySound
<1>9. CommandsSound
  BY <1>5, <1>6 DEF CommandsSound, CommandSound
<1> QED
  BY <1>5, <1>7, <1>8, <1>9 DEF IInv, FilesApart, MemorySound

LEMMA Inductive ==
  ASSUME IInv, OneOperator, [Next]_vars
  PROVE  IInv'
<1>1. CASE UNCHANGED vars
  <2>1. S' = S /\ LoadFails(live)' = LoadFails(live)
    BY <1>1, StoreUnmoved DEF vars, files
  <2> QED
    BY <1>1, <2>1 DEF vars, files, server, history, IInv, TypeOK, FilesApart, CommandsSound,
       CommandSound, Change, PromisedChange, HistorySound, MemorySound
<1> QED
  BY <1>1, CommandStep, ServerStep DEF Next

LEMMA Invariance ==
  ASSUME OneOperator
  PROVE  Spec => []IInv
<1>1. Init => IInv
  BY InitSound
<1>2. IInv /\ [Next]_vars => IInv'
  BY Inductive
<1> QED
  BY <1>1, <1>2, PTL DEF Spec

(***************************************************************************)
(* What holds of every behaviour.                                          *)
(***************************************************************************)
\* Files, commands, memory and answers stay of their types.
THEOREM StoreTypes ==
  ASSUME OneOperator
  PROVE  Spec => []TypeOK
<1>1. IInv => TypeOK
  BY DEF IInv
<1> QED
  BY <1>1, Invariance, PTL

\* require_capability_token over get_token_store: a server refuses what was
\* taken back before it read the store and admits what was handed out and kept.
THEOREM ServerHonours ==
  ASSUME OneOperator
  PROVE  Spec => []ServerHonoursStore
<1>1. IInv => ServerHonoursStore
  <2>1. SUFFICES ASSUME IInv, memory # None, NEW t \in Token
                 PROVE  /\ t \in known.gone => ~Admits(t)
                        /\ t \in known.printed \ known.gone => Admits(t)
    BY DEF ServerHonoursStore
  <2>2. Admits(t) <=> t \in Working(memory)
    <3>1. Holder(t) # None <=> t \in Working(memory)
      <4>1. memory \in Store /\ Held = memory
        BY <2>1 DEF IInv, TypeOK, Held
      <4>2. DOMAIN memory \subseteq Label /\ None \notin Label
        BY <4>1, StoreIsFunction, NamesAssumption
      <4>3. CASE t \in Working(memory)
        <5>1. PICK l \in DOMAIN memory : memory[l].enabled /\ memory[l].token = t
          BY <4>3 DEF Working
        <5>2. l \in {m \in DOMAIN Enabled(Held) : Enabled(Held)[m].token = t}
          BY <4>1, <5>1 DEF Enabled
        <5>3. {m \in DOMAIN Enabled(Held) : Enabled(Held)[m].token = t} \subseteq Label
          BY <4>1, <4>2 DEF Enabled
        <5> QED
          BY <4>2, <4>3, <5>2, <5>3 DEF Holder
      <4>4. CASE t \notin Working(memory)
        <5>1. {m \in DOMAIN Enabled(Held) : Enabled(Held)[m].token = t} = {}
          BY <4>1, <4>4 DEF Enabled, Working
        <5> QED
          BY <4>4, <5>1 DEF Holder
      <4> QED
        BY <4>3, <4>4
    <3> QED
      BY <3>1, NamesAssumption DEF Admits
  <2> QED
    BY <2>1, <2>2 DEF IInv, MemorySound
<1> QED
  BY <1>1, Invariance, PTL

\* save_store: whatever is killed, tokens.yaml only ever becomes a whole and
\* private file, and one that does not parse is left as it is.
THEOREM LiveStoreStaysSound ==
  ASSUME OneOperator
  PROVE  Spec => LiveStoreSound
<1> DEFINE A == /\ live' # None /\ (live' # live \/ content'[live'] # content[live']) =>
                     content'[live'].state = "whole" /\ private'[live']
                /\ live # None /\ content[live].state = "torn" =>
                     live' = live /\ content'[live] = content[live]
<1>1. IInv /\ [Next]_vars => [A]_vars
  <2>1. SUFFICES ASSUME IInv, Next PROVE A
    BY DEF A
  <2>2. CASE \E op \in Operator : Replace(op)
    <3>1. PICK op \in Operator : Replace(op)
      BY <2>2
    <3>2. /\ tmp # None /\ content[tmp] = Whole(cmd[op].store) /\ private[tmp]
          /\ ~LoadFails(live)
      BY <2>1, <3>1 DEF Replace, IInv, CommandsSound, CommandSound
    <3> QED
      BY <3>1, <3>2 DEF Replace, Whole, LoadFails
  <2>3. CASE live' = live /\ (live # None => content'[live] = content[live])
    BY <2>3
  <2>4. CASE Restart \/ \E token \in Token \cup {Misshapen} : Request(token)
    BY <2>3, <2>4 DEF Restart, Request, files
  <2> QED
    BY <2>1, <2>2, <2>3, <2>4, OnlyReplaceMoves DEF Next
<1> HIDE DEF A
<1>2. Spec => [][A]_vars
  BY <1>1, Invariance, PTL DEF Spec
<1> QED
  BY <1>2 DEF A, LiveStoreSound

\* The commands implement TokenPromise: one whole change of the store as it is
\* at a time, or none.
THEOREM CommandsImplementPromise ==
  ASSUME OneOperator
  PROVE  Spec => ImplementsPromise
<1>1. Init => Promise!Init
  BY InitSound, StoreLoaded DEF Promise!Init, Promise!Store, Promise!Entry, Store, Entry, IInv, S
<1>2. IInv /\ [Next]_vars => [Promise!Next]_(LoadStore(live))
  <2>1. SUFFICES ASSUME IInv, [Next]_vars
                 PROVE  S' = S \/ PromisedChange(S, S')
    BY DEF Promise!Next, Promise!Generate, Promise!Disable, Promise!Rotate, PromisedChange, S,
       Promise!Generated, Promise!Disabled, Promise!Rotated, Generated, Disabled, Rotated
  <2>2. CASE UNCHANGED <<content, live>>
    BY <2>2, StoreUnmoved
  <2>3. ASSUME NEW op \in Operator, Command(op)
        PROVE  S' = S \/ PromisedChange(S, S')
    BY <2>1, <2>3, ReplaceStep, OnlyReplaceMoves, StoreUnmoved
  <2> QED
    BY <2>1, <2>2, <2>3 DEF Next, Request, Restart, vars, files
<1> QED
  BY <1>1, <1>2, Invariance, PTL DEF Spec, ImplementsPromise, Promise!Spec
=============================================================================
