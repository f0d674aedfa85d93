----------------------------- MODULE Transcript -----------------------------
(***************************************************************************)
(* Transcript: from the HTML of a topic to speeches, for the reports since *)
(* 2012 ("sprs3", src/hansard_gateway/sprs/current.py) and for those       *)
(* before ("sprs2", src/hansard_gateway/sprs/legacy.py).                   *)
(*                                                                         *)
(* A source is its era and its items, in document order:                   *)
(*   "p", "P"   a paragraph, its tag written in lower or in upper case     *)
(*   "h6"       a clock mark                                               *)
(*   "line"     text that is in no paragraph, and ends in <br>             *)
(*   "mp"       a comment <!--MP_NAME:x-->, with the name x or None        *)
(* The text of an item is a sequence of runs.  A run in bold is a name, or *)
(* Blank; the others are Said, a text of three characters or more, and     *)
(* Mark, one of a single character.  A text is known by its place: item    *)
(* and run.  For sprs2, whose raw characters are counted, `lines` and      *)
(* `others` are the items with a "\n", and with another character that     *)
(* `splitlines` takes for the end of a line, behind them; and the items    *)
(* are all of one length.                                                  *)
(***************************************************************************)
EXTENDS Integers, SequencesExt

CONSTANTS Sources,  \* the sources that SPRS may send
          Name,     \* what stands in bold
          Blank,    \* nothing, in bold: it has no text
          Said, Mark, None

ASSUME SourceAssumption == {Said, Mark, None, Blank} \cap Name = {}

VARIABLES source,    \* the source
          at,        \* the paragraphs, or for sprs2 the segments, that were read
          speeches,  \* the speeches so far: [speaker, paragraphs]
          speaker    \* `current_speaker` of sprs3

vars == <<source, at, speeches, speaker>>

Item == source.items
Runs(i) == Item[i].runs
Run(place) == Runs(place[1])[place[2]]
Bold == Name \cup {Blank}
IsBold(place) == Run(place) \in Bold

\* The places of the runs of an item, and of those that have a text.
AllPlaces(i) == [j \in DOMAIN Runs(i) |-> <<i, j>>]
Places(i) == SelectSeq(AllPlaces(i), LAMBDA q : Run(q) # Blank)

\* The positions of a sequence where something holds, in order.
Positions(s, holds(_)) == SelectSeq([k \in DOMAIN s |-> k], LAMBDA k : holds(s[k]))

\* The HTML parser puts a text that is the very first thing in a paragraph, with all
\* that follows it up to the next one.
BeginsWithText(runs) == runs # <<>> /\ runs[1] \in {Said, Mark}

Init ==
  /\ source \in Sources
  /\ at = 0 /\ speeches = <<>> /\ speaker = None

(***************************************************************************)
(* sprs3, `_walk_speeches`: one <p> or <h6> after the other.               *)
(***************************************************************************)
Tag(tag, places) == [tag |-> tag, places |-> places]

\* `find_all(["p", "h6"])`.  Text that is in neither is never looked at; at the front,
\* it is in the paragraph that the HTML parser makes for it.
Tags ==
  LET tags == Positions(Item, LAMBDA x : x.tag \in {"p", "h6"})
      front == IF tags = <<>> THEN Len(Item) ELSE tags[1] - 1
  IN  (IF front > 0 /\ BeginsWithText(Runs(1))
       THEN <<Tag("p", FlattenSeq([i \in 1..front |-> AllPlaces(i)]))>> ELSE <<>>)
        \o [k \in DOMAIN tags |-> Tag(Item[tags[k]].tag, AllPlaces(tags[k]))]

\* A paragraph with bold text is a new speaker's, and loses as many characters at its
\* front as that text has: the name, when the name stands there.  Where the first bold
\* is blank, nothing is lost, and the new speaker is nobody: `speaker` is "", which is
\* carried forward like a name.
IsNaming(t) == t.tag = "p" /\ \E q \in Range(t.places) : IsBold(q)
NameIn(t) == Run(SelectSeq(t.places, IsBold)[1])
TextOf(t) == SelectSeq(t.places, LAMBDA q : Run(q) # Blank)
Says(t) == IF IsNaming(t) /\ NameIn(t) # Blank THEN Tail(TextOf(t)) ELSE TextOf(t)

\* `_append`
Append3(text, who) ==
  IF who # None /\ speeches # <<>> /\ Last(speeches).speaker = who
  THEN /\ speeches' = [speeches EXCEPT ![Len(speeches)].paragraphs = Append(@, text)]
       /\ UNCHANGED speaker
  ELSE /\ speeches' = Append(speeches, [speaker |-> who, paragraphs |-> <<text>>])
       /\ speaker' = who

ReadTag(k) ==
  /\ source.era = "sprs3" /\ k <= Len(Tags)
  /\ at' = k
  /\ UNCHANGED source

\* Without a text, and be it that of a name alone, nothing happens.
SkipTag(k) ==
  /\ ReadTag(k)
  /\ Says(Tags[k]) = <<>>
  /\ UNCHANGED <<speeches, speaker>>

\* Mutant of ReadNamed: the name is taken when the paragraph has nothing else, too.
ReadNamedFirst(k) ==
  /\ ReadTag(k)
  /\ IsNaming(Tags[k])
  /\ IF Says(Tags[k]) # <<>> THEN Append3(Says(Tags[k]), NameIn(Tags[k]))
     ELSE speaker' = NameIn(Tags[k]) /\ UNCHANGED speeches

ReadNamed(k) ==
  /\ ReadTag(k)
  /\ IsNaming(Tags[k]) /\ Says(Tags[k]) # <<>>
  /\ Append3(Says(Tags[k]), NameIn(Tags[k]))

\* A clock mark, and a paragraph without a name, are the current speaker's.
ReadPlain(k) ==
  /\ ReadTag(k)
  /\ ~IsNaming(Tags[k]) /\ Says(Tags[k]) # <<>>
  /\ Append3(Says(Tags[k]), speaker)

(***************************************************************************)
(* sprs2: segments, and the paragraphs of a segment.  A fragment of HTML   *)
(* is a sequence of pieces: a paragraph, a line, a text that has lost its  *)
(* tags ("string"), a <br>, a comment, or the opening of <html> and <body>.*)
(***************************************************************************)
Piece(tag, places) == [tag |-> tag, places |-> places]
Comment(i) == Piece("comment", <<<<i, 0>>>>)
Pieces(i) ==
  CASE Item[i].tag = "mp"   -> <<Comment(i)>>
    [] Item[i].tag = "line" -> <<Piece("line", Places(i)), Piece("br", <<>>)>>
    [] OTHER                -> <<Piece(Item[i].tag, Places(i))>>

Joined(pieces) == FlattenSeq([k \in DOMAIN pieces |-> pieces[k].places])

\* `_clean_text`: a comment is no text.
CleanText(pieces) == Joined(SelectSeq(pieces, LAMBDA p : p.tag # "comment"))

\* Below `_MIN_SEGMENT_CHARS`
IsTooShort(text) == text = <<>> \/ (Len(text) = 1 /\ text[1][2] # 0 /\ Run(text[1]) = Mark)

Markers == {i \in DOMAIN Item : Item[i].tag = "mp"}

\* `_offset`, the number of items that it skips: `getpos` counts a line and a column
\* from the last "\n", and `splitlines` knows more ends of a line.
Offset(i) ==
  LET before == {k \in source.lines : k < i}
      starts == SetToSortSeq({0} \cup ((source.lines \cup source.others) \ {Len(Item)}), <)
  IN  starts[Cardinality(before) + 1] + (i - 1 - Max(before \cup {0}))

\* `_split_segments`: from the offset of each marker to that of the next one or the end.
MarkerSegments ==
  LET markers == Positions(Item, LAMBDA i : i.tag = "mp")
      end(k) == IF k = Len(markers) THEN Len(Item) ELSE Offset(markers[k + 1])
      part(k) == SubSeq([i \in DOMAIN Item |-> Pieces(i)], Offset(markers[k]) + 1, end(k))
  IN  [k \in DOMAIN markers |->
         [speaker |-> Item[markers[k]].name, pieces |-> FlattenSeq(part(k))]]

\* `_bold_speaker_segments`: the walk comes by every node, and a node brings its
\* children along.  The text of the document is therefore there for <html>, for <body>,
\* for each paragraph and for each text, and a marker as the text of its comment (run 0
\* of it); written out again, every tag is in lower case.  A comment at the very front
\* stands before <html>.
Walk ==
  LET lead == {i \in DOMAIN Item : \A k \in 1..i : k \in Markers}
      written(i) == [k \in DOMAIN Pieces(i) |->
                       IF Pieces(i)[k].tag = "P" THEN [Pieces(i)[k] EXCEPT !.tag = "p"]
                       ELSE Pieces(i)[k]]
      string(place) == Piece("string", <<place>>)
      run(q) == (IF IsBold(q) THEN <<[tag |-> "cut", name |-> Run(q)]>> ELSE <<>>)
                  \o (IF Run(q) = Blank THEN <<>> ELSE <<string(q)>>)
      children(i) == FlattenSeq([j \in DOMAIN Runs(i) |-> run(<<i, j>>)])
      node(i) == CASE Item[i].tag = "mp"   -> <<string(<<i, 0>>)>>
                   [] Item[i].tag = "line" -> children(i) \o <<Piece("br", <<>>)>>
                   [] OTHER                -> written(i) \o children(i)
      all(of(_), first, last) == FlattenSeq([n \in 1..last - first + 1 |-> of(first + n - 1)])
      front == Cardinality(lead)
      document == <<Piece("open", <<>>)>> \o all(written, front + 1, Len(Item))
  IN  all(node, 1, front) \o document \o document \o all(node, front + 1, Len(Item))

BoldSegments ==
  LET walk == Walk
      cuts == Positions(walk, LAMBDA p : p.tag = "cut")
      starts == <<0>> \o cuts
      end(k) == IF k = Len(starts) THEN Len(walk) ELSE starts[k + 1] - 1
  IN  [k \in DOMAIN starts |->
         [speaker |-> IF k = 1 THEN None ELSE walk[starts[k]].name,
          pieces |-> SubSeq(walk, starts[k] + 1, end(k))]]

\* The markers count only when one of them has a name.
IsMarked == \E i \in Markers : Item[i].name # None
Segments == IF IsMarked THEN MarkerSegments ELSE BoldSegments

\* `_has_block_markup`
HasBlocks(pieces) == \E k \in DOMAIN pieces : pieces[k].tag = "p"

\* With paragraphs, they are the blocks, and one more is the text at the very front, but
\* for comments; the other text is left out.
TagBlocks(pieces) ==
  LET told == SelectSeq(pieces, LAMBDA p : p.tag # "comment")
      first == SelectInSeq(told, LAMBDA p : p.tag \in {"p", "P", "open"})
      paragraphs == SelectSeq(told, LAMBDA p : p.tag \in {"p", "P"})
      isText(p) == \/ p.tag = "string"
                   \/ p.tag = "line" /\ BeginsWithText(Runs(p.places[1][1]))
  IN  (IF isText(told[1]) THEN <<Joined(SubSeq(told, 1, first - 1))>> ELSE <<>>)
        \o [k \in DOMAIN paragraphs |-> paragraphs[k].places]

\* The <body> of a fragment: a comment at the very front is not in it, and the text of
\* a marker is cut off there.
Body(pieces) ==
  LET inside == {k \in DOMAIN pieces : pieces[k].tag # "comment"}
      body == SubSeq(pieces, Min(inside), Len(pieces))
  IN  IF body[1].tag = "string" /\ body[1].places[1][2] = 0 THEN Tail(body) ELSE body

\* Mutant of LineBlocks: what follows the last <br> is left behind.
LineBlocksUnflushed(pieces) ==
  LET body == Body(pieces)
      ends == Positions(body, LAMBDA p : p.tag = "br")
      start(k) == IF k = 1 THEN 1 ELSE ends[k - 1] + 1
  IN  [k \in DOMAIN ends |-> Joined(SubSeq(body, start(k), ends[k]))]

\* `_br_paragraph_blocks`: without, a block ends where a <br> is, and at the end.  A
\* comment in the body is taken for text.
LineBlocks(pieces) ==
  LET body == Body(pieces)
      ends == Positions(body, LAMBDA p : p.tag = "br") \o <<Len(body)>>
      start(k) == IF k = 1 THEN 1 ELSE ends[k - 1] + 1
  IN  [k \in DOMAIN ends |-> Joined(SubSeq(body, start(k), ends[k]))]

\* `_paragraph_blocks`, or the whole text when there are none.
Paragraphs(pieces) ==
  LET blocks == IF HasBlocks(pieces) THEN TagBlocks(pieces) ELSE LineBlocks(pieces)
      some == SelectSeq(blocks, LAMBDA b : b # <<>>)
  IN  IF some = <<>> THEN <<CleanText(pieces)>> ELSE some

ReadSegment(k) ==
  /\ source.era = "sprs2" /\ k <= Len(Segments)
  /\ at' = k
  /\ UNCHANGED <<source, speaker>>

DropSegment(k) ==
  /\ ReadSegment(k)
  /\ IsTooShort(CleanText(Segments[k].pieces))
  /\ UNCHANGED speeches

\* Consecutive speeches of one speaker are not merged.
TakeSegment(k) ==
  /\ ReadSegment(k)
  /\ LET segment == Segments[k]
     IN  /\ ~IsTooShort(CleanText(segment.pieces))
         /\ speeches' = Append(speeches, [speaker |-> segment.speaker,
                                          paragraphs |-> Paragraphs(segment.pieces)])

Next ==
  \/ SkipTag(at + 1) \/ ReadNamed(at + 1) \/ ReadPlain(at + 1)
  \/ DropSegment(at + 1) \/ TakeSegment(at + 1)

Spec == Init /\ [][Next]_vars

(***************************************************************************)
(* Properties.                                                             *)
(***************************************************************************)
IsRead == at = IF source.era = "sprs3" THEN Len(Tags) ELSE Len(Segments)

\* The offsets of the markers are where the markers are.
IsAligned == source.era = "sprs2" /\ IsMarked => source.others = {}

Texts(speech) == FlattenSeq(speech.paragraphs)
Transcribed == FlattenSeq([k \in DOMAIN speeches |-> Texts(speeches[k])])
Written == FlattenSeq([i \in DOMAIN Item |-> Places(i)])

InTag(i) == Item[i].tag \in {"p", "P"}
\* The items between the marker before item i and the next one, and those of them that
\* are a paragraph: by their tag, or because text is at the front.
Around(i) ==
  {k \in DOMAIN Item : \A m \in Markers : (m <= i <=> m <= k)} \ Markers
IsBlock(i) ==
  \/ InTag(i)
  \/ BeginsWithText(Runs(Min(Around(i)))) /\ \A k \in Around(i) : InTag(k) => k > i

\* What a transcript leaves out.  sprs3: text in no paragraph, and the front of a
\* paragraph that has a name.  sprs2: what stands before the first marker, a segment
\* of a single character, and the lines in no paragraph of a segment with a tag <p>,
\* when its paragraphs have any text.
IsLeftOut(place) ==
  LET i == place[1]
  IN  IF source.era = "sprs3"
      THEN \A t \in Range(Tags) :
             place \in Range(t.places) =>
               IsNaming(t) /\ NameIn(t) # Blank /\ place = TextOf(t)[1]
      ELSE \/ \A m \in Markers : m > i
           \/ \A q \in Range(Written) : q[1] \in Around(i) => q = place /\ Run(q) = Mark
           \/ /\ ~IsBlock(i)
              /\ \E k \in Around(i) : Item[k].tag = "p"
              /\ \E k \in Around(i) : IsBlock(k) /\ Places(k) # <<>>

\* Without a named marker, a text is sure to be kept when it is in a paragraph, or when
\* nothing is.
IsKept(place) == InTag(place[1]) \/ \A i \in DOMAIN Item : ~InTag(i)

\* current.py and legacy.py: "verbatim transcript extraction".  But for what is left
\* out, the transcript is the text of the source, in its order, and no text is there
\* twice.  Without a marker that names somebody, a text may be there more than once, but
\* none is lost that is sure to be kept.  (Where a "\n" alone ends a line of a document
\* with markers.)
Verbatim ==
  IsRead /\ IsAligned =>
    IF source.era = "sprs3" \/ IsMarked
    THEN Transcribed = SelectSeq(Written, LAMBDA q : ~IsLeftOut(q))
    ELSE \A q \in Range(Written) : IsKept(q) => q \in Range(Transcribed)

\* Who was named last, at a place; Blank for nobody, after bold without a text.
Named(place) ==
  LET tags == Tags
      known(k) == \E q \in Range(tags[k].places) : q[1] <= place[1]
      names3 == {k \in DOMAIN tags : known(k) /\ IsNaming(tags[k]) /\ Says(tags[k]) # <<>>}
      names2 == {i \in Markers : i <= place[1]}
      isBefore(q) == q[1] < place[1] \/ (q[1] = place[1] /\ q[2] <= place[2])
      all == FlattenSeq([i \in DOMAIN Item |-> AllPlaces(i)])
      bolds == SelectSeq(all, LAMBDA q : IsBold(q) /\ isBefore(q))
  IN  CASE source.era = "sprs3" -> IF names3 = {} THEN None ELSE NameIn(tags[Max(names3)])
        [] source.era = "sprs2" /\ IsMarked ->
             IF names2 = {} THEN None ELSE Item[Max(names2)].name
        [] OTHER -> IF bolds = <<>> THEN None ELSE Run(Last(bolds))

\* Of the speeches with a text, the last one is the speech of the one who was named last.
IsRightSpeaker(q) ==
  LET holding == {k \in DOMAIN speeches : q \in Range(Texts(speeches[k]))}
  IN  holding # {} => speeches[Max(holding)].speaker = Named(q)

\* A text is the speech of the one who was named last: by a paragraph that says more
\* than the name, by a marker, or, where no marker has a name, in bold; or nobody's,
\* when that bold is blank.
RightSpeaker ==
  \A q \in Range(Written) :
    IsRead /\ IsAligned /\ (source.era = "sprs3" \/ IsMarked \/ IsKept(q)) =>
      IsRightSpeaker(q)

\* legacy.py:4-5: "Speakers are delimited by <!--MP_NAME:...--> HTML comments".  It is
\* False of the code for a document with another end of a line than "\n": `splitlines`
\* ends a line there, `getpos` does not, and the segments are cut too early.
MarkersDelimit ==
  IsRead /\ source.era = "sprs2" /\ IsMarked =>
    \A q \in Range(Written) : IsRightSpeaker(q)
=============================================================================
