--------------------------- MODULE MCGatewayPages ---------------------------
(***************************************************************************)
(* The instance of GatewayPages that TLC checks.  Three letters, of which  *)
(* the third is a digit, a ladder of three levels whose lists are cut at two *)
(* entries, and two reports to a page.                                     *)
(***************************************************************************)
EXTENDS GatewayPages

A == <<1>>
T == <<2>>
Tax == <<2, 1, 3>>
Tat == <<2, 1, 2>>
Act == <<1, 1, 2>>
Bill == <<1, 2, 2>>
Amended == <<1, 3>>
HeadB == <<3, 3>>

MCStopword == {A}
MCNoise == {HeadB}

Row(id, link, day, title, type, speaker) ==
  [id |-> id, link |-> link, day |-> day, title |-> title, type |-> type, speaker |-> speaker]

Loud(words) == [words |-> words, dress |-> 1]

TaxBill == Row(1, "bill-1", 38, Loud(<<Tax, Bill>>), Text(<<Act>>), Text(<<T, Act>>))
TaxAgain == Row(1, "bill-1", 38, Text(<<Tax, Bill>>), Text(<<Act>>), Loud(<<T, Act>>))
TaxAmended == Row(2, "bill-2", 39, Text(<<Tax, Amended, Bill>>), Text(<<Act>>), Untitled)
ActOfTax == Row(3, "oral-3", 40, Text(<<HeadB, A, Tat, Tax>>), Untitled, Text(<<Tax>>))
Dotted == Row(4, "WA.4", 40, Untitled, Text(<<Bill>>), Text(<<Bill, Tat>>))

MCCorpora ==
  {<<>>, <<TaxBill, TaxAmended>>, <<TaxBill, TaxAmended, ActOfTax, TaxAgain>>,
   <<ActOfTax, Dotted>>}

MCUnindexed == Row(9, "oral-9", 41, Text(<<HeadB, Act>>), Untitled, Text(<<Tax>>))

Typo == Text(<<<<2, 3>>>>)

MCTyped ==
  {Launcher(f) : f \in Formats \cup {Wrong}}
    \cup {Nav(p, "html") : p \in {<<2, 1, 3, 3>>, <<9>>, <<1>>}}
    \cup {Nav(T, f) : f \in {"json", "text", Wrong}}
    \cup {YearPage(Wrong, "html"), YearPage(18, "text"), LetterIndex("bill", Wrong)}
    \cup {LetterPage("speaker", c, "html") : c \in {3, 9}}
    \cup {DatePage(Wrong, "json"), DatePage(38, Wrong), ReportPage("none", "html")}
    \cup {Search(q) : q \in {Typo, Text(<<A>>), Text(<<Tax, Amended>>),
                             Text(<<Tat, <<3, 1, 1, 2>>>>), Text(<<Tax, Tax, Tax, Tax, Tax>>)}}
    \cup {[Search(Text(<<Tax>>)) EXCEPT !.page = p, !.from = from, !.format = f] :
            p \in {Nothing, 0, Wrong, 3}, from \in {Nothing, Wrong, 38},
            f \in {"html", Wrong}}
    \cup {[Search(Text(<<Tax>>)) EXCEPT !.from = from, !.to = Wrong] :
            from \in {Nothing, Wrong}}
=============================================================================
