------------------------------ MODULE Browser -------------------------------
(***************************************************************************)
(* start_browser of network.rs, the search it makes, and the network below *)
(* it, which simulates a connection: no packet is sent, nothing is ever    *)
(* received, and the page is one that stands in the code.  The words of    *)
(* the query do not matter but for being blank or not.                     *)
(***************************************************************************)
EXTENDS Html, Integers, Sequences, SequencesExt

CONSTANTS Queries,      \* the arguments of `browse`, as the query they make
          QueryLength   \* characters the query takes (60 in the code)

ASSUME QueryAssumption == Queries \subseteq Seq({"c", " "})

VARIABLES query, scroll_offset,
          results       \* the lines shown, none before the first search

search == <<query, scroll_offset, results>>

BrowserTypeOK ==
  /\ query \in Seq({"c", " "})
  /\ scroll_offset \in Nat
  /\ results # <<>> => scroll_offset < Len(results)
  /\ results = <<>> => scroll_offset = 0

-----------------------------------------------------------------------------
NewSocket == [state |-> "Closed", rx_buffer |-> <<>>]
Connect(socket) == [socket EXCEPT !.state = "Established"]

\* The page that is in http_get.
Simulated ==
  <<"<", ">", "<script>", "<", ">", "word", "<", ">", "</script>", "<", ">",
    "<h1>", "word", "<", ">", "<", ">", "word", "<", ">">>
  \o <<CHOOSE target \in Targets : TRUE, "word", "</a>", "<", ">", "<", ">">>

\* http_get: every name resolves; send fails only without a connection.
HttpGet ==
  LET socket == Connect(NewSocket) IN
  IF socket.state = "Established" /\ socket.rx_buffer = <<>>
  THEN [ok |-> TRUE, body |-> Simulated] ELSE [ok |-> FALSE, body |-> <<>>]

\* perform_duckduckgo_search: the title, an empty line, and the page.
Title == <<Heading, Line(<<>>)>>
Offline == [i \in 1 .. 8 |-> Line(<<>>)]
Results == Title \o IF HttpGet.ok THEN ParseHtml(HttpGet.body).lines ELSE Offline

NotBlank(text) == "c" \in ToSet(text)

-----------------------------------------------------------------------------
BrowserInit ==
  /\ query \in Queries
  /\ scroll_offset = 0
  /\ results = IF NotBlank(query) THEN Results ELSE <<>>

BrowserEnter ==
  /\ NotBlank(query)
  /\ scroll_offset' = 0 /\ results' = Results
  /\ UNCHANGED query

BrowserBackspace ==
  /\ query' = IF query = <<>> THEN <<>> ELSE Front(query)
  /\ UNCHANGED <<scroll_offset, results>>

ScrollUp ==
  scroll_offset > 0 /\ scroll_offset' = scroll_offset - 1 /\ UNCHANGED <<query, results>>

\* Slip: the page may be scrolled past its last line.
ScrollDown_Past ==
  /\ results # <<>> /\ scroll_offset < Len(results)
  /\ scroll_offset' = scroll_offset + 1
  /\ UNCHANGED <<query, results>>

ScrollDown ==
  /\ results # <<>> /\ scroll_offset + 1 < Len(results)
  /\ scroll_offset' = scroll_offset + 1
  /\ UNCHANGED <<query, results>>

BrowserType(c) ==
  /\ Len(query) < QueryLength
  /\ query' = Append(query, c)
  /\ UNCHANGED <<scroll_offset, results>>

BrowserNext ==
  \/ BrowserEnter \/ BrowserBackspace \/ ScrollUp \/ ScrollDown
  \/ \E c \in {"c", " "} : BrowserType(c)
=============================================================================
