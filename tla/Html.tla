-------------------------------- MODULE Html --------------------------------
(***************************************************************************)
(* parse_html of network.rs: one pass over a page that leaves its lines of *)
(* text and its links.  The page is a sequence of tokens: a whole tag, a   *)
(* "<" or ">" by itself, or a piece of text.  The name of a tag whose "<"  *)
(* and ">" are tokens of their own is none that the parser knows.          *)
(*                                                                         *)
(*   "<script>", "</script>"   also style and head, and every tag that     *)
(*                             begins with one of these names              *)
(*   "<h1>"  "<a>"  "</a>"     these tags; those in Targets are <a> with   *)
(*                             an href                                     *)
(*   "&" "amp" "lt" " "        pieces of text that are treated differently *)
(*                             from other pieces: "amp" is `amp;', "lt" is *)
(*                             `lt;', and also `gt;' and `quot;'           *)
(*                                                                         *)
(* An operator marked "Slip" is not the code: it is a mistake one could    *)
(* make in the definition after it, and a property has to notice it.       *)
(***************************************************************************)
EXTENDS Integers, Sequences, SequencesExt, FiniteSetsExt

CONSTANTS Targets,      \* the opening tags of anchors with an href
          Words,        \* the pieces of text
          LinkNumbers   \* numbers the brackets of a link have (256 in the code)

Tags == Targets \cup {"<script>", "</script>", "<h1>", "<a>", "</a>"}
NoTarget == ""

Tokens == Tags \cup Words \cup {"<", ">"}

\* The kinds of tokens are told apart, and "none" is none of them.
ASSUME TokenAssumption ==
  /\ Targets \cap {"<script>", "</script>", "<h1>", "<a>", "</a>", "<", ">", "none"} = {}
  /\ Words \cap (Tags \cup {"<", ">"}) = {}

Trim(text) ==
  LET ink == {i \in 1 .. Len(text) : text[i] # " "}
  IN IF ink = {} THEN <<>> ELSE SubSeq(text, Min(ink), Max(ink))

\* str::replace: "&" and a name of `chars` become the character of that name.
Replace(text, chars) ==
  LET At(i) == i \in 1 .. Len(text) - 1 /\ text[i] = "&" /\ text[i + 1] \in DOMAIN chars
  IN FlattenSeq([i \in 1 .. Len(text) |->
       IF At(i) THEN <<chars[text[i + 1]]>> ELSE IF At(i - 1) THEN <<>> ELSE <<text[i]>>])

Ampersand == [name \in {"amp"} |-> "&"]
Others == [name \in {"lt"} |-> "<"]

DecodeEntities(text) == Replace(Replace(text, Ampersand), Others)

-----------------------------------------------------------------------------
Line(text) == [mark |-> "none", number |-> 0, text |-> text]
Heading == [mark |-> "#", number |-> 0, text |-> <<>>]
LinkLine(number, text) == [mark |-> "[]", number |-> number % LinkNumbers, text |-> text]

NewParser ==
  [lines |-> <<>>, links |-> <<>>, link_counter |-> 1,
   in_tag |-> FALSE, text_buffer |-> <<>>, skip_content |-> FALSE,
   current_link_url |-> NoTarget, in_anchor |-> FALSE]

Shows(p) == Trim(p.text_buffer) # <<>> /\ ~p.skip_content

\* The text is a line, and a link if an anchor is open.
Show(p) ==
  LET text == DecodeEntities(Trim(p.text_buffer))
      n == p.link_counter
      target == p.current_link_url
  IN IF ~p.in_anchor THEN [p EXCEPT !.lines = Append(@, Line(text))]
     ELSE [p EXCEPT !.lines = Append(@, LinkLine(n, text)),
             !.links = Append(@, [index |-> n, text |-> text, target_url |-> target]),
             !.link_counter = n + 1]

\* Slip: the text of a script stays in the buffer.
Flush_KeepsSkipped(p) ==
  IF p.skip_content THEN p
  ELSE [IF Shows(p) THEN Show(p) ELSE p EXCEPT !.text_buffer = <<>>]

\* '<': the text before it is shown, and the next one begins.
Flush(p) == [IF Shows(p) THEN Show(p) ELSE p EXCEPT !.text_buffer = <<>>]

\* '>': what the tag does.
Close(p, tag) ==
  CASE tag \in {"<script>", "</script>"} -> [p EXCEPT !.skip_content = (tag = "<script>")]
    [] tag = "<h1>"    -> [p EXCEPT !.lines = Append(@, Heading)]
    [] tag = "<a>"     -> [p EXCEPT !.in_anchor = TRUE]
    [] tag \in Targets -> [p EXCEPT !.in_anchor = TRUE, !.current_link_url = tag]
    [] OTHER           -> [p EXCEPT !.in_anchor = FALSE]

Read(p, token) ==
  IF token \in Tags THEN [Close(Flush(p), token) EXCEPT !.in_tag = FALSE]
  ELSE IF token = "<" THEN [Flush(p) EXCEPT !.in_tag = TRUE]
  ELSE IF token = ">" THEN [p EXCEPT !.in_tag = FALSE]
  ELSE IF p.in_tag THEN p
  ELSE [p EXCEPT !.text_buffer = Append(@, token)]

\* The end of the page: the last text is a line, but never a link.
Finish(p) ==
  IF ~Shows(p) THEN p
  ELSE [p EXCEPT !.lines = Append(@, Line(DecodeEntities(Trim(p.text_buffer))))]

ParseHtml(html) == Finish(FoldLeft(Read, NewParser, html))
-----------------------------------------------------------------------------
\* What the pass has to find, told from the whole page.  A break is a "<" or a
\* tag, or the end of the page; the text of a break is what stands before it,
\* back to the break before that one.
Breaks(html) == {i \in 1 .. Len(html) : html[i] \in Tags \cup {"<"}} \cup {Len(html) + 1}

Before(html, i, tokens) == {j \in 1 .. i - 1 : html[j] \in tokens}
LastOf(html, places) == IF places = {} THEN "none" ELSE html[Max(places)]

\* A piece lies in a tag from a "<" up to the next ">" or tag.
InTag(html, i) == LastOf(html, Before(html, i, Tags \cup {"<", ">"})) = "<"
Skipped(html, i) == LastOf(html, Before(html, i, {"<script>", "</script>"})) = "<script>"
Anchored(html, i) ==
  i <= Len(html) /\ LastOf(html, Before(html, i, Targets \cup {"<a>", "</a>"})) \notin {"none", "</a>"}
Target(html, i) ==
  IF Before(html, i, Targets) = {} THEN NoTarget ELSE LastOf(html, Before(html, i, Targets))

Piece(html, j) == IF html[j] \in Words /\ ~InTag(html, j) THEN <<html[j]>> ELSE <<>>
Start(html, i) == Max({0} \cup (Breaks(html) \cap 1 .. i - 1))
TextAt(html, i) ==
  Trim(FlattenSeq([k \in 1 .. i - 1 - Start(html, i) |-> Piece(html, Start(html, i) + k)]))

\* Each entity becomes its character and is not decoded again, but for those
\* written with an ampersand that is an entity itself: "&amp;lt;" becomes "<".
Twice(text) ==
  \E i \in 1 .. Len(text) - 2 : text[i] = "&" /\ text[i + 1] = "amp" /\ text[i + 2] = "lt"
Decoded(text) ==
  IF Twice(text) THEN DecodeEntities(text)
  ELSE Replace(text, [name \in {"amp", "lt"} |-> IF name = "amp" THEN "&" ELSE "<"])

\* The lines and the links of the page.
Found(html) ==
  LET text == [i \in Breaks(html) |-> TextAt(html, i)]
      shown == {i \in Breaks(html) : text[i] # <<>> /\ ~Skipped(html, i)}
      links == {i \in shown : Anchored(html, i)}
      Number(i) == Cardinality({j \in links : j <= i})
      LineAt(i) ==
        IF i \notin shown THEN <<>>
        ELSE IF i \in links THEN <<LinkLine(Number(i), Decoded(text[i]))>>
        ELSE <<Line(Decoded(text[i]))>>
      HeadingAt(i) == IF i <= Len(html) /\ html[i] = "<h1>" THEN <<Heading>> ELSE <<>>
      LinkAt(i) ==
        IF i \notin links THEN <<>>
        ELSE <<[index |-> Number(i), text |-> Decoded(text[i]), target_url |-> Target(html, i)]>>
  IN [lines |-> FlattenSeq([i \in 1 .. Len(html) + 1 |-> LineAt(i) \o HeadingAt(i)]),
      links |-> FlattenSeq([i \in 1 .. Len(html) + 1 |-> LinkAt(i)])]
=============================================================================
