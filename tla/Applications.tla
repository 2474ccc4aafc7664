---------------------------- MODULE Applications ----------------------------
(***************************************************************************)
(* The programs that draw and play on the whole screen, and what is below  *)
(* the browser.  One of them has the machine at a time (Session says how   *)
(* it gets the keys, Console how it gets the screen); its state is in      *)
(* local variables of one call, so that nothing of it outlives the call    *)
(* and a behaviour is one run of one program:                              *)
(*                                                                         *)
(*   "chess", "canvas", "browser"   started by play, draw and browse       *)
(*   "history"                      the operations of WebBrowser           *)
(*   "page"                         parse_html on a page, token by token   *)
(*   "left"                         the drawing or the browser was left    *)
(***************************************************************************)
EXTENDS Chess, Canvas, Browser, WebBrowser

CONSTANT MaxTokens     \* bound: tokens of a page

VARIABLES program,
          html,        \* the page read so far
          parser       \* the variables of parse_html

page == <<html, parser>>
vars == <<program, chess, canvas, search, browser, page>>

Programs == {"chess", "canvas", "browser", "history", "page"}

TypeOK ==
  /\ program \in Programs \cup {"left"}
  /\ ChessTypeOK /\ CanvasTypeOK /\ BrowserTypeOK /\ WebBrowserTypeOK
  /\ html \in Seq(Tokens)
  /\ parser.link_counter = Len(parser.links) + 1

Init ==
  /\ program \in Programs
  /\ ChessInit /\ CanvasInit /\ BrowserInit /\ WebBrowserInit
  /\ html = <<>> /\ parser = NewParser
  /\ program # "chess" => ~checked          \* the variables of the programs
  /\ program # "browser" => query = <<>>    \* that do not run do not matter

PageNext ==
  /\ Len(html) < MaxTokens
  /\ \E token \in Tokens : html' = Append(html, token) /\ parser' = Read(parser, token)

\* Escape ends the loop of the drawing, once it was started, and of the browser;
\* chess has a status for it.
CanvasEscape == program = "canvas" /\ started /\ program' = "left"
BrowserEscape == program = "browser" /\ program' = "left"

Run ==
  /\ UNCHANGED program
  /\ \/ program = "chess" /\ ChessNext /\ UNCHANGED <<canvas, search, browser, page>>
     \/ program = "canvas" /\ CanvasNext /\ UNCHANGED <<chess, search, browser, page>>
     \/ program = "browser" /\ BrowserNext /\ UNCHANGED <<chess, canvas, browser, page>>
     \/ program = "history" /\ WebBrowserNext /\ UNCHANGED <<chess, canvas, search, page>>
     \/ program = "page" /\ PageNext /\ UNCHANGED <<chess, canvas, search, browser>>

Next ==
  \/ Run
  \/ (CanvasEscape \/ BrowserEscape) /\ UNCHANGED <<chess, canvas, search, browser, page>>

Spec == Init /\ [][Next]_vars

-----------------------------------------------------------------------------
\* Wherever the page ends, parse_html has found its lines and its links: every
\* piece of text outside tags and scripts in its place, with its entities decoded,
\* and the links in order, each with its number and with the last address before
\* it, which is its own if it has one.
FindsTheText ==
  [lines |-> Finish(parser).lines, links |-> parser.links] = Found(html)
=============================================================================
