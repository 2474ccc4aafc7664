----------------------------- MODULE WebBrowser -----------------------------
(***************************************************************************)
(* The history of WebBrowser in network.rs.  No command makes a WebBrowser *)
(* yet: the operations are called in any order.  Each loads the page; the  *)
(* answer is the same for every address (HttpGet in Browser), and scroll   *)
(* and selected link, which nothing but loading sets, stay 0.  An operator *)
(* marked "Slip" is not the code, but a mistake in the one after it.       *)
(***************************************************************************)
EXTENDS Integers, Sequences, SequencesExt

CONSTANTS Urls, NoUrl,
          MaxHistory      \* bound: pages in the history

ASSUME UrlAssumption == NoUrl \in Urls

ASSUME HistoryAssumption == MaxHistory \in Nat

VARIABLES current_url, history_back, history_forward

browser == <<current_url, history_back, history_forward>>

WebBrowserTypeOK ==
  /\ current_url \in Urls
  /\ history_back \in Seq(Urls) /\ history_forward \in Seq(Urls)
  /\ Len(history_back) + Len(history_forward) <= MaxHistory

WebBrowserInit ==
  current_url = NoUrl /\ history_back = <<>> /\ history_forward = <<>>

Navigate(url) ==
  /\ Len(history_back) < MaxHistory
  /\ history_back' = IF current_url = NoUrl THEN history_back
                     ELSE Append(history_back, current_url)
  /\ history_forward' = <<>>
  /\ current_url' = url

\* Slip: the page that is left is not kept for the way forward.
HistoryBackPage_Forgets ==
  /\ history_back # <<>>
  /\ history_back' = Front(history_back)
  /\ current_url' = Last(history_back)
  /\ UNCHANGED history_forward

HistoryBackPage ==
  /\ history_back # <<>>
  /\ history_forward' = Append(history_forward, current_url)
  /\ current_url' = Last(history_back)
  /\ history_back' = Front(history_back)

HistoryForwardPage ==
  /\ history_forward # <<>>
  /\ history_back' = Append(history_back, current_url)
  /\ current_url' = Last(history_forward)
  /\ history_forward' = Front(history_forward)

WebBrowserNext ==
  HistoryBackPage \/ HistoryForwardPage \/ \E url \in Urls : Navigate(url)

WebBrowserSpec == WebBrowserInit /\ [][WebBrowserNext]_browser

-----------------------------------------------------------------------------
AsVisits == INSTANCE Visits WITH
  visits <- (history_back \o <<current_url>>) \o Reverse(history_forward),
  at <- Len(history_back) + 1

\* The two stacks are a row of pages with a place in it: going back and forward
\* loses no page and changes no order, and a new page cuts off only what was
\* ahead of the one shown.
HistoryRefinement == AsVisits!Spec
=============================================================================
