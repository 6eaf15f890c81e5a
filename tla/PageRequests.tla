---------------------------- MODULE PageRequests ----------------------------
(***************************************************************************)
(* What one page of the web interface shows and what the server holds,     *)
(* while the requests of handler/web/static/js/app.js are under way: the   *)
(* star of a song, the start and stop buttons of an Icecast mount, the     *)
(* scan and MusicBrainz buttons, and the grid that grows as one scrolls.   *)
(*                                                                         *)
(* Each handler sends a request and goes on when it is answered; in the    *)
(* meantime the user clicks on.  Requests are served in any order, can be  *)
(* refused, and can fail before or after the server acted on them.  Those  *)
(* of a page that is left are served all the same, with nobody to answer.  *)
(***************************************************************************)
EXTENDS Integers, Sequences

CONSTANTS
  Slots,   \* requests under way at once: a bound
  Pages    \* pages of the grid

ASSUME SlotsAssumption == Slots \subseteq Nat
ASSUME PagesAssumption == Pages \in Nat \ {0}

VARIABLES
  starred, enabled,           \* the server's: song starred, mount enabled
  starShown, mountShown,      \* the page's idea of them
  lookupDisabled, scanDisabled,
  grid,                       \* the pages appended to the grid
  nextUrl,                    \* sentinel.dataset.nextUrl: the number of a page,
                              \* 0 for ''
  inView,                     \* whether the sentinel was last seen in view
  reloadDue,                  \* a timer waits to reload the page
  requests,                   \* per slot: the call, the page it asks for, its
                              \* phase (sent, done, refused), whether a page
                              \* still listens
  doubt,                      \* history: "unsure" when something happened on this
                              \* page that may keep it from agreeing with the
                              \* server, "missed" when the grid lost a page
  scans                       \* history: scans the server began for this page
                              \* since it loaded or an answer was lost

server  == <<starred, enabled>>
buttons == <<lookupDisabled, scanDisabled>>
scroll  == <<grid, nextUrl, inView>>
vars == <<server, starShown, mountShown, buttons, scroll, reloadDue, requests,
          doubt, scans>>

Changes == {"star", "unstar", "start", "stop"}
None  == [call |-> "none", page |-> 0, phase |-> "sent", heard |-> FALSE]
Fresh(call, page) == [call |-> call, page |-> page, phase |-> "sent", heard |-> TRUE]

OnTheWay(calls) == {s \in Slots : requests[s].call \in calls /\ requests[s].heard}

(* The page as the server renders it.                                       *)
Rendered ==
  /\ starShown' = starred /\ mountShown' = enabled
  /\ lookupDisabled' = FALSE /\ scanDisabled' = FALSE
  /\ grid' = <<1>> /\ nextUrl' = (IF Pages > 1 THEN 2 ELSE 0) /\ inView' = FALSE
  /\ reloadDue' = FALSE /\ scans' = 0

Init ==
  /\ starred \in BOOLEAN /\ enabled \in BOOLEAN
  /\ starShown = starred /\ mountShown = enabled
  /\ lookupDisabled = FALSE /\ scanDisabled = FALSE
  /\ grid = <<1>> /\ nextUrl = (IF Pages > 1 THEN 2 ELSE 0) /\ inView = FALSE
  /\ reloadDue = FALSE /\ scans = 0 /\ doubt = {}
  /\ requests = [s \in Slots |-> None]

-----------------------------------------------------------------------------
(* The user                                                                 *)

\* api() and fetch(): the handler goes on when the slot is answered
Send(call, page) ==
  /\ \E s \in Slots : requests[s] = None
  /\ LET s == CHOOSE s \in Slots : requests[s] = None
     IN  requests' = [requests EXCEPT ![s] = Fresh(call, page)]

\* the star changes at once
ClickStar ==
  /\ Send(IF starShown THEN "unstar" ELSE "star", 0)
  /\ starShown' = ~starShown
  /\ doubt' = IF OnTheWay({"star", "unstar"}) = {} THEN doubt
              ELSE doubt \cup {"unsure"}
  /\ UNCHANGED <<server, mountShown, buttons, scroll, reloadDue, scans>>

\* nothing is disabled and nothing changes until the answer
ClickMount(call) ==
  /\ Send(call, 0)
  /\ UNCHANGED <<server, starShown, mountShown, buttons, scroll, reloadDue,
                 doubt, scans>>

ClickLookup ==
  /\ ~lookupDisabled
  /\ Send("lookup", 0)
  /\ lookupDisabled' = TRUE
  /\ UNCHANGED <<server, starShown, mountShown, scanDisabled, scroll, reloadDue,
                 doubt, scans>>

ClickScan ==
  /\ ~scanDisabled
  /\ Send("scan", 0)
  /\ scanDisabled' = TRUE
  /\ UNCHANGED <<server, starShown, mountShown, lookupDisabled, scroll,
                 reloadDue, doubt, scans>>

\* Mutant: the url is not blanked.
ScrollIn_Again ==
  /\ ~inView /\ inView' = TRUE
  /\ IF nextUrl = 0 THEN UNCHANGED requests ELSE Send("more", nextUrl)
  /\ UNCHANGED <<server, starShown, mountShown, buttons, grid, nextUrl,
                 reloadDue, doubt, scans>>

\* the observer reports a sentinel that comes into view, and only then; the
\* url is blanked until the answer brings the next one
ScrollIn ==
  /\ ~inView /\ inView' = TRUE
  /\ IF nextUrl = 0 THEN UNCHANGED requests ELSE Send("more", nextUrl)
  /\ nextUrl' = 0
  /\ UNCHANGED <<server, starShown, mountShown, buttons, grid, reloadDue,
                 doubt, scans>>

\* scrolled away, or pushed down by what was appended
ScrollOut ==
  /\ inView /\ inView' = FALSE
  /\ UNCHANGED <<server, starShown, mountShown, buttons, grid, nextUrl,
                 reloadDue, requests, doubt, scans>>

Unheard(r) == IF r.phase = "sent" /\ r.call \in Changes
              THEN [r EXCEPT !.heard = FALSE] ELSE None

\* a new page: a change that the former one asked for and the server has not
\* made yet is made after it was rendered
Load ==
  /\ Rendered
  /\ requests' = [s \in Slots |-> Unheard(requests[s])]
  /\ doubt' = IF \A s \in Slots : requests'[s] = None THEN {} ELSE {"unsure"}
  /\ UNCHANGED server

Reload == reloadDue /\ Load

User ==
  \/ ClickStar
  \/ \E call \in {"start", "stop"} : ClickMount(call)
  \/ ClickLookup \/ ClickScan
  \/ ScrollIn \/ ScrollOut
  \/ Load

-----------------------------------------------------------------------------
(* The server and the network                                               *)

Effect(r) ==
  /\ starred' = CASE r.call = "star" -> TRUE [] r.call = "unstar" -> FALSE
                  [] OTHER -> starred
  /\ enabled' = CASE r.call = "start" -> TRUE [] r.call = "stop" -> FALSE
                  [] OTHER -> enabled
  /\ scans' = IF r.call = "scan" THEN scans + 1 ELSE scans

\* carried out, refused, or carried out in part: the mount is enabled in the
\* database and the start of its stream fails
Serve(s) ==
  LET r == requests[s]
      served(phase) == requests' = [requests EXCEPT
        ![s] = IF r.heard THEN [r EXCEPT !.phase = phase] ELSE None]
  IN  /\ r # None /\ r.phase = "sent"
      /\ \/ Effect(r) /\ served("done") /\ UNCHANGED doubt
         \/ served("refused") /\ UNCHANGED <<server, scans, doubt>>
         \/ /\ r.call = "start"
            /\ Effect(r) /\ served("refused")
            /\ doubt' = doubt \cup {"unsure"}
      /\ UNCHANGED <<starShown, mountShown, buttons, scroll, reloadDue>>

-----------------------------------------------------------------------------
(* The rest of the handlers: the answer, or the error                       *)

\* Mutant: the star stays.
StarRollback_Not(r) == UNCHANGED starShown

\* a refused click puts back what it found
StarRollback(r) ==
  starShown' = CASE r.call = "star" -> FALSE [] r.call = "unstar" -> TRUE
                 [] OTHER -> starShown

\* Mutant: not on an error.
LookupFinally_Success(r) ==
  lookupDisabled' = (lookupDisabled /\ (r.call = "lookup" => r.phase # "done"))

LookupFinally(r) == lookupDisabled' = (lookupDisabled /\ r.call # "lookup")

\* only a refusal brings the scan button back
ScanCatch(r) == scanDisabled' = (scanDisabled /\ r.call # "scan")

ReloadTimer(r) == reloadDue' = (reloadDue \/ r.call \in {"start", "stop"})

\* Mutant: the url of the next page is not taken over.
PageArrives_NoUrl(r) ==
  /\ IF r.call = "more" THEN grid' = Append(grid, r.page) ELSE UNCHANGED grid
  /\ UNCHANGED nextUrl

\* the items and, unless it is the last page, the url of the one to follow
PageArrives(r) ==
  IF r.call = "more"
  THEN /\ grid' = Append(grid, r.page)
       /\ nextUrl' = IF r.page < Pages THEN r.page + 1 ELSE nextUrl
  ELSE UNCHANGED <<grid, nextUrl>>

Succeeds(r) ==
  /\ LookupFinally(r) /\ ReloadTimer(r) /\ PageArrives(r)
  /\ UNCHANGED <<starShown, scanDisabled>>

\* an error page in answer to "more" has neither items nor a sentinel
Fails(r) ==
  /\ StarRollback(r) /\ LookupFinally(r) /\ ScanCatch(r)
  /\ UNCHANGED <<reloadDue, grid, nextUrl>>

Missed(r) == IF r.call = "more" THEN {"missed"} ELSE {}

Answered(s) ==
  LET r == requests[s]
  IN  /\ r # None /\ r.heard
      /\ \/ r.phase = "done" /\ Succeeds(r) /\ UNCHANGED doubt
         \/ r.phase = "refused" /\ Fails(r) /\ doubt' = doubt \cup Missed(r)
      /\ requests' = [requests EXCEPT ![s] = None]
      /\ UNCHANGED <<server, mountShown, inView, scans>>

\* the connection fails: before the server has the request, while it is on its
\* way (it is served later), or with the answer
Lost(s) ==
  LET r == requests[s]
  IN  /\ r # None /\ r.heard
      /\ Fails(r)
      /\ \E left \in {None, Unheard(r)} : requests' = [requests EXCEPT ![s] = left]
      /\ doubt' = doubt \cup Missed(r)
                        \cup (IF r.call \in Changes THEN {"unsure"} ELSE {})
      /\ scans' = IF r.call = "scan" THEN 0 ELSE scans
      /\ UNCHANGED <<server, mountShown, inView>>

Next ==
  \/ User
  \/ Reload
  \/ \E s \in Slots : Serve(s) \/ Answered(s) \/ Lost(s)

\* a request is served, answered or given up by the browser in the end, and a
\* timer fires
Fairness ==
  /\ WF_vars(Reload)
  /\ \A s \in Slots : WF_vars(Serve(s) \/ Answered(s) \/ Lost(s))

Spec == Init /\ [][Next]_vars /\ Fairness

-----------------------------------------------------------------------------
(* Properties                                                               *)

\* When every request of the page has been answered and no reload is due, the
\* star and the mount shown are the server's: neither the star set ahead of the
\* answer (initStarButtons) nor the mount shown until the reload
\* (initIcecastControls) is left behind by a refusal.  It takes clicks on the
\* star one after the other's answer, no answer lost on the way, and no page
\* left with its request unserved, and no start that enables the mount and fails.
PageAgrees ==
  ("unsure" \notin doubt /\ ~reloadDue /\ OnTheWay(Changes) = {})
    => starShown = starred /\ mountShown = enabled

\* The grid holds the first pages, each once and in order, however often the
\* sentinel comes into view while a page is being fetched, and the url at hand
\* is that of the page to follow (initInfiniteScroll).
GridInOrder ==
  /\ \A i \in 1..Len(grid) : grid[i] = i
  /\ nextUrl # 0 => nextUrl = Len(grid) + 1 /\ OnTheWay({"more"}) = {}

\* A button that is disabled has a reason and comes back when it is gone: a lookup
\* until it is answered in whatever way (the finally of initMusicBrainzLookup), a
\* scan that runs until the page is loaded again.  No page starts a scan twice
\* (initScanButtons), unless it was told that the first one failed.
ButtonsHold ==
  /\ lookupDisabled <=> OnTheWay({"lookup"}) # {}
  /\ scanDisabled <=> OnTheWay({"scan"}) # {} \/ scans > 0
  /\ scans <= 1

\* A user who stays on a page and scrolls to its end again and again gets to see
\* all of the grid, or a page of it could not be fetched (initInfiniteScroll).
GridFills ==
  (<>[][~Load]_vars /\ []<>inView /\ []<>~inView)
    => <>[](Len(grid) = Pages \/ "missed" \in doubt)
=============================================================================
