------------------------- MODULE PageRequests_proofs -------------------------
(***************************************************************************)
(* For any number of request slots and pages: what the page shows agrees   *)
(* with the server once its requests are answered, the grid grows in       *)
(* order, and every disabled button has its reason.                        *)
(***************************************************************************)
EXTENDS PageRequests, TLAPS

Calls == Changes \cup {"none", "lookup", "scan", "more"}
Requests == [call : Calls, page : 0..Pages, phase : {"sent", "done", "refused"},
             heard : BOOLEAN]

TypeOK ==
  /\ starred \in BOOLEAN /\ enabled \in BOOLEAN
  /\ starShown \in BOOLEAN /\ mountShown \in BOOLEAN
  /\ lookupDisabled \in BOOLEAN /\ scanDisabled \in BOOLEAN
  /\ grid \in Seq(1..Pages) /\ nextUrl \in 0..Pages /\ inView \in BOOLEAN
  /\ reloadDue \in BOOLEAN
  /\ requests \in [Slots -> Requests]
  /\ doubt \subseteq {"unsure", "missed"} /\ scans \in Nat

Alone(calls) == \A s, t \in OnTheWay(calls) : s = t

\* Only changes are carried out for a page that has been left.
LeftBehind ==
  \A s \in Slots : ~requests[s].heard =>
    requests[s] = None \/ (requests[s].call \in Changes /\ requests[s].phase = "sent")

\* One click on the star is under way at most; the star shows what it asks for,
\* and the server is there already exactly when it has carried it out.
StarFollows ==
  "unsure" \notin doubt =>
    /\ Alone({"star", "unstar"})
    /\ OnTheWay({"star", "unstar"}) = {} => starShown = starred
    /\ \A s \in OnTheWay({"star", "unstar"}) :
         /\ starShown <=> requests[s].call = "star"
         /\ requests[s].phase = "done" <=> starShown = starred

\* The mount shown is stale only while an answer or the reload is to come.
MountFollows ==
  "unsure" \notin doubt =>
    /\ \A s \in Slots : ~requests[s].heard => requests[s] = None
    /\ ~reloadDue /\ (\A s \in OnTheWay({"start", "stop"}) : requests[s].phase # "done")
         => mountShown = enabled

\* The one page under way is the page to follow, and its url is blanked.
NextPage ==
  /\ Alone({"more"})
  /\ \A s \in OnTheWay({"more"}) : requests[s].page = Len(grid) + 1 /\ nextUrl = 0

\* A scan under way has begun exactly when it is carried out.
OneScan ==
  /\ Alone({"lookup"}) /\ Alone({"scan"})
  /\ \A s \in OnTheWay({"scan"}) : scans = IF requests[s].phase = "done" THEN 1 ELSE 0

IInv ==
  /\ TypeOK
  /\ LeftBehind /\ StarFollows /\ MountFollows
  /\ NextPage /\ GridInOrder
  /\ OneScan /\ ButtonsHold

-----------------------------------------------------------------------------
\* A request takes a slot that is free.
LEMMA SendTakesFreeSlot ==
  ASSUME NEW call, NEW page, Send(call, page)
  PROVE  \E s \in Slots : /\ requests[s] = None
                          /\ requests' = [requests EXCEPT ![s] = Fresh(call, page)]
<1> DEFINE free == CHOOSE s \in Slots : requests[s] = None
<1>1. free \in Slots /\ requests[free] = None
  BY DEF Send
<1>2. requests' = [requests EXCEPT ![free] = Fresh(call, page)]
  BY DEF Send
<1>3. QED
  BY <1>1, <1>2

\* The initial state satisfies the inductive invariant.
LEMMA InitInv == Init => IInv
<1> SUFFICES ASSUME Init PROVE IInv
  OBVIOUS
<1> USE PagesAssumption DEF Init
<1>1. grid \in Seq(1..Pages) /\ Len(grid) = 1 /\ grid[1] = 1 /\ nextUrl \in 0..Pages
  OBVIOUS
<1>2. TypeOK
  <2>1. requests \in [Slots -> Requests]
    BY DEF Requests, Calls, Changes, None
  <2>2. starShown \in BOOLEAN /\ mountShown \in BOOLEAN
    BY Zenon
  <2>3. QED
    BY <1>1, <2>1, <2>2 DEF TypeOK
<1>3. \A calls : "none" \notin calls => OnTheWay(calls) = {}
  BY DEF OnTheWay, None
<1>4. LeftBehind /\ StarFollows /\ MountFollows
  BY <1>3 DEF LeftBehind, StarFollows, MountFollows, Alone, None
<1>5. NextPage /\ GridInOrder
  BY <1>1, <1>3 DEF NextPage, GridInOrder, Alone
<1>6. OneScan /\ ButtonsHold
  BY <1>3 DEF OneScan, ButtonsHold, Alone
<1>7. QED
  BY <1>2, <1>4, <1>5, <1>6 DEF IInv

\* Requests are records of the right sort, whatever becomes of them.
LEMMA RequestTypes ==
  /\ None \in Requests
  /\ \A call \in Calls, page \in 0..Pages : Fresh(call, page) \in Requests
  /\ \A r \in Requests : /\ Unheard(r) \in Requests
                          /\ [r EXCEPT !.phase = "done"] \in Requests
                          /\ [r EXCEPT !.phase = "refused"] \in Requests
<1>1. None \in Requests
  BY PagesAssumption DEF None, Requests, Calls
<1>2. \A call \in Calls, page \in 0..Pages : Fresh(call, page) \in Requests
  BY DEF Fresh, Requests
<1>3. ASSUME NEW r \in Requests
      PROVE  /\ Unheard(r) \in Requests
             /\ [r EXCEPT !.phase = "done"] \in Requests
             /\ [r EXCEPT !.phase = "refused"] \in Requests
  BY <1>1 DEF Unheard, Requests
<1>4. QED
  BY <1>1, <1>2, <1>3

\* An empty slot.
LEMMA NoneFacts ==
  /\ None.call = "none" /\ None.phase = "sent" /\ None.heard = FALSE
BY DEF None

\* Carrying a request out changes what its call names, and nothing else.
LEMMA EffectFacts ==
  ASSUME NEW r, Effect(r)
  PROVE  /\ r.call = "star" => starred' = TRUE
         /\ r.call = "unstar" => starred' = FALSE
         /\ r.call \notin {"star", "unstar"} => starred' = starred
         /\ r.call \notin {"start", "stop"} => enabled' = enabled
         /\ scans' = IF r.call = "scan" THEN scans + 1 ELSE scans
BY DEF Effect

\* The three ways to serve a request, and what each leaves in its slot.
ServedAs(s, phase) ==
  /\ requests[s] # None /\ requests[s].phase = "sent"
  /\ requests' = [requests EXCEPT ![s] = IF requests[s].heard
                    THEN [requests[s] EXCEPT !.phase = phase] ELSE None]
  /\ \/ phase = "done" /\ Effect(requests[s]) /\ UNCHANGED doubt
     \/ phase = "refused" /\ UNCHANGED <<starred, enabled, scans, doubt>>
     \/ /\ phase = "refused" /\ requests[s].call = "start"
        /\ Effect(requests[s]) /\ doubt' = doubt \cup {"unsure"}
  /\ UNCHANGED <<starShown, mountShown, lookupDisabled, scanDisabled, grid,
                 nextUrl, inView, reloadDue>>

LEMMA ServeFacts ==
  ASSUME NEW s \in Slots, Serve(s)
  PROVE  \E phase \in {"done", "refused"} : ServedAs(s, phase)
BY DEF Serve, ServedAs, server, buttons, scroll

\* The page waits for the same answers as before.
LEMMA ServeKeepsSlots ==
  ASSUME TypeOK, NEW s \in Slots, NEW phase, ServedAs(s, phase)
  PROVE  /\ \A calls : OnTheWay(calls)' = OnTheWay(calls)
         /\ \A t \in Slots : requests[t].heard =>
              /\ requests'[t].call = requests[t].call
              /\ requests'[t].page = requests[t].page
              /\ requests'[t].phase = IF t = s THEN phase ELSE requests[t].phase
         /\ \A t \in Slots : ~requests[t].heard => requests'[t] \in {requests[t], None}
         /\ \A t \in Slots : requests'[t].heard <=> requests[t].heard
<1> USE DEF ServedAs
<1>1. \A t \in Slots : t # s => requests'[t] = requests[t]
  BY DEF TypeOK
<1>2. CASE requests[s].heard
  <2>1. /\ requests'[s].call = requests[s].call /\ requests'[s].page = requests[s].page
        /\ requests'[s].phase = phase /\ requests'[s].heard = requests[s].heard
    BY <1>2 DEF TypeOK, Requests
  <2>2. QED
    BY <1>1, <1>2, <2>1 DEF OnTheWay
<1>3. CASE ~requests[s].heard
  <2>1. requests'[s] = None
    BY <1>3 DEF TypeOK
  <2>2. QED
    BY <1>1, <1>3, <2>1, NoneFacts DEF OnTheWay
<1>4. QED
  BY <1>2, <1>3

\* A slot that is answered waits no more.
LEMMA AnsweredSlot ==
  ASSUME TypeOK, NEW s \in Slots, requests[s].heard,
         requests' = [requests EXCEPT ![s] = None]
  PROVE  /\ \A calls : OnTheWay(calls)' = OnTheWay(calls) \ {s}
         /\ \A t \in Slots : t # s => requests'[t] = requests[t]
         /\ requests'[s] = None
<1>1. (\A t \in Slots : t # s => requests'[t] = requests[t]) /\ requests'[s] = None
  BY DEF TypeOK
<1>2. QED
  BY <1>1, NoneFacts DEF OnTheWay

\* Nobody waits for a request that was given up.
LEMMA LostSlot ==
  ASSUME TypeOK, NEW s \in Slots, Lost(s)
  PROVE  /\ requests[s].heard
         /\ \A calls : OnTheWay(calls)' = OnTheWay(calls) \ {s}
         /\ \A t \in Slots : t # s => requests'[t] = requests[t]
<1>1. PICK left \in {None, Unheard(requests[s])} : requests' = [requests EXCEPT ![s] = left]
  BY DEF Lost
<1>2. ~left.heard
  BY NoneFacts, RequestTypes DEF Unheard, TypeOK, Requests
<1>3. (\A t \in Slots : t # s => requests'[t] = requests[t]) /\ requests'[s] = left
  BY <1>1 DEF TypeOK
<1>4. requests[s].heard
  BY DEF Lost
<1>5. QED
  BY <1>2, <1>3, <1>4 DEF OnTheWay

\* Every action writes values of the right sort.
LEMMA TypeOKStep == IInv /\ [Next]_vars => TypeOK'
<1> SUFFICES ASSUME IInv, [Next]_vars PROVE TypeOK'
  OBVIOUS
<1> USE DEF IInv
<1>1. CASE ClickStar
  <2>1. PICK s \in Slots : requests' = [requests EXCEPT ![s] = Fresh(IF starShown THEN "unstar" ELSE "star", 0)]
    BY <1>1, SendTakesFreeSlot DEF ClickStar
  <2>2. requests' \in [Slots -> Requests]
    BY <2>1, RequestTypes, PagesAssumption DEF TypeOK, Calls, Changes
  <2>3. QED
    BY <1>1, <2>2 DEF ClickStar, TypeOK, server, buttons, scroll
<1>2. ASSUME NEW call \in {"start", "stop"}, ClickMount(call)
      PROVE  TypeOK'
  <2>1. PICK s \in Slots : requests' = [requests EXCEPT ![s] = Fresh(call, 0)]
    BY <1>2, SendTakesFreeSlot DEF ClickMount
  <2>2. requests' \in [Slots -> Requests]
    BY <2>1, RequestTypes, PagesAssumption DEF TypeOK, Calls, Changes
  <2>3. QED
    BY <1>2, <2>2 DEF ClickMount, TypeOK, server, buttons, scroll
<1>3. CASE ClickLookup
  <2>1. PICK s \in Slots : requests' = [requests EXCEPT ![s] = Fresh("lookup", 0)]
    BY <1>3, SendTakesFreeSlot DEF ClickLookup
  <2>2. requests' \in [Slots -> Requests]
    BY <2>1, RequestTypes, PagesAssumption DEF TypeOK, Calls, Changes
  <2>3. QED
    BY <1>3, <2>2 DEF ClickLookup, TypeOK, server, buttons, scroll
<1>4. CASE ClickScan
  <2>1. PICK s \in Slots : requests' = [requests EXCEPT ![s] = Fresh("scan", 0)]
    BY <1>4, SendTakesFreeSlot DEF ClickScan
  <2>2. requests' \in [Slots -> Requests]
    BY <2>1, RequestTypes, PagesAssumption DEF TypeOK, Calls, Changes
  <2>3. QED
    BY <1>4, <2>2 DEF ClickScan, TypeOK, server, buttons, scroll
<1>5. CASE ScrollIn
  <2>1. CASE nextUrl = 0
    BY <1>5, <2>1 DEF ScrollIn, TypeOK, server, buttons, scroll
  <2>2. CASE nextUrl # 0
    <3>1. PICK s \in Slots : requests' = [requests EXCEPT ![s] = Fresh("more", nextUrl)]
      BY <1>5, <2>2, SendTakesFreeSlot DEF ScrollIn
    <3>2. requests' \in [Slots -> Requests]
      BY <3>1, RequestTypes DEF TypeOK, Calls
    <3>3. QED
      BY <1>5, <3>2, PagesAssumption DEF ScrollIn, TypeOK, server, buttons, scroll
  <2>3. QED
    BY <2>1, <2>2
<1>6. CASE ScrollOut
  BY <1>6 DEF ScrollOut, TypeOK, server, buttons, scroll
<1>7. CASE Load
  <2>1. requests' \in [Slots -> Requests]
    BY <1>7, RequestTypes DEF Load, TypeOK
  <2>2. grid' \in Seq(1..Pages) /\ nextUrl' \in 0..Pages
    BY <1>7, PagesAssumption DEF Load, Rendered
  <2>3. QED
    BY <1>7, <2>1, <2>2 DEF Load, Rendered, TypeOK, server, buttons, scroll
<1>8. ASSUME NEW s \in Slots, Serve(s)
      PROVE  TypeOK'
  <2>1. requests' \in [Slots -> Requests]
    <3>1. PICK r \in Requests : requests' = [requests EXCEPT ![s] = r]
      BY <1>8, ServeFacts, RequestTypes DEF ServedAs, TypeOK
    <3>2. QED
      BY <3>1 DEF TypeOK
  <2>2. starred' \in BOOLEAN /\ enabled' \in BOOLEAN /\ scans' \in Nat
    <3>1. CASE Effect(requests[s])
      <4>1. starred' \in {TRUE, FALSE, starred} /\ enabled' \in {TRUE, FALSE, enabled}
        BY <3>1 DEF Effect
      <4>2. scans' \in Nat
        BY <3>1 DEF Effect, TypeOK
      <4>3. QED
        BY <4>1, <4>2 DEF TypeOK
    <3>2. CASE UNCHANGED <<server, scans>>
      BY <3>2 DEF server, TypeOK
    <3>3. QED
      BY <1>8, <3>1, <3>2 DEF Serve
  <2>3. doubt' \subseteq {"unsure", "missed"}
    BY <1>8 DEF Serve, TypeOK
  <2>4. QED
    BY <1>8, <2>1, <2>2, <2>3 DEF Serve, TypeOK, buttons, scroll
<1>9. ASSUME NEW s \in Slots, Answered(s)
      PROVE  TypeOK'
  <2>1. requests' \in [Slots -> Requests]
    BY <1>9, RequestTypes DEF Answered, TypeOK
  <2>2. grid' \in Seq(1..Pages) /\ nextUrl' \in 0..Pages
    <3>1. CASE requests[s].call = "more" /\ requests[s].phase = "done"
      <4>1. requests[s].page = Len(grid) + 1 /\ requests[s].page \in 0..Pages
        BY <1>9, <3>1 DEF Answered, NextPage, OnTheWay, TypeOK, Requests
      <4>2. requests[s].page \in 1..Pages
        BY <4>1, PagesAssumption DEF TypeOK
      <4>3. QED
        <5>1. /\ grid' = Append(grid, requests[s].page)
              /\ nextUrl' = IF requests[s].page < Pages THEN requests[s].page + 1 ELSE nextUrl
          BY <1>9, <3>1 DEF Answered, Succeeds, PageArrives
        <5>2. nextUrl' \in 0..Pages
          BY <4>2, <5>1, PagesAssumption DEF TypeOK
        <5>3. grid' \in Seq(1..Pages)
          BY <4>2, <5>1 DEF TypeOK
        <5>4. QED
          BY <5>2, <5>3
    <3>2. CASE ~(requests[s].call = "more" /\ requests[s].phase = "done")
      BY <1>9, <3>2 DEF Answered, Succeeds, Fails, PageArrives, TypeOK
    <3>3. QED
      BY <3>1, <3>2
  <2>3. QED
    BY <1>9, <2>1, <2>2 DEF Answered, Succeeds, Fails, StarRollback, LookupFinally, ScanCatch, ReloadTimer, Missed, TypeOK, server, buttons, scroll
<1>10. ASSUME NEW s \in Slots, Lost(s)
      PROVE  TypeOK'
  <2>1. requests' \in [Slots -> Requests]
    BY <1>10, RequestTypes DEF Lost, TypeOK
  <2>2. QED
    BY <1>10, <2>1 DEF Lost, Fails, StarRollback, LookupFinally, ScanCatch, Missed, TypeOK, server, buttons, scroll
<1>11. CASE UNCHANGED vars
  BY <1>11 DEF vars, TypeOK, server, buttons, scroll
<1>12. QED
  BY <1>1, <1>2, <1>3, <1>4, <1>5, <1>6, <1>7, <1>8, <1>9, <1>10, <1>11 DEF Next, User, Reload

\* Only changes are ever left to a server with nobody to answer.
LEMMA LeftBehindStep == IInv /\ [Next]_vars => LeftBehind'
<1> SUFFICES ASSUME IInv, [Next]_vars PROVE LeftBehind'
  OBVIOUS
<1> USE DEF IInv
<1>1. CASE ClickStar
  <2>1. PICK s \in Slots : /\ requests[s] = None
                           /\ requests' = [requests EXCEPT ![s] = Fresh(IF starShown THEN "unstar" ELSE "star", 0)]
    BY <1>1, SendTakesFreeSlot DEF ClickStar
  <2>2. QED
    BY <1>1, NoneFacts, <2>1 DEF ClickStar, LeftBehind, Fresh, Changes, OnTheWay, server, buttons, scroll, TypeOK, Requests
<1>2. ASSUME NEW call \in {"start", "stop"}, ClickMount(call)
      PROVE  LeftBehind'
  <2>1. PICK s \in Slots : /\ requests[s] = None
                           /\ requests' = [requests EXCEPT ![s] = Fresh(call, 0)]
    BY <1>2, SendTakesFreeSlot DEF ClickMount
  <2>2. QED
    BY <1>2, NoneFacts, <2>1 DEF ClickMount, LeftBehind, Fresh, Changes, OnTheWay, server, buttons, scroll, TypeOK, Requests
<1>3. CASE ClickLookup
  <2>1. PICK s \in Slots : /\ requests[s] = None
                           /\ requests' = [requests EXCEPT ![s] = Fresh("lookup", 0)]
    BY <1>3, SendTakesFreeSlot DEF ClickLookup
  <2>2. QED
    BY <1>3, NoneFacts, <2>1 DEF ClickLookup, LeftBehind, Fresh, Changes, OnTheWay, server, buttons, scroll, TypeOK, Requests
<1>4. CASE ClickScan
  <2>1. PICK s \in Slots : /\ requests[s] = None
                           /\ requests' = [requests EXCEPT ![s] = Fresh("scan", 0)]
    BY <1>4, SendTakesFreeSlot DEF ClickScan
  <2>2. QED
    BY <1>4, NoneFacts, <2>1 DEF ClickScan, LeftBehind, Fresh, Changes, OnTheWay, server, buttons, scroll, TypeOK, Requests
<1>5. CASE ScrollIn
  <2>1. CASE nextUrl = 0
    BY <1>5, NoneFacts, <2>1 DEF ScrollIn, LeftBehind, Fresh, Changes, OnTheWay, server, buttons, scroll, TypeOK, Requests
  <2>2. CASE nextUrl # 0
    <3>1. PICK s \in Slots : /\ requests[s] = None
                             /\ requests' = [requests EXCEPT ![s] = Fresh("more", nextUrl)]
      BY <1>5, <2>2, SendTakesFreeSlot DEF ScrollIn
    <3>2. QED
      BY <1>5, NoneFacts, <2>2, <3>1 DEF ScrollIn, LeftBehind, Fresh, Changes, OnTheWay, server, buttons, scroll, TypeOK, Requests
  <2>3. QED
    BY <2>1, <2>2
<1>6. CASE ScrollOut
  BY <1>6, NoneFacts DEF ScrollOut, LeftBehind, Fresh, Changes, OnTheWay, server, buttons, scroll, TypeOK, Requests
<1>7. CASE Load
  BY <1>7, NoneFacts, PagesAssumption DEF Load, Rendered, Unheard, LeftBehind, Fresh, Changes, OnTheWay, server, buttons, scroll, TypeOK, Requests
<1>8. ASSUME NEW s \in Slots, Serve(s)
      PROVE  LeftBehind'
  <2>1. PICK phase \in {"done", "refused"} : ServedAs(s, phase)
    BY <1>8, ServeFacts
  <2>2. /\ \A calls : OnTheWay(calls)' = OnTheWay(calls)
        /\ \A t \in Slots : requests[t].heard =>
             /\ requests'[t].call = requests[t].call
             /\ requests'[t].page = requests[t].page
             /\ requests'[t].phase = IF t = s THEN phase ELSE requests[t].phase
        /\ \A t \in Slots : ~requests[t].heard => requests'[t] \in {requests[t], None}
        /\ \A t \in Slots : requests'[t].heard <=> requests[t].heard
    BY <2>1, ServeKeepsSlots
  <2>3. QED
    BY <2>2 DEF LeftBehind
<1>9. ASSUME NEW s \in Slots, Answered(s)
      PROVE  LeftBehind'
  BY <1>9, NoneFacts DEF Answered, Succeeds, Fails, StarRollback, LookupFinally, ScanCatch, ReloadTimer, PageArrives, Missed, LeftBehind, Fresh, Changes, OnTheWay, server, buttons, scroll, TypeOK, Requests
<1>10. ASSUME NEW s \in Slots, Lost(s)
      PROVE  LeftBehind'
  BY <1>10, NoneFacts DEF Lost, Fails, StarRollback, LookupFinally, ScanCatch, Missed, Unheard, LeftBehind, Fresh, Changes, OnTheWay, server, buttons, scroll, TypeOK, Requests
<1>11. CASE UNCHANGED vars
  BY <1>11, NoneFacts DEF vars, LeftBehind, Fresh, Changes, OnTheWay, server, buttons, scroll, TypeOK, Requests
<1>12. QED
  BY <1>1, <1>2, <1>3, <1>4, <1>5, <1>6, <1>7, <1>8, <1>9, <1>10, <1>11 DEF Next, User, Reload

\* The star keeps to the one request about it.
LEMMA StarStep == IInv /\ [Next]_vars => StarFollows'
<1> SUFFICES ASSUME IInv, [Next]_vars PROVE StarFollows'
  OBVIOUS
<1> USE DEF IInv
<1>1. CASE ClickStar
  <2>1. PICK s \in Slots : /\ requests[s] = None
                           /\ requests' = [requests EXCEPT ![s] = Fresh(IF starShown THEN "unstar" ELSE "star", 0)]
    BY <1>1, SendTakesFreeSlot DEF ClickStar
  <2>2. QED
    BY <1>1, NoneFacts, <2>1 DEF ClickStar, StarFollows, Alone, Fresh, Changes, OnTheWay, server, buttons, scroll, TypeOK, Requests
<1>2. ASSUME NEW call \in {"start", "stop"}, ClickMount(call)
      PROVE  StarFollows'
  <2>1. PICK s \in Slots : /\ requests[s] = None
                           /\ requests' = [requests EXCEPT ![s] = Fresh(call, 0)]
    BY <1>2, SendTakesFreeSlot DEF ClickMount
  <2>2. QED
    BY <1>2, NoneFacts, <2>1 DEF ClickMount, StarFollows, Alone, Fresh, Changes, OnTheWay, server, buttons, scroll, TypeOK, Requests
<1>3. CASE ClickLookup
  <2>1. PICK s \in Slots : /\ requests[s] = None
                           /\ requests' = [requests EXCEPT ![s] = Fresh("lookup", 0)]
    BY <1>3, SendTakesFreeSlot DEF ClickLookup
  <2>2. QED
    BY <1>3, NoneFacts, <2>1 DEF ClickLookup, StarFollows, Alone, Fresh, Changes, OnTheWay, server, buttons, scroll, TypeOK, Requests
<1>4. CASE ClickScan
  <2>1. PICK s \in Slots : /\ requests[s] = None
                           /\ requests' = [requests EXCEPT ![s] = Fresh("scan", 0)]
    BY <1>4, SendTakesFreeSlot DEF ClickScan
  <2>2. QED
    BY <1>4, NoneFacts, <2>1 DEF ClickScan, StarFollows, Alone, Fresh, Changes, OnTheWay, server, buttons, scroll, TypeOK, Requests
<1>5. CASE ScrollIn
  <2>1. CASE nextUrl = 0
    BY <1>5, NoneFacts, <2>1 DEF ScrollIn, StarFollows, Alone, Fresh, Changes, OnTheWay, server, buttons, scroll, TypeOK, Requests
  <2>2. CASE nextUrl # 0
    <3>1. PICK s \in Slots : /\ requests[s] = None
                             /\ requests' = [requests EXCEPT ![s] = Fresh("more", nextUrl)]
      BY <1>5, <2>2, SendTakesFreeSlot DEF ScrollIn
    <3>2. QED
      BY <1>5, NoneFacts, <2>2, <3>1 DEF ScrollIn, StarFollows, Alone, Fresh, Changes, OnTheWay, server, buttons, scroll, TypeOK, Requests
  <2>3. QED
    BY <2>1, <2>2
<1>6. CASE ScrollOut
  BY <1>6, NoneFacts DEF ScrollOut, StarFollows, Alone, Fresh, Changes, OnTheWay, server, buttons, scroll, TypeOK, Requests
<1>7. CASE Load
  BY <1>7, NoneFacts, PagesAssumption DEF Load, Rendered, Unheard, StarFollows, Alone, Fresh, Changes, OnTheWay, server, buttons, scroll, TypeOK, Requests
<1>8. ASSUME NEW s \in Slots, Serve(s)
      PROVE  StarFollows'
  <2>1. PICK phase \in {"done", "refused"} : ServedAs(s, phase)
    BY <1>8, ServeFacts
  <2>2. /\ \A calls : OnTheWay(calls)' = OnTheWay(calls)
        /\ \A t \in Slots : requests[t].heard =>
             /\ requests'[t].call = requests[t].call
             /\ requests'[t].page = requests[t].page
             /\ requests'[t].phase = IF t = s THEN phase ELSE requests[t].phase
        /\ \A t \in Slots : ~requests[t].heard => requests'[t] \in {requests[t], None}
        /\ \A t \in Slots : requests'[t].heard <=> requests[t].heard
    BY <2>1, ServeKeepsSlots
  <2>3. SUFFICES ASSUME "unsure" \notin doubt' PROVE StarFollows'
    BY DEF StarFollows
  <2>4. "unsure" \notin doubt /\ requests[s].heard
    BY <2>1, <2>3 DEF ServedAs, MountFollows
  <2>5. CASE s \in OnTheWay({"star", "unstar"})
    <3>1. starShown' = starShown /\ starred' = (IF phase = "done" THEN starShown ELSE starred)
      BY <2>1, <2>4, <2>5, EffectFacts DEF ServedAs, StarFollows, OnTheWay, TypeOK
    <3>2. QED
      BY <2>1, <2>2, <2>4, <2>5, <3>1 DEF ServedAs, StarFollows, Alone, OnTheWay, TypeOK
  <2>6. CASE s \notin OnTheWay({"star", "unstar"})
    <3>1. starShown' = starShown /\ starred' = starred
      BY <2>1, <2>4, <2>6, EffectFacts DEF ServedAs, OnTheWay
    <3>2. QED
      BY <2>2, <2>4, <2>6, <3>1 DEF StarFollows, Alone, OnTheWay
  <2>7. QED
    BY <2>5, <2>6
<1>9. ASSUME NEW s \in Slots, Answered(s)
      PROVE  StarFollows'
  <2>1. /\ \A calls : OnTheWay(calls)' = OnTheWay(calls) \ {s}
        /\ \A t \in Slots : t # s => requests'[t] = requests[t]
        /\ requests[s].heard /\ starred' = starred /\ doubt \subseteq doubt'
    BY <1>9, AnsweredSlot DEF Answered, server
  <2>2. CASE s \in OnTheWay({"star", "unstar"})
    <3>1. "unsure" \notin doubt => starShown' = starred'
      <4>1. CASE requests[s].phase = "done"
        BY <1>9, <2>1, <2>2, <4>1 DEF Answered, Succeeds, StarFollows
      <4>2. CASE requests[s].phase = "refused" /\ requests[s].call = "star"
        <5>1. starShown' = FALSE
          BY <1>9, <4>2 DEF Answered, Fails, StarRollback
        <5>2. "unsure" \notin doubt => starred = FALSE
          BY <2>2, <4>2 DEF StarFollows, TypeOK
        <5>3. QED
          BY <2>1, <5>1, <5>2
      <4>3. CASE requests[s].phase = "refused" /\ requests[s].call = "unstar"
        <5>1. starShown' = TRUE
          BY <1>9, <4>3 DEF Answered, Fails, StarRollback
        <5>2. "unsure" \notin doubt => starred = TRUE
          BY <2>2, <4>3 DEF StarFollows, TypeOK
        <5>3. QED
          BY <2>1, <5>1, <5>2
      <4>4. QED
        BY <1>9, <2>2, <4>1, <4>2, <4>3 DEF Answered, OnTheWay
    <3>2. QED
      BY <2>1, <2>2, <3>1 DEF StarFollows, Alone
  <2>3. CASE s \notin OnTheWay({"star", "unstar"})
    <3>1. starShown' = starShown
      BY <1>9, <2>1, <2>3 DEF Answered, Succeeds, Fails, StarRollback, OnTheWay
    <3>2. QED
      BY <2>1, <2>3, <3>1 DEF StarFollows, Alone, OnTheWay
  <2>4. QED
    BY <2>2, <2>3
<1>10. ASSUME NEW s \in Slots, Lost(s)
      PROVE  StarFollows'
  <2>1. /\ \A calls : OnTheWay(calls)' = OnTheWay(calls) \ {s}
        /\ \A t \in Slots : t # s => requests'[t] = requests[t]
    BY <1>10, LostSlot
  <2>2. SUFFICES ASSUME "unsure" \notin doubt' PROVE StarFollows'
    BY DEF StarFollows
  <2>3. "unsure" \notin doubt /\ requests[s].call \notin Changes
    BY <1>10, <2>2 DEF Lost
  <2>4. s \notin OnTheWay({"star", "unstar"})
    BY <2>3 DEF OnTheWay, Changes
  <2>5. starShown' = starShown /\ starred' = starred
    BY <1>10, <2>3 DEF Lost, Fails, StarRollback, Changes, server
  <2>6. QED
    BY <2>1, <2>3, <2>4, <2>5 DEF StarFollows, Alone, OnTheWay
<1>11. CASE UNCHANGED vars
  BY <1>11, NoneFacts DEF vars, StarFollows, Alone, Fresh, Changes, OnTheWay, server, buttons, scroll, TypeOK, Requests
<1>12. QED
  BY <1>1, <1>2, <1>3, <1>4, <1>5, <1>6, <1>7, <1>8, <1>9, <1>10, <1>11 DEF Next, User, Reload

\* The mount shown is left stale by a start or stop that was carried out, and by nothing else.
LEMMA MountStep == IInv /\ [Next]_vars => MountFollows'
<1> SUFFICES ASSUME IInv, [Next]_vars PROVE MountFollows'
  OBVIOUS
<1> USE DEF IInv
<1>1. CASE ClickStar
  <2>1. PICK s \in Slots : /\ requests[s] = None
                           /\ requests' = [requests EXCEPT ![s] = Fresh(IF starShown THEN "unstar" ELSE "star", 0)]
    BY <1>1, SendTakesFreeSlot DEF ClickStar
  <2>2. QED
    BY <1>1, NoneFacts, <2>1 DEF ClickStar, MountFollows, Fresh, Changes, OnTheWay, server, buttons, scroll, TypeOK, Requests
<1>2. ASSUME NEW call \in {"start", "stop"}, ClickMount(call)
      PROVE  MountFollows'
  <2>1. PICK s \in Slots : /\ requests[s] = None
                           /\ requests' = [requests EXCEPT ![s] = Fresh(call, 0)]
    BY <1>2, SendTakesFreeSlot DEF ClickMount
  <2>2. QED
    BY <1>2, NoneFacts, <2>1 DEF ClickMount, MountFollows, Fresh, Changes, OnTheWay, server, buttons, scroll, TypeOK, Requests
<1>3. CASE ClickLookup
  <2>1. PICK s \in Slots : /\ requests[s] = None
                           /\ requests' = [requests EXCEPT ![s] = Fresh("lookup", 0)]
    BY <1>3, SendTakesFreeSlot DEF ClickLookup
  <2>2. QED
    BY <1>3, NoneFacts, <2>1 DEF ClickLookup, MountFollows, Fresh, Changes, OnTheWay, server, buttons, scroll, TypeOK, Requests
<1>4. CASE ClickScan
  <2>1. PICK s \in Slots : /\ requests[s] = None
                           /\ requests' = [requests EXCEPT ![s] = Fresh("scan", 0)]
    BY <1>4, SendTakesFreeSlot DEF ClickScan
  <2>2. QED
    BY <1>4, NoneFacts, <2>1 DEF ClickScan, MountFollows, Fresh, Changes, OnTheWay, server, buttons, scroll, TypeOK, Requests
<1>5. CASE ScrollIn
  <2>1. CASE nextUrl = 0
    BY <1>5, NoneFacts, <2>1 DEF ScrollIn, MountFollows, Fresh, Changes, OnTheWay, server, buttons, scroll, TypeOK, Requests
  <2>2. CASE nextUrl # 0
    <3>1. PICK s \in Slots : /\ requests[s] = None
                             /\ requests' = [requests EXCEPT ![s] = Fresh("more", nextUrl)]
      BY <1>5, <2>2, SendTakesFreeSlot DEF ScrollIn
    <3>2. QED
      BY <1>5, NoneFacts, <2>2, <3>1 DEF ScrollIn, MountFollows, Fresh, Changes, OnTheWay, server, buttons, scroll, TypeOK, Requests
  <2>3. QED
    BY <2>1, <2>2
<1>6. CASE ScrollOut
  BY <1>6, NoneFacts DEF ScrollOut, MountFollows, Fresh, Changes, OnTheWay, server, buttons, scroll, TypeOK, Requests
<1>7. CASE Load
  BY <1>7, NoneFacts, PagesAssumption DEF Load, Rendered, Unheard, MountFollows, Fresh, Changes, OnTheWay, server, buttons, scroll, TypeOK, Requests
<1>8. ASSUME NEW s \in Slots, Serve(s)
      PROVE  MountFollows'
  <2>1. PICK phase \in {"done", "refused"} : ServedAs(s, phase)
    BY <1>8, ServeFacts
  <2>2. /\ \A calls : OnTheWay(calls)' = OnTheWay(calls)
        /\ \A t \in Slots : requests[t].heard =>
             /\ requests'[t].call = requests[t].call
             /\ requests'[t].page = requests[t].page
             /\ requests'[t].phase = IF t = s THEN phase ELSE requests[t].phase
        /\ \A t \in Slots : ~requests[t].heard => requests'[t] \in {requests[t], None}
        /\ \A t \in Slots : requests'[t].heard <=> requests[t].heard
    BY <2>1, ServeKeepsSlots
  <2>3. SUFFICES ASSUME "unsure" \notin doubt' PROVE MountFollows'
    BY DEF MountFollows
  <2>4. "unsure" \notin doubt /\ requests[s].heard
    BY <2>1, <2>3 DEF ServedAs, MountFollows
  <2>5. mountShown' = mountShown /\ reloadDue' = reloadDue
    BY <2>1 DEF ServedAs
  <2>6. \A t \in Slots : ~requests'[t].heard => requests'[t] = None
    BY <2>2, <2>4 DEF MountFollows
  <2>7. CASE s \in OnTheWay({"start", "stop"}) /\ phase = "done"
    BY <2>2, <2>4, <2>6, <2>7 DEF MountFollows, OnTheWay
  <2>8. CASE s \notin OnTheWay({"start", "stop"}) \/ phase = "refused"
    <3>1. enabled' = enabled
      BY <2>1, <2>3, <2>4, <2>8, EffectFacts DEF ServedAs, OnTheWay
    <3>2. QED
      BY <2>1, <2>2, <2>4, <2>5, <2>6, <2>8, <3>1 DEF ServedAs, MountFollows, OnTheWay
  <2>9. QED
    BY <2>7, <2>8
<1>9. ASSUME NEW s \in Slots, Answered(s)
      PROVE  MountFollows'
  <2>1. /\ \A calls : OnTheWay(calls)' = OnTheWay(calls) \ {s}
        /\ \A t \in Slots : t # s => requests'[t] = requests[t]
        /\ requests'[s] = None /\ requests[s].heard
        /\ doubt \subseteq doubt' /\ enabled' = enabled /\ mountShown' = mountShown
    BY <1>9, AnsweredSlot DEF Answered, server
  <2>2. reloadDue => reloadDue'
    BY <1>9 DEF Answered, Succeeds, Fails, ReloadTimer
  <2>3. s \in OnTheWay({"start", "stop"}) /\ requests[s].phase = "done" => reloadDue'
    BY <1>9 DEF Answered, Succeeds, ReloadTimer, OnTheWay
  <2>4. QED
    BY <2>1, <2>2, <2>3 DEF MountFollows, OnTheWay
<1>10. ASSUME NEW s \in Slots, Lost(s)
      PROVE  MountFollows'
  BY <1>10, NoneFacts DEF Lost, Fails, StarRollback, LookupFinally, ScanCatch, Missed, Unheard, MountFollows, Fresh, Changes, OnTheWay, server, buttons, scroll, TypeOK, Requests
<1>11. CASE UNCHANGED vars
  BY <1>11, NoneFacts DEF vars, MountFollows, Fresh, Changes, OnTheWay, server, buttons, scroll, TypeOK, Requests
<1>12. QED
  BY <1>1, <1>2, <1>3, <1>4, <1>5, <1>6, <1>7, <1>8, <1>9, <1>10, <1>11 DEF Next, User, Reload

\* The grid and the page to follow keep in step.
LEMMA GridStep == IInv /\ [Next]_vars => (NextPage /\ GridInOrder)'
<1> SUFFICES ASSUME IInv, [Next]_vars PROVE (NextPage /\ GridInOrder)'
  OBVIOUS
<1> USE DEF IInv
<1>1. CASE ClickStar
  <2>1. PICK s \in Slots : /\ requests[s] = None
                           /\ requests' = [requests EXCEPT ![s] = Fresh(IF starShown THEN "unstar" ELSE "star", 0)]
    BY <1>1, SendTakesFreeSlot DEF ClickStar
  <2>2. QED
    BY <1>1, NoneFacts, <2>1 DEF ClickStar, NextPage, GridInOrder, Alone, Fresh, Changes, OnTheWay, server, buttons, scroll, TypeOK, Requests
<1>2. ASSUME NEW call \in {"start", "stop"}, ClickMount(call)
      PROVE  (NextPage /\ GridInOrder)'
  <2>1. PICK s \in Slots : /\ requests[s] = None
                           /\ requests' = [requests EXCEPT ![s] = Fresh(call, 0)]
    BY <1>2, SendTakesFreeSlot DEF ClickMount
  <2>2. QED
    BY <1>2, NoneFacts, <2>1 DEF ClickMount, NextPage, GridInOrder, Alone, Fresh, Changes, OnTheWay, server, buttons, scroll, TypeOK, Requests
<1>3. CASE ClickLookup
  <2>1. PICK s \in Slots : /\ requests[s] = None
                           /\ requests' = [requests EXCEPT ![s] = Fresh("lookup", 0)]
    BY <1>3, SendTakesFreeSlot DEF ClickLookup
  <2>2. QED
    BY <1>3, NoneFacts, <2>1 DEF ClickLookup, NextPage, GridInOrder, Alone, Fresh, Changes, OnTheWay, server, buttons, scroll, TypeOK, Requests
<1>4. CASE ClickScan
  <2>1. PICK s \in Slots : /\ requests[s] = None
                           /\ requests' = [requests EXCEPT ![s] = Fresh("scan", 0)]
    BY <1>4, SendTakesFreeSlot DEF ClickScan
  <2>2. QED
    BY <1>4, NoneFacts, <2>1 DEF ClickScan, NextPage, GridInOrder, Alone, Fresh, Changes, OnTheWay, server, buttons, scroll, TypeOK, Requests
<1>5. CASE ScrollIn
  <2>1. CASE nextUrl = 0
    BY <1>5, NoneFacts, <2>1 DEF ScrollIn, NextPage, GridInOrder, Alone, Fresh, Changes, OnTheWay, server, buttons, scroll, TypeOK, Requests
  <2>2. CASE nextUrl # 0
    <3>1. PICK s \in Slots : /\ requests[s] = None
                             /\ requests' = [requests EXCEPT ![s] = Fresh("more", nextUrl)]
      BY <1>5, <2>2, SendTakesFreeSlot DEF ScrollIn
    <3>2. QED
      BY <1>5, NoneFacts, <2>2, <3>1 DEF ScrollIn, NextPage, GridInOrder, Alone, Fresh, Changes, OnTheWay, server, buttons, scroll, TypeOK, Requests
  <2>3. QED
    BY <2>1, <2>2
<1>6. CASE ScrollOut
  BY <1>6, NoneFacts DEF ScrollOut, NextPage, GridInOrder, Alone, Fresh, Changes, OnTheWay, server, buttons, scroll, TypeOK, Requests
<1>7. CASE Load
  BY <1>7, NoneFacts, PagesAssumption DEF Load, Rendered, Unheard, NextPage, GridInOrder, Alone, Fresh, Changes, OnTheWay, server, buttons, scroll, TypeOK, Requests
<1>8. ASSUME NEW s \in Slots, Serve(s)
      PROVE  (NextPage /\ GridInOrder)'
  <2>1. PICK phase \in {"done", "refused"} : ServedAs(s, phase)
    BY <1>8, ServeFacts
  <2>2. /\ \A calls : OnTheWay(calls)' = OnTheWay(calls)
        /\ \A t \in Slots : requests[t].heard =>
             /\ requests'[t].call = requests[t].call
             /\ requests'[t].page = requests[t].page
             /\ requests'[t].phase = IF t = s THEN phase ELSE requests[t].phase
        /\ \A t \in Slots : ~requests[t].heard => requests'[t] \in {requests[t], None}
        /\ \A t \in Slots : requests'[t].heard <=> requests[t].heard
    BY <2>1, ServeKeepsSlots
  <2>3. QED
    BY <2>1, <2>2 DEF ServedAs, NextPage, GridInOrder, Alone, OnTheWay
<1>9. ASSUME NEW s \in Slots, Answered(s)
      PROVE  (NextPage /\ GridInOrder)'
  <2>1. /\ \A calls : OnTheWay(calls)' = OnTheWay(calls) \ {s}
        /\ \A t \in Slots : t # s => requests'[t] = requests[t]
        /\ requests[s].heard
    BY <1>9, AnsweredSlot DEF Answered
  <2>2. CASE requests[s].call = "more" /\ requests[s].phase = "done"
    <3>1. /\ grid' = Append(grid, requests[s].page)
          /\ nextUrl' = IF requests[s].page < Pages THEN requests[s].page + 1 ELSE nextUrl
      BY <1>9, <2>2 DEF Answered, Succeeds, PageArrives
    <3>2. requests[s].page = Len(grid) + 1 /\ nextUrl = 0 /\ OnTheWay({"more"}) = {s}
      BY <2>1, <2>2 DEF NextPage, Alone, OnTheWay
    <3>3. OnTheWay({"more"})' = {}
      BY <2>1, <3>2
    <3>4. Len(grid') = Len(grid) + 1 /\ \A i \in 1..Len(grid') : grid'[i] = i
      BY <3>1, <3>2 DEF GridInOrder, TypeOK
    <3>5. nextUrl' # 0 => nextUrl' = Len(grid') + 1
      BY <3>1, <3>2, <3>4 DEF TypeOK
    <3>6. QED
      BY <3>3, <3>4, <3>5 DEF NextPage, GridInOrder, Alone
  <2>3. CASE ~(requests[s].call = "more" /\ requests[s].phase = "done")
    <3>1. grid' = grid /\ nextUrl' = nextUrl
      BY <1>9, <2>3 DEF Answered, Succeeds, Fails, PageArrives
    <3>2. QED
      BY <2>1, <3>1 DEF NextPage, GridInOrder, Alone, OnTheWay
  <2>4. QED
    BY <2>2, <2>3
<1>10. ASSUME NEW s \in Slots, Lost(s)
      PROVE  (NextPage /\ GridInOrder)'
  BY <1>10, NoneFacts DEF Lost, Fails, StarRollback, LookupFinally, ScanCatch, Missed, Unheard, NextPage, GridInOrder, Alone, Fresh, Changes, OnTheWay, server, buttons, scroll, TypeOK, Requests
<1>11. CASE UNCHANGED vars
  BY <1>11, NoneFacts DEF vars, NextPage, GridInOrder, Alone, Fresh, Changes, OnTheWay, server, buttons, scroll, TypeOK, Requests
<1>12. QED
  BY <1>1, <1>2, <1>3, <1>4, <1>5, <1>6, <1>7, <1>8, <1>9, <1>10, <1>11 DEF Next, User, Reload

\* A button is disabled and enabled again with the request behind it.
LEMMA ButtonsStep == IInv /\ [Next]_vars => (OneScan /\ ButtonsHold)'
<1> SUFFICES ASSUME IInv, [Next]_vars PROVE (OneScan /\ ButtonsHold)'
  OBVIOUS
<1> USE DEF IInv
<1>1. CASE ClickStar
  <2>1. PICK s \in Slots : /\ requests[s] = None
                           /\ requests' = [requests EXCEPT ![s] = Fresh(IF starShown THEN "unstar" ELSE "star", 0)]
    BY <1>1, SendTakesFreeSlot DEF ClickStar
  <2>2. QED
    BY <1>1, NoneFacts, <2>1 DEF ClickStar, OneScan, ButtonsHold, Alone, Fresh, Changes, OnTheWay, server, buttons, scroll, TypeOK, Requests
<1>2. ASSUME NEW call \in {"start", "stop"}, ClickMount(call)
      PROVE  (OneScan /\ ButtonsHold)'
  <2>1. PICK s \in Slots : /\ requests[s] = None
                           /\ requests' = [requests EXCEPT ![s] = Fresh(call, 0)]
    BY <1>2, SendTakesFreeSlot DEF ClickMount
  <2>2. QED
    BY <1>2, NoneFacts, <2>1 DEF ClickMount, OneScan, ButtonsHold, Alone, Fresh, Changes, OnTheWay, server, buttons, scroll, TypeOK, Requests
<1>3. CASE ClickLookup
  <2>1. PICK s \in Slots : /\ requests[s] = None
                           /\ requests' = [requests EXCEPT ![s] = Fresh("lookup", 0)]
    BY <1>3, SendTakesFreeSlot DEF ClickLookup
  <2>2. QED
    BY <1>3, NoneFacts, <2>1 DEF ClickLookup, OneScan, ButtonsHold, Alone, Fresh, Changes, OnTheWay, server, buttons, scroll, TypeOK, Requests
<1>4. CASE ClickScan
  <2>1. PICK s \in Slots : /\ requests[s] = None
                           /\ requests' = [requests EXCEPT ![s] = Fresh("scan", 0)]
    BY <1>4, SendTakesFreeSlot DEF ClickScan
  <2>2. QED
    BY <1>4, NoneFacts, <2>1 DEF ClickScan, OneScan, ButtonsHold, Alone, Fresh, Changes, OnTheWay, server, buttons, scroll, TypeOK, Requests
<1>5. CASE ScrollIn
  <2>1. CASE nextUrl = 0
    BY <1>5, NoneFacts, <2>1 DEF ScrollIn, OneScan, ButtonsHold, Alone, Fresh, Changes, OnTheWay, server, buttons, scroll, TypeOK, Requests
  <2>2. CASE nextUrl # 0
    <3>1. PICK s \in Slots : /\ requests[s] = None
                             /\ requests' = [requests EXCEPT ![s] = Fresh("more", nextUrl)]
      BY <1>5, <2>2, SendTakesFreeSlot DEF ScrollIn
    <3>2. QED
      BY <1>5, NoneFacts, <2>2, <3>1 DEF ScrollIn, OneScan, ButtonsHold, Alone, Fresh, Changes, OnTheWay, server, buttons, scroll, TypeOK, Requests
  <2>3. QED
    BY <2>1, <2>2
<1>6. CASE ScrollOut
  BY <1>6, NoneFacts DEF ScrollOut, OneScan, ButtonsHold, Alone, Fresh, Changes, OnTheWay, server, buttons, scroll, TypeOK, Requests
<1>7. CASE Load
  <2>1. \A s \in Slots : ~requests'[s].heard
    BY <1>7, NoneFacts DEF Load, Unheard, TypeOK, Requests
  <2>2. \A calls : OnTheWay(calls)' = {}
    BY <2>1 DEF OnTheWay
  <2>3. ~lookupDisabled' /\ ~scanDisabled' /\ scans' = 0
    BY <1>7 DEF Load, Rendered
  <2>4. QED
    BY <2>2, <2>3 DEF OneScan, ButtonsHold, Alone
<1>8. ASSUME NEW s \in Slots, Serve(s)
      PROVE  (OneScan /\ ButtonsHold)'
  <2>1. PICK phase \in {"done", "refused"} : ServedAs(s, phase)
    BY <1>8, ServeFacts
  <2>2. /\ \A calls : OnTheWay(calls)' = OnTheWay(calls)
        /\ \A t \in Slots : requests[t].heard =>
             /\ requests'[t].call = requests[t].call
             /\ requests'[t].page = requests[t].page
             /\ requests'[t].phase = IF t = s THEN phase ELSE requests[t].phase
        /\ \A t \in Slots : ~requests[t].heard => requests'[t] \in {requests[t], None}
        /\ \A t \in Slots : requests'[t].heard <=> requests[t].heard
    BY <2>1, ServeKeepsSlots
  <2>3. lookupDisabled' = lookupDisabled /\ scanDisabled' = scanDisabled
    BY <2>1 DEF ServedAs
  <2>4. CASE s \in OnTheWay({"scan"}) /\ phase = "done"
    <3>1. scans = 0 /\ scans' = scans + 1
      BY <2>1, <2>4, EffectFacts DEF ServedAs, OnTheWay, OneScan
    <3>2. \A t \in OnTheWay({"scan"})' : t = s /\ requests'[t].phase = "done"
      BY <2>2, <2>4 DEF OneScan, Alone, OnTheWay
    <3>3. OneScan'
      BY <2>2, <3>1, <3>2 DEF OneScan, Alone
    <3>4. QED
      BY <2>2, <2>3, <2>4, <3>1, <3>3 DEF ButtonsHold
  <2>5. CASE s \notin OnTheWay({"scan"}) \/ phase = "refused"
    <3>1. scans' = scans
      BY <2>1, <2>5, EffectFacts DEF ServedAs, OnTheWay, LeftBehind, Changes
    <3>2. \A t \in OnTheWay({"scan"}) : requests'[t].phase = "done" <=> requests[t].phase = "done"
      BY <2>1, <2>2, <2>5 DEF ServedAs, OnTheWay
    <3>3. QED
      BY <2>2, <2>3, <3>1, <3>2 DEF OneScan, ButtonsHold, Alone
  <2>6. QED
    BY <2>4, <2>5
<1>9. ASSUME NEW s \in Slots, Answered(s)
      PROVE  (OneScan /\ ButtonsHold)'
  <2>1. /\ \A calls : OnTheWay(calls)' = OnTheWay(calls) \ {s}
        /\ \A t \in Slots : t # s => requests'[t] = requests[t]
        /\ requests[s].heard /\ scans' = scans
    BY <1>9, AnsweredSlot DEF Answered
  <2>2. OneScan'
    <3>1. \A t \in OnTheWay({"scan"})' : t \in OnTheWay({"scan"}) /\ requests'[t] = requests[t]
      BY <2>1 DEF OnTheWay
    <3>2. QED
      BY <2>1, <3>1 DEF OneScan, Alone
  <2>3. lookupDisabled' <=> OnTheWay({"lookup"})' # {}
    <3>1. lookupDisabled' <=> lookupDisabled /\ s \notin OnTheWay({"lookup"})
      BY <1>9 DEF Answered, Succeeds, Fails, LookupFinally, OnTheWay
    <3>2. QED
      BY <2>1, <3>1 DEF OneScan, ButtonsHold, Alone
  <2>4. scanDisabled' <=> OnTheWay({"scan"})' # {} \/ scans' > 0
    <3>1. CASE s \in OnTheWay({"scan"})
      <4>1. CASE requests[s].phase = "done"
        BY <1>9, <2>1, <3>1, <4>1 DEF Answered, Succeeds, OneScan, ButtonsHold
      <4>2. CASE requests[s].phase = "refused"
        <5>1. ~scanDisabled'
          BY <1>9, <3>1, <4>2 DEF Answered, Fails, ScanCatch, OnTheWay
        <5>2. scans = 0 /\ OnTheWay({"scan"})' = {}
          BY <2>1, <3>1, <4>2 DEF OneScan, Alone
        <5>3. QED
          BY <2>1, <5>1, <5>2
      <4>3. QED
        BY <1>9, <4>1, <4>2 DEF Answered
    <3>2. CASE s \notin OnTheWay({"scan"})
      <4>1. scanDisabled' <=> scanDisabled
        <5>1. requests[s].call # "scan"
          BY <2>1, <3>2 DEF OnTheWay
        <5>2. QED
          <6>1. CASE Succeeds(requests[s])
            BY <6>1 DEF Succeeds
          <6>2. CASE ScanCatch(requests[s])
            BY <5>1, <6>2 DEF ScanCatch
          <6>3. QED
            BY <1>9, <6>1, <6>2 DEF Answered, Fails
      <4>2. QED
        BY <2>1, <3>2, <4>1 DEF ButtonsHold
    <3>3. QED
      BY <3>1, <3>2
  <2>5. QED
    BY <2>1, <2>2, <2>3, <2>4 DEF ButtonsHold
<1>10. ASSUME NEW s \in Slots, Lost(s)
      PROVE  (OneScan /\ ButtonsHold)'
  <2>3. /\ \A calls : OnTheWay(calls)' = OnTheWay(calls) \ {s}
        /\ \A t \in Slots : t # s => requests'[t] = requests[t]
    BY <1>10, LostSlot
  <2>4. requests[s].heard
    BY <1>10 DEF Lost
  <2>5. lookupDisabled' <=> OnTheWay({"lookup"})' # {}
    <3>1. lookupDisabled' <=> lookupDisabled /\ s \notin OnTheWay({"lookup"})
      BY <1>10, <2>4 DEF Lost, Fails, LookupFinally, OnTheWay
    <3>2. QED
      BY <2>3, <3>1 DEF OneScan, ButtonsHold, Alone
  <2>6. CASE s \in OnTheWay({"scan"})
    <3>1. ~scanDisabled' /\ scans' = 0
      BY <1>10, <2>6 DEF Lost, Fails, ScanCatch, OnTheWay
    <3>2. OnTheWay({"scan"})' = {}
      BY <2>3, <2>6 DEF OneScan, Alone
    <3>3. QED
      BY <2>3, <2>5, <3>1, <3>2 DEF OneScan, ButtonsHold, Alone
  <2>7. CASE s \notin OnTheWay({"scan"})
    <3>1. (scanDisabled' <=> scanDisabled) /\ scans' = scans
      BY <1>10, <2>4, <2>7 DEF Lost, Fails, ScanCatch, OnTheWay
    <3>2. \A t \in OnTheWay({"scan"}) : requests'[t] = requests[t]
      BY <2>3, <2>7 DEF OnTheWay
    <3>3. QED
      BY <2>3, <2>5, <2>7, <3>1, <3>2 DEF OneScan, ButtonsHold, Alone
  <2>8. QED
    BY <2>6, <2>7
<1>11. CASE UNCHANGED vars
  BY <1>11, NoneFacts DEF vars, OneScan, ButtonsHold, Alone, Fresh, Changes, OnTheWay, server, buttons, scroll, TypeOK, Requests
<1>12. QED
  BY <1>1, <1>2, <1>3, <1>4, <1>5, <1>6, <1>7, <1>8, <1>9, <1>10, <1>11 DEF Next, User, Reload

\* The inductive step.
LEMMA IInvStep == IInv /\ [Next]_vars => IInv'
BY TypeOKStep, LeftBehindStep, StarStep, MountStep, GridStep, ButtonsStep DEF IInv

\* The inductive invariant of the page and its requests.
THEOREM PageInvariant == Spec => []IInv
<1>1. Init => IInv
  BY InitInv
<1>2. IInv /\ [Next]_vars => IInv'
  BY IInvStep
<1>3. QED
  BY <1>1, <1>2, PTL DEF Spec

\* Once everything asked for is answered, the star and the mount shown are the
\* server's (initStarButtons, initIcecastControls).
THEOREM PageAgreesAlways == Spec => []PageAgrees
<1>1. IInv => PageAgrees
  <2>1. OnTheWay({"star", "unstar"}) \subseteq OnTheWay(Changes)
    BY DEF OnTheWay, Changes
  <2>2. OnTheWay({"start", "stop"}) \subseteq OnTheWay(Changes)
    BY DEF OnTheWay, Changes
  <2>3. QED
    BY <2>1, <2>2 DEF IInv, PageAgrees, StarFollows, MountFollows
<1>2. QED
  BY <1>1, PageInvariant, PTL

\* The grid holds the first pages in order, however the user scrolls while one
\* is fetched (initInfiniteScroll).
THEOREM GridInOrderAlways == Spec => []GridInOrder
<1>1. IInv => GridInOrder
  BY DEF IInv
<1>2. QED
  BY <1>1, PageInvariant, PTL

\* A disabled button has its reason, and no page starts a second scan
\* (initMusicBrainzLookup, initScanButtons).
THEOREM ButtonsHoldAlways == Spec => []ButtonsHold
<1>1. IInv => ButtonsHold
  BY DEF IInv
<1>2. QED
  BY <1>1, PageInvariant, PTL
=============================================================================
