----------------------------- MODULE LiveOrders -----------------------------
(***************************************************************************)
(* The open orders on the POS screen: the query cache of useOpenOrders,    *)
(* kept fresh by the workstation's WebSocket while there is a live channel *)
(* and by polling while there is none, and the tab strip useTabSync keeps  *)
(* in step with it, against the hub and the handlers that broadcast.       *)
(*                                                                         *)
(* A handler commits, then broadcasts, then answers; handlers of several   *)
(* clients interleave.  A client is greeted before the hub registers it.   *)
(* A fetch reads the orders some time before its answer is there.  Left    *)
(* out: the detail, takeaway, table and split-bill queries, order codes    *)
(* and item states, Cloud (the mode is "workstation": what cannot reach    *)
(* the workstation fails), and a half-open connection (a closed one is     *)
(* noticed).                                                               *)
(***************************************************************************)
EXTENDS Integers, Sequences

CONSTANTS
  Orders,
  NoOrder,
  MaxChanges,  \* bound: how many times an order is created or changed
  MaxBreaks,   \* bound: how often the channel or a fetch breaks
  Buffer       \* the capacity of Client.send

ASSUME LiveOrdersAssumption ==
  /\ NoOrder \notin Orders
  /\ MaxChanges \in Nat /\ MaxBreaks \in Nat /\ Buffer \in Nat \ {0}

VARIABLES
  server,     \* the orders at the workstation; version 0: there is none yet
  changes,    \* how many times they were created or changed
  handlers,   \* what is committed and not yet broadcast
  answers,    \* the till's own requests that are broadcast and not yet answered
  socket,     \* the hub's side: "down" | "greeted" | "registered" | "broken"
  wire,       \* the frames written for this client and not yet handled
  reachable,  \* lanChannelEligible
  connected,  \* isConnected
  loaded,     \* the list has data
  list,       \* its data: open order -> version shown
  fetch,      \* the list's fetch: "none", "asked", or what it has read
  tabs, active,
  dialog,     \* the money dialog or the receipt, and the order it is over
  astray,     \* a history: since the list was read, something happened that
              \* nothing will repair
  breaks

shop == <<server, changes>>
till == <<tabs, active, dialog>>
cache == <<loaded, list, fetch, astray>>
channel == <<socket, wire, reachable, connected>>
vars == <<shop, handlers, answers, channel, cache, till, breaks>>

OpenOrders == [o \in {p \in Orders : server[p].open} |-> server[o].version]

Closed == [kind |-> "none", order |-> NoOrder]

Init ==
  /\ server = [o \in Orders |-> [version |-> 0, open |-> FALSE]]
  /\ changes = 0 /\ handlers = {} /\ answers = {}
  /\ socket = "down" /\ wire = <<>> /\ reachable = TRUE /\ connected = FALSE
  /\ loaded = FALSE /\ list = <<>> /\ fetch = [at |-> "asked"] /\ astray = FALSE
  /\ tabs = {} /\ active = NoOrder /\ dialog = Closed /\ breaks = 0

-----------------------------------------------------------------------------
(* The query cache.                                                        *)

None == [at |-> "none"]
Asked == [at |-> "asked"]

(* invalidateQueries: a fetch under way starts again, but the very first   *)
(* one is waited for, whatever it has read.                                *)
Invalidate ==
  IF ~loaded /\ fetch # None
  THEN fetch' = fetch /\ astray' = (astray \/ fetch # Asked)
  ELSE fetch' = Asked /\ astray' = astray

(* Broken: a workstation that answers the probe is taken for a channel. *)
LiveIfReachable == reachable

(* useLiveChannel: the lists poll unless there is a live channel.          *)
Live == reachable /\ connected

Poll ==
  /\ ~Live /\ fetch = None
  /\ fetch' = Asked
  /\ UNCHANGED <<shop, handlers, answers, channel, loaded, list, astray, till, breaks>>

(* A fetch that cannot reach the workstation has nowhere else to go.       *)
FetchRead ==
  /\ reachable /\ fetch = Asked
  /\ fetch' = [at |-> "read", orders |-> OpenOrders] /\ astray' = FALSE
  /\ UNCHANGED <<shop, handlers, answers, channel, loaded, list, till, breaks>>

FetchGivesUp ==
  /\ fetch # None /\ (reachable => breaks < MaxBreaks)
  /\ fetch' = None /\ astray' = TRUE
  /\ breaks' = IF reachable THEN breaks + 1 ELSE breaks
  /\ UNCHANGED <<shop, handlers, answers, channel, loaded, list, till>>

-----------------------------------------------------------------------------
(* useTabSync: whenever the list, the active tab or a dialog changes, the  *)
(* tabs of orders not on the list are dropped, but for the one that money  *)
(* is being taken on.  Its arguments are the tabs, the active one and the  *)
(* dialog after the event; the list is the new one.  The money dialog is   *)
(* over the active order, and the page closes it when another tab gets     *)
(* active.                                                                 *)

(* Broken: the receipt does not hold its tab. *)
KeepForMoneyOnly(act, dlg) == IF dlg.kind = "money" THEN {act} ELSE {}

Keep(act, dlg) == CASE dlg.kind = "money"   -> {act}
                    [] dlg.kind = "receipt" -> {dlg.order}
                    [] OTHER -> {}

TabSync(ts, act, dlg) ==
  /\ dialog' = IF dlg.kind = "money" /\ act # active THEN Closed ELSE dlg
  /\ IF loaded' /\ <<loaded', list', act, dlg>> # <<loaded, list, active, dialog>>
     THEN tabs' = ts \cap (DOMAIN list' \cup Keep(act, dialog'))
     ELSE tabs' = ts
  /\ \/ act \in tabs' \cup {NoOrder} /\ active' = act
     \/ act \notin tabs' \cup {NoOrder} /\ active' \in (IF tabs' = {} THEN {NoOrder} ELSE tabs')

FetchArrives ==
  /\ fetch.at = "read"
  /\ list' = fetch.orders /\ loaded' = TRUE /\ fetch' = None
  /\ TabSync(tabs, active, dialog)
  /\ UNCHANGED <<shop, handlers, answers, channel, astray, breaks>>

-----------------------------------------------------------------------------
(* The handlers of the workstation.                                        *)

Effect(kind, order) == [version |-> order.version + 1, open |-> kind \notin {"voided", "paid"}]

Allowed(kind, order) ==
  CASE kind = "created" -> order.version = 0
    [] kind = "synced"  -> order.version = 0 \/ order.open
    [] OTHER            -> order.open

Commit(kind, o, own) ==
  /\ Allowed(kind, server[o]) /\ changes < MaxChanges
  /\ changes' = changes + 1
  /\ server' = [server EXCEPT ![o] = Effect(kind, @)]
  /\ handlers' = handlers \cup
       {[kind |-> kind, order |-> o, version |-> server[o].version + 1, own |-> own]}

OtherCommits(kind, o) ==
  /\ Commit(kind, o, FALSE)
  /\ UNCHANGED <<answers, channel, cache, till, breaks>>

(* What the cashier does with the order of the active tab, or a new one.   *)
Busy == \E r \in handlers \cup answers : r.own

TillCommits(kind, o) ==
  /\ reachable /\ ~Busy
  /\ CASE kind = "created" -> dialog = Closed
       [] kind = "paid"    -> dialog = [kind |-> "money", order |-> o]
       [] OTHER            -> dialog = Closed /\ active = o
  /\ Commit(kind, o, TRUE)
  /\ UNCHANGED <<answers, channel, cache, till, breaks>>

(* A later version of the order was broadcast before: the handlers of two  *)
(* changes reach the hub in either order.                                  *)
Overtaken(h) ==
  /\ server[h.order].version > h.version
  /\ \A g \in handlers : g.order = h.order => g.version < server[h.order].version

Frame(h) == [kind |-> h.kind, order |-> h.order, version |-> h.version, late |-> Overtaken(h)]

(* Broken: a full buffer loses the event and keeps the client. *)
FanoutDropsEvent(h) ==
  IF socket = "registered" /\ Len(wire) < Buffer
  THEN wire' = Append(wire, Frame(h)) /\ UNCHANGED socket
  ELSE UNCHANGED <<socket, wire>>

(* Broken: the buffer of a client has no limit. *)
FanoutUnbounded(h) ==
  IF socket = "registered" THEN wire' = Append(wire, Frame(h)) /\ UNCHANGED socket
  ELSE UNCHANGED <<socket, wire>>

(* BroadcastEventScoped: a client whose buffer is full is closed.          *)
Fanout(h) ==
  CASE socket # "registered" -> UNCHANGED <<socket, wire>>
    [] socket = "registered" /\ Len(wire) < Buffer ->
         wire' = Append(wire, Frame(h)) /\ UNCHANGED socket
    [] OTHER -> socket' = "broken" /\ UNCHANGED wire

Broadcast(h) ==
  /\ Fanout(h)
  /\ astray' = (astray \/ socket = "greeted")
  /\ handlers' = handlers \ {h}
  /\ answers' = IF h.own THEN answers \cup {h} ELSE answers
  /\ UNCHANGED <<shop, reachable, connected, loaded, list, fetch, till, breaks>>

-----------------------------------------------------------------------------
(* The socket.                                                             *)

Greeting == [kind |-> "auth_ok"]

(* ServeWS answers auth_ok, and registers the client after it has read the *)
(* open alerts and the events to replay.                                   *)
Connect ==
  /\ reachable /\ socket = "down"
  /\ socket' = "greeted" /\ wire' = <<Greeting>>
  /\ UNCHANGED <<shop, handlers, answers, reachable, connected, cache, till, breaks>>

Register ==
  /\ socket = "greeted"
  /\ socket' = "registered"
  /\ UNCHANGED <<shop, handlers, answers, wire, reachable, connected, cache, till, breaks>>

Break ==
  /\ socket \in {"greeted", "registered"} /\ breaks < MaxBreaks
  /\ socket' = "broken" /\ breaks' = breaks + 1
  /\ UNCHANGED <<shop, handlers, answers, wire, reachable, connected, cache, till>>

(* onclose; what was still on the wire may be lost.                        *)
CloseSeen ==
  /\ socket = "broken"
  /\ socket' = "down" /\ wire' = <<>> /\ connected' = FALSE
  /\ UNCHANGED <<shop, handlers, answers, reachable, cache, till, breaks>>

(* The health probe fails, or answers again; the effect closes its socket. *)
ReachabilityChanges ==
  /\ breaks < MaxBreaks
  /\ breaks' = breaks + 1 /\ reachable' = ~reachable
  /\ socket' = "down" /\ wire' = <<>> /\ connected' = FALSE
  /\ UNCHANGED <<shop, handlers, answers, cache, till>>

(* onmessage.                                                              *)
Patched(f) ==
  IF f.kind \in {"created", "updated"}
  THEN [o \in DOMAIN list \cup {f.order} |-> IF o = f.order THEN f.version ELSE list[o]]
  ELSE [o \in DOMAIN list \ {f.order} |-> list[o]]

Receive ==
  /\ wire # <<>>
  /\ wire' = Tail(wire)
  /\ LET f == Head(wire)
     IN IF f.kind \in {"auth_ok", "synced"}
        THEN /\ connected' = (connected \/ f.kind = "auth_ok")
             /\ Invalidate
             /\ UNCHANGED <<loaded, list, till>>
        ELSE /\ list' = IF loaded THEN Patched(f) ELSE list
             /\ astray' = (astray \/ f.late \/ fetch.at = "read")
             /\ UNCHANGED <<connected, loaded, fetch>>
             /\ TabSync(tabs, active, dialog)
  /\ UNCHANGED <<shop, handlers, answers, socket, reachable, breaks>>

-----------------------------------------------------------------------------
(* The till.                                                               *)

(* The answer invalidates the lists; a new order gets a tab, a payment     *)
(* hands over to the receipt.                                              *)
Answered(r) ==
  /\ r \in answers
  /\ answers' = answers \ {r}
  /\ Invalidate
  /\ UNCHANGED <<loaded, list>>
  /\ CASE r.kind = "created" -> TabSync(tabs \cup {r.order}, r.order, dialog)
       [] r.kind = "paid"    -> TabSync(tabs, active, [kind |-> "receipt", order |-> r.order])
       [] OTHER              -> UNCHANGED till
  /\ UNCHANGED <<shop, handlers, channel, breaks>>

(* The overview offers the orders of the list.                             *)
OpenTab(o) ==
  /\ dialog = Closed /\ active # o /\ loaded /\ o \in DOMAIN list \cup tabs
  /\ UNCHANGED <<loaded, list>> /\ TabSync(tabs \cup {o}, o, dialog)
  /\ UNCHANGED <<shop, handlers, answers, channel, fetch, astray, breaks>>

(* Also what the dialogs' close handlers do when the order is done.        *)
CloseTab(o) ==
  /\ dialog = Closed /\ o \in tabs
  /\ UNCHANGED <<loaded, list>>
  /\ \E next \in CASE active # o    -> {active}
                   [] tabs = {o}    -> {NoOrder}
                   [] OTHER         -> tabs \ {o} :
       TabSync(tabs \ {o}, next, dialog)
  /\ UNCHANGED <<shop, handlers, answers, channel, fetch, astray, breaks>>

(* The overview's own tab.                                                 *)
ShowOverview ==
  /\ dialog = Closed /\ active # NoOrder
  /\ UNCHANGED <<loaded, list>> /\ TabSync(tabs, NoOrder, dialog)
  /\ UNCHANGED <<shop, handlers, answers, channel, fetch, astray, breaks>>

OpenDialog ==
  /\ dialog = Closed /\ active # NoOrder
  /\ UNCHANGED <<loaded, list>>
  /\ TabSync(tabs, active, [kind |-> "money", order |-> active])
  /\ UNCHANGED <<shop, handlers, answers, channel, fetch, astray, breaks>>

(* The money dialog goes at any time, the receipt takes its tab along.     *)
CloseDialog ==
  /\ dialog # Closed
  /\ UNCHANGED <<loaded, list>>
  /\ IF dialog.kind = "money" THEN TabSync(tabs, active, Closed)
     ELSE TabSync(tabs \ {dialog.order}, active, Closed)
  /\ UNCHANGED <<shop, handlers, answers, channel, fetch, astray, breaks>>

-----------------------------------------------------------------------------
Next ==
  \/ Poll \/ FetchRead \/ FetchGivesUp \/ FetchArrives
  \/ Connect \/ Register \/ Break \/ CloseSeen \/ ReachabilityChanges \/ Receive
  \/ \E h \in handlers : Broadcast(h)
  \/ \E r \in answers : Answered(r)
  \/ \E o \in Orders : \/ OpenTab(o) \/ CloseTab(o)
                       \/ \E kind \in {"created", "updated", "voided", "paid", "synced"} :
                            OtherCommits(kind, o)
                       \/ \E kind \in {"created", "updated", "voided", "paid"} :
                            TillCommits(kind, o)
  \/ ShowOverview \/ OpenDialog \/ CloseDialog

Spec == Init /\ [][Next]_vars

(* Timers fire, a workstation that is reachable answers; nothing is        *)
(* assumed of the socket.                                                  *)
FairSpec ==
  Spec /\ WF_vars(Poll) /\ WF_vars(FetchRead) /\ WF_vars(FetchArrives)

-----------------------------------------------------------------------------
Versions == 0..MaxChanges

TypeOK ==
  /\ server \in [Orders -> [version : Versions, open : BOOLEAN]]
  /\ \A h \in handlers \cup answers : h.order \in Orders /\ h.version \in Versions
  /\ socket \in {"down", "greeted", "registered", "broken"}
  /\ Len(wire) <= Buffer
  /\ \A i \in 1..Len(wire) : wire[i] # Greeting => wire[i].order \in Orders
  /\ reachable \in BOOLEAN /\ connected \in BOOLEAN /\ loaded \in BOOLEAN
  /\ DOMAIN list \subseteq Orders /\ \A o \in DOMAIN list : list[o] \in Versions
  /\ fetch.at \in {"none", "asked", "read"}
  /\ tabs \subseteq Orders /\ active \in tabs \cup {NoOrder}
  /\ dialog.kind \in {"none", "money", "receipt"} /\ dialog.order \in Orders \cup {NoOrder}
  /\ astray \in BOOLEAN /\ breaks \in 0..MaxBreaks /\ changes \in 0..MaxChanges

(***************************************************************************)
(* While the channel is live nothing polls, so what the screen shows once  *)
(* the events have drained is all it will show: it is what the workstation *)
(* has, however often the socket dropped, was closed for a full buffer or  *)
(* came back, unless one of the named accidents happened since the list    *)
(* was read: an event between auth_ok and the registration, a patch under  *)
(* a fetch that had read before it, two handlers' events out of order, a   *)
(* first fetch the resync was coalesced into, a fetch that gave up.        *)
(***************************************************************************)
Quiet == /\ Live /\ socket = "registered" /\ wire = <<>> /\ handlers = {}
         /\ loaded /\ fetch = None

QuietMeansFresh == Quiet /\ ~astray => list = OpenOrders

(***************************************************************************)
(* A screen whose workstation answers requests while its socket stays down *)
(* (a proxy that blocks the upgrade, #1792) never freezes: it is right     *)
(* again and again, whatever failed before.  Of a screen whose workstation *)
(* stays unreachable nothing is promised.                                  *)
(***************************************************************************)
PollingStaysFresh ==
  <>[](reachable /\ ~connected) => []<>(loaded /\ list = OpenOrders)

(***************************************************************************)
(* While a money dialog or a receipt is over an order, its tab stays,      *)
(* whichever event, fetch or reconnect says that the order is done.  Only  *)
(* an answer of the till's own takes the cashier elsewhere: a quick        *)
(* order's, whose tab becomes the active one, from a money dialog, or that *)
(* of a payment on another order, given up on before.                      *)
(***************************************************************************)
PinHolds ==
  [][dialog # Closed /\ dialog.order \in tabs =>
       \/ dialog.order \in tabs' \/ CloseDialog
       \/ \E r \in answers \ answers' :
            \/ r.kind = "created" /\ dialog.kind = "money"
            \/ r.kind = "paid" /\ r.order # dialog.order]_vars

(***************************************************************************)
(* use-orders.ts: an order missing from the list made reconcileWithServer  *)
(* "immediately drop its tab, bouncing staff back to the table-select      *)
(* screen even though the order was created"; hence the statuses of the    *)
(* feed.  Once the list is there, a new order gets its tab, and the tab of *)
(* an order the shop still works on goes by hand only.                     *)
(***************************************************************************)
OpenTabStays ==
  [][loaded =>
       /\ \A o \in tabs \ tabs' : ~server[o].open \/ CloseTab(o) \/ CloseDialog
       /\ \A r \in answers \ answers' :
            r.kind = "created" /\ server[r.order].open => r.order \in tabs']_vars
=============================================================================
