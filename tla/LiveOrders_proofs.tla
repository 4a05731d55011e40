-------------------------- MODULE LiveOrders_proofs --------------------------
(***************************************************************************)
(* Proofs about LiveOrders, for any set of orders, any number of changes   *)
(* and breaks, and any capacity of the send buffer.                        *)
(*                                                                         *)
(* That a quiet screen is right rests on two facts about each order.  The  *)
(* last frame on the wire for it is its current version, or the current    *)
(* one is still to be broadcast, or that frame is marked late.  And what   *)
(* the list, or a fetch that has read, says of it is current, or the       *)
(* current version is still to come, or an accident has been noted.        *)
(***************************************************************************)
EXTENDS LiveOrders, SequenceTheorems, TLAPS

Kinds == {"created", "updated", "voided", "paid", "synced"}
Positions == 1..Len(wire)

(* What a change of this kind and version says of its order. *)
Truthful(c) ==
  /\ c.kind \in Kinds /\ c.order \in Orders /\ c.version \in Nat
  /\ c.version <= server[c.order].version
  /\ c.version = server[c.order].version =>
       (server[c.order].open <=> c.kind \notin {"voided", "paid"})

About(f, o) == f.kind # "auth_ok" /\ f.order = o

(* The current version of the order is still to be broadcast. *)
Pending(o) == \E h \in handlers : h.order = o /\ h.version = server[o].version

OnWire(o) == \E i \in Positions : About(wire[i], o)

(* The orders l, a list or what a fetch has read, are right about o. *)
RightAbout(l, o) ==
  /\ o \in DOMAIN l <=> server[o].open
  /\ o \in DOMAIN l => l[o] = server[o].version

-----------------------------------------------------------------------------
(* The inductive invariant.                                                *)

IsList(l) == DOMAIN l \subseteq Orders /\ \A o \in DOMAIN l : l[o] \in Versions

ShopOK ==
  /\ server \in [Orders -> [version : Nat, open : BOOLEAN]]
  /\ changes \in 0..MaxChanges /\ \A o \in Orders : server[o].version <= changes
  /\ \A h \in handlers : Truthful(h)
  /\ \A r \in answers : r.order \in Orders /\ r.version \in Versions

ChannelOK ==
  /\ socket \in {"down", "greeted", "registered", "broken"}
  /\ \E S : wire \in Seq(S)
  /\ Len(wire) <= Buffer
  /\ \A i \in Positions : wire[i] = Greeting \/ Truthful(wire[i])
  /\ reachable \in BOOLEAN /\ connected \in BOOLEAN
  /\ socket = "down" => wire = <<>> /\ ~connected
  /\ socket = "greeted" => \A i \in Positions : wire[i] = Greeting

CacheOK ==
  /\ loaded \in BOOLEAN /\ astray \in BOOLEAN /\ breaks \in 0..MaxBreaks
  /\ IsList(list) /\ (loaded => list = [o \in DOMAIN list |-> list[o]])
  /\ fetch.at \in {"none", "asked", "read"} /\ (fetch.at = "none" => fetch = None)
  /\ fetch.at = "read" =>
       IsList(fetch.orders) /\ fetch.orders = [o \in DOMAIN fetch.orders |-> fetch.orders[o]]

(* The money dialog is over the active tab. *)
Tabs ==
  /\ tabs \subseteq Orders /\ active \in tabs \cup {NoOrder}
  /\ dialog.kind \in {"none", "money", "receipt"} /\ dialog.order \in Orders \cup {NoOrder}
  /\ dialog.kind = "none" => dialog = Closed
  /\ dialog.kind = "money" => dialog.order = active /\ active \in tabs

Hooked == socket \in {"greeted", "registered"}

WireCurrent == Hooked =>
  \A i \in Positions, o \in Orders :
    About(wire[i], o) /\ (\A j \in Positions : j > i => ~About(wire[j], o)) =>
      wire[i].version = server[o].version \/ wire[i].late \/ Pending(o)

ListCurrent == Hooked /\ connected /\ ~astray =>
  \A o \in Orders :
    /\ fetch = None /\ loaded => RightAbout(list, o) \/ Pending(o) \/ OnWire(o)
    /\ fetch.at = "read" => RightAbout(fetch.orders, o) \/ Pending(o) \/ OnWire(o)

IInv == ShopOK /\ ChannelOK /\ CacheOK /\ Tabs /\ WireCurrent /\ ListCurrent

-----------------------------------------------------------------------------
(* The wire.                                                               *)

LEMMA WireTyped ==
  ASSUME ChannelOK
  PROVE  Len(wire) \in Nat
  BY LenProperties DEF ChannelOK

LEMMA WireAppended ==
  ASSUME ChannelOK, NEW f, wire' = Append(wire, f)
  PROVE  /\ \E S : wire' \in Seq(S)
         /\ Len(wire') = Len(wire) + 1 /\ wire'[Len(wire) + 1] = f
         /\ \A i \in Positions : wire'[i] = wire[i]
         /\ Positions' = Positions \cup {Len(wire) + 1}
         /\ \A i \in Positions : i < Len(wire) + 1
  <1>1. PICK S : wire \in Seq(S)
    BY DEF ChannelOK
  <1>2. wire \in Seq(S \cup {f}) /\ Len(wire) \in Nat
    BY <1>1, LenProperties, SeqDef
  <1>3. /\ wire' \in Seq(S \cup {f}) /\ Len(wire') = Len(wire) + 1
        /\ wire'[Len(wire) + 1] = f
        /\ \A i \in Positions : wire'[i] = wire[i]
    BY <1>2, AppendProperties DEF Positions
  <1> QED BY <1>2, <1>3 DEF Positions

LEMMA WireRead ==
  ASSUME ChannelOK, wire # <<>>, wire' = Tail(wire)
  PROVE  /\ \E S : wire' \in Seq(S)
         /\ Len(wire) \in Nat \ {0} /\ Len(wire') = Len(wire) - 1
         /\ Head(wire) = wire[1] /\ 1 \in Positions
         /\ \A i \in Positions' : i + 1 \in Positions /\ wire'[i] = wire[i + 1]
         /\ \A i \in Positions : i = 1 \/ (i - 1 \in Positions' /\ wire'[i - 1] = wire[i])
  <1>1. PICK S : wire \in Seq(S)
    BY DEF ChannelOK
  <1>2. /\ wire' \in Seq(S) /\ Len(wire) \in Nat /\ Len(wire) # 0
        /\ Len(wire') = Len(wire) - 1
        /\ Head(wire) = wire[1]
        /\ \A i \in 1..Len(wire') : wire'[i] = wire[i + 1]
    BY <1>1, HeadTailProperties, LenProperties, EmptySeq
  <1> QED BY <1>2 DEF Positions

LEMMA WireGreeted ==
  ASSUME wire' = <<Greeting>>
  PROVE  /\ \E S : wire' \in Seq(S)
         /\ Len(wire') = 1 /\ \A i \in Positions' : wire'[i] = Greeting
  <1>1. wire' \in Seq({Greeting}) /\ Len(wire') = 1 /\ wire'[1] = Greeting
    OBVIOUS
  <1>2. Positions' = 1..1
    BY <1>1 DEF Positions
  <1>3. \A i \in 1..1 : i = 1
    OBVIOUS
  <1>4. \A i \in Positions' : wire'[i] = Greeting
    BY <1>1, <1>2, <1>3
  <1>5. \E S : wire' \in Seq(S)
    BY <1>1
  <1> QED BY <1>1, <1>4, <1>5

LEMMA WireCleared ==
  ASSUME wire' = <<>>
  PROVE  (\E S : wire' \in Seq(S)) /\ Len(wire') = 0 /\ Positions' = {}
  BY DEF Positions

-----------------------------------------------------------------------------
(* Steps that leave a part alone.                                          *)

LEMMA VersionsInRange ==
  ASSUME ShopOK
  PROVE  /\ \A o \in Orders : server[o].version \in Nat /\ server[o].version \in Versions
         /\ \A o \in Orders : server[o].open \in BOOLEAN
  <1>1. MaxChanges \in Nat /\ changes \in 0..MaxChanges
    BY LiveOrdersAssumption DEF ShopOK
  <1>2. \A o \in Orders : server[o] \in [version : Nat, open : BOOLEAN]
    BY DEF ShopOK
  <1>3. \A o \in Orders : server[o].version \in Nat /\ server[o].open \in BOOLEAN
    BY <1>2
  <1>4. ASSUME NEW o \in Orders
        PROVE  server[o].version \in 0..MaxChanges
    <2>1. server[o].version <= changes /\ server[o].version \in Nat
      BY <1>3 DEF ShopOK
    <2> QED BY <1>1, <2>1
  <1> QED BY <1>3, <1>4 DEF Versions

LEMMA ShopAlone ==
  ASSUME ShopOK, UNCHANGED shop, handlers' \subseteq handlers,
         answers' \subseteq answers \cup handlers
  PROVE  ShopOK'
  <1>1. \A c : Truthful(c)' <=> Truthful(c)
    BY DEF Truthful, shop
  <1>2. \A h \in handlers : h.order \in Orders /\ h.version \in Versions
    BY LiveOrdersAssumption DEF ShopOK, Truthful, Versions
  <1> QED BY <1>1, <1>2 DEF ShopOK, shop

LEMMA ChannelAlone ==
  ASSUME ChannelOK, UNCHANGED channel,
         \A c : Truthful(c) => Truthful(c)'
  PROVE  ChannelOK'
  BY DEF ChannelOK, channel, Positions

LEMMA CacheAlone ==
  ASSUME CacheOK, UNCHANGED cache, breaks' \in 0..MaxBreaks
  PROVE  CacheOK'
  BY DEF CacheOK, cache, IsList

LEMMA SameTruth ==
  ASSUME UNCHANGED shop
  PROVE  /\ \A c : Truthful(c)' <=> Truthful(c)
         /\ \A l, o : RightAbout(l, o)' <=> RightAbout(l, o)
  BY DEF Truthful, RightAbout, shop

LEMMA WireAlone ==
  ASSUME WireCurrent, UNCHANGED <<shop, handlers, socket, wire>>
  PROVE  WireCurrent'
  BY DEF WireCurrent, Hooked, Positions, Pending, shop

(* The list is to be read anew, or went astray, or stays as it was. *)
LEMMA ListAlone ==
  ASSUME ListCurrent, UNCHANGED <<shop, handlers, socket, wire, connected>>,
         fetch' = Asked \/ astray' = TRUE \/ UNCHANGED <<loaded, list, fetch, astray>>
  PROVE  ListCurrent'
  <1>1. CASE fetch' = Asked
    BY <1>1 DEF ListCurrent, Asked, None
  <1>2. CASE astray' = TRUE
    BY <1>2 DEF ListCurrent
  <1>3. CASE UNCHANGED <<loaded, list, fetch, astray>>
    <2>1. \A o : (OnWire(o)' <=> OnWire(o)) /\ (Pending(o)' <=> Pending(o))
      BY DEF OnWire, Pending, Positions, shop
    <2> QED BY <1>3, <2>1, SameTruth DEF ListCurrent, Hooked
  <1> QED BY <1>1, <1>2, <1>3

LEMMA TabsSynced ==
  ASSUME Tabs, NEW ts, NEW act, NEW dlg, TabSync(ts, act, dlg),
         ts \subseteq Orders, act \in Orders \cup {NoOrder},
         dlg.kind \in {"none", "money", "receipt"}, dlg.order \in Orders \cup {NoOrder},
         dlg.kind = "none" => dlg = Closed,
         dlg.kind = "money" => dlg.order = active /\ (act = active => act \in ts)
  PROVE  Tabs'
  <1>1. dialog' = IF dlg.kind = "money" /\ act # active THEN Closed ELSE dlg
    BY DEF TabSync
  <1>2. tabs' \subseteq Orders /\ active' \in tabs' \cup {NoOrder}
    BY DEF TabSync
  <1>3. /\ dialog'.kind \in {"none", "money", "receipt"} /\ dialog'.order \in Orders \cup {NoOrder}
        /\ dialog'.kind = "none" => dialog' = Closed
    BY <1>1 DEF Closed
  <1>4. ASSUME dialog'.kind = "money"
        PROVE  dialog'.order = active' /\ active' \in tabs'
    <2>1. dialog' = dlg /\ act = active /\ dlg.kind = "money"
      BY <1>1, <1>4 DEF Closed
    <2>2. act \in tabs'
      BY <2>1 DEF TabSync, Keep
    <2> QED BY <2>1, <2>2 DEF TabSync
  <1> QED BY <1>2, <1>3, <1>4 DEF Tabs

(* The tabs after an event that only changes the list. *)
LEMMA TabsFollow ==
  ASSUME Tabs, TabSync(tabs, active, dialog)
  PROVE  Tabs'
  <1>1. active \in Orders \cup {NoOrder}
    BY DEF Tabs
  <1> QED BY <1>1, TabsSynced DEF Tabs

LEMMA TabsAlone ==
  ASSUME Tabs, UNCHANGED till
  PROVE  Tabs'
  BY DEF Tabs, till

-----------------------------------------------------------------------------
(* The query cache.                                                        *)

LEMMA OpenOrdersRight ==
  ASSUME ShopOK
  PROVE  /\ IsList(OpenOrders) /\ OpenOrders = [o \in DOMAIN OpenOrders |-> OpenOrders[o]]
         /\ \A o \in Orders : RightAbout(OpenOrders, o)
  <1>1. \A o \in Orders : server[o].version \in Versions
    BY VersionsInRange
  <1>2. /\ DOMAIN OpenOrders = {p \in Orders : server[p].open}
        /\ \A o \in DOMAIN OpenOrders : OpenOrders[o] = server[o].version
    BY DEF OpenOrders
  <1>3. OpenOrders = [o \in DOMAIN OpenOrders |-> OpenOrders[o]]
    BY DEF OpenOrders
  <1>4. IsList(OpenOrders)
    BY <1>1, <1>2 DEF IsList
  <1>5. \A o \in Orders : RightAbout(OpenOrders, o)
    BY <1>2 DEF RightAbout
  <1> QED BY <1>3, <1>4, <1>5

LEMMA PollKeeps ==
  ASSUME IInv, Poll \/ FetchGivesUp
  PROVE  IInv'
  <1>1. UNCHANGED <<shop, handlers, answers, channel, loaded, list, till>>
    BY DEF Poll, FetchGivesUp
  <1>2. \/ fetch' = Asked /\ astray' = astray /\ breaks' = breaks
        \/ /\ fetch' = None /\ astray' = TRUE
           /\ breaks' = breaks \/ (breaks' = breaks + 1 /\ breaks < MaxBreaks)
    BY DEF Poll, FetchGivesUp
  <1>3. CacheOK'
    <2>1. /\ breaks' \in 0..MaxBreaks /\ astray' \in BOOLEAN
          /\ fetch'.at \in {"none", "asked"} /\ (fetch'.at = "none" => fetch' = None)
      <3>1. MaxBreaks \in Nat /\ breaks \in 0..MaxBreaks /\ astray \in BOOLEAN
        BY LiveOrdersAssumption DEF IInv, CacheOK
      <3>2. astray' \in BOOLEAN
        BY <1>2, <3>1, Zenon
      <3>3. breaks' = breaks \/ (breaks' = breaks + 1 /\ breaks < MaxBreaks)
        BY <1>2, Zenon
      <3>4. breaks' \in 0..MaxBreaks
        BY <3>1, <3>3
      <3>5. fetch' \in {Asked, None}
        BY <1>2, Zenon
      <3> QED BY <3>2, <3>4, <3>5 DEF Asked, None
    <2>2. fetch'.at # "read"
      BY <2>1
    <2>3. IsList(list)' /\ loaded' \in BOOLEAN /\ (loaded => list = [o \in DOMAIN list |-> list[o]])'
      BY <1>1 DEF IInv, CacheOK, IsList
    <2> QED BY <2>1, <2>2, <2>3 DEF CacheOK
  <1>4. ListCurrent'
    BY <1>1, <1>2, ListAlone DEF IInv, channel
  <1>5. ShopOK' /\ ChannelOK' /\ Tabs' /\ WireCurrent'
    BY <1>1, SameTruth, ShopAlone, ChannelAlone, TabsAlone, WireAlone DEF IInv, channel
  <1> QED BY <1>3, <1>4, <1>5 DEF IInv

LEMMA FetchReadKeeps ==
  ASSUME IInv, FetchRead
  PROVE  IInv'
  <1>1. /\ UNCHANGED <<shop, handlers, answers, channel, loaded, list, till, breaks>>
        /\ fetch' = [at |-> "read", orders |-> OpenOrders] /\ astray' = FALSE
    BY DEF FetchRead
  <1>2. PICK l : l = OpenOrders
    OBVIOUS
  <1>3. /\ IsList(l) /\ l = [o \in DOMAIN l |-> l[o]] /\ \A o \in Orders : RightAbout(l, o)
    BY <1>2, OpenOrdersRight DEF IInv
  <1>4. fetch'.at = "read" /\ fetch'.orders = l /\ fetch' # None
    BY <1>1, <1>2 DEF None
  <1>5. CacheOK'
    BY <1>1, <1>3, <1>4 DEF IInv, CacheOK, IsList
  <1>6. ListCurrent'
    <2>1. \A o \in Orders : RightAbout(fetch.orders, o)'
      BY <1>1, <1>3, <1>4 DEF RightAbout, shop
    <2> QED BY <1>4, <2>1 DEF ListCurrent
  <1>7. ShopOK' /\ ChannelOK' /\ Tabs' /\ WireCurrent'
    BY <1>1, SameTruth, ShopAlone, ChannelAlone, TabsAlone, WireAlone DEF IInv, channel
  <1> QED BY <1>5, <1>6, <1>7 DEF IInv

LEMMA FetchArrivesKeeps ==
  ASSUME IInv, FetchArrives
  PROVE  IInv'
  <1>1. /\ UNCHANGED <<shop, handlers, answers, channel, astray, breaks>>
        /\ fetch.at = "read" /\ list' = fetch.orders /\ loaded' = TRUE /\ fetch' = None
        /\ TabSync(tabs, active, dialog)
    BY DEF FetchArrives
  <1>2. CacheOK'
    BY <1>1 DEF IInv, CacheOK, None, IsList
  <1>3. ListCurrent'
    <2>1. \A o : (OnWire(o)' <=> OnWire(o)) /\ (Pending(o)' <=> Pending(o))
      BY <1>1 DEF OnWire, Pending, Positions, shop, channel
    <2>2. Hooked' = Hooked /\ connected' = connected
      BY <1>1 DEF Hooked, channel
    <2>3. fetch'.at # "read"
      BY <1>1 DEF None
    <2>4. \A o \in Orders : RightAbout(list, o)' <=> RightAbout(fetch.orders, o)
      BY <1>1 DEF RightAbout, shop
    <2> QED BY <1>1, <2>1, <2>2, <2>3, <2>4 DEF IInv, ListCurrent
  <1>4. ShopOK' /\ ChannelOK' /\ WireCurrent'
    BY <1>1, SameTruth, ShopAlone, ChannelAlone, WireAlone DEF IInv, channel
  <1>5. Tabs'
    BY <1>1, TabsFollow DEF IInv
  <1> QED BY <1>2, <1>3, <1>4, <1>5 DEF IInv

-----------------------------------------------------------------------------
(* The handlers of the workstation.                                        *)

(* What a change leaves: a handler that knows the order's new version. *)
LEMMA Committed ==
  ASSUME ShopOK, NEW kind \in Kinds, NEW o \in Orders, NEW own, Commit(kind, o, own)
  PROVE  /\ answers' = answers => ShopOK'
         /\ \A c : Truthful(c) => Truthful(c)'
         /\ Pending(o)'
         /\ \A p \in Orders \ {o} : server'[p] = server[p] /\ (Pending(p) => Pending(p)')
  <1>1. PICK h : h = [kind |-> kind, order |-> o, version |-> server[o].version + 1, own |-> own]
    OBVIOUS
  <1>2. h.kind = kind /\ h.order = o /\ h.version = server[o].version + 1
    BY <1>1
  <1>3. /\ handlers' = handlers \cup {h} /\ changes' = changes + 1 /\ changes < MaxChanges
        /\ server' = [server EXCEPT ![o] = Effect(kind, server[o])]
    BY <1>1 DEF Commit
  <1>4. PICK e : e = Effect(kind, server[o])
    OBVIOUS
  <1>5. server[o].version \in Nat
    BY VersionsInRange
  <1>6. /\ e \in [version : Nat, open : BOOLEAN]
        /\ e.version = server[o].version + 1 /\ (e.open <=> kind \notin {"voided", "paid"})
    <2>1. PICK v, b : v = server[o].version + 1 /\ b = (kind \notin {"voided", "paid"})
      OBVIOUS
    <2>2. v \in Nat
      BY <1>5, <2>1
    <2>3. b \in BOOLEAN /\ (b <=> kind \notin {"voided", "paid"})
      BY <2>1, Zenon
    <2>4. e = [version |-> v, open |-> b]
      BY <1>4, <2>1, Zenon DEF Effect
    <2> QED BY <2>1, <2>2, <2>3, <2>4
  <1>7. server' = [server EXCEPT ![o] = e] /\ server \in [Orders -> [version : Nat, open : BOOLEAN]]
    BY <1>3, <1>4 DEF ShopOK
  <1>8. /\ server' \in [Orders -> [version : Nat, open : BOOLEAN]]
        /\ server'[o] = e /\ \A p \in Orders \ {o} : server'[p] = server[p]
    BY <1>6, <1>7
  <1>9. ASSUME NEW c, Truthful(c)
        PROVE  Truthful(c)'
    <2>1. c.kind \in Kinds /\ c.order \in Orders /\ c.version \in Nat
      BY <1>9 DEF Truthful
    <2>2. CASE c.order = o
      <3>1. c.version <= server[o].version
        BY <1>9, <2>2 DEF Truthful
      <3>2. c.version <= server'[o].version /\ c.version # server'[o].version
        BY <1>5, <1>6, <1>8, <2>1, <3>1
      <3> QED BY <2>1, <2>2, <3>2 DEF Truthful
    <2>3. CASE c.order # o
      BY <1>8, <1>9, <2>1, <2>3 DEF Truthful
    <2> QED BY <2>2, <2>3
  <1>10. Truthful(h)'
    BY <1>2, <1>5, <1>6, <1>8 DEF Truthful
  <1>11. Pending(o)'
    BY <1>2, <1>3, <1>6, <1>8 DEF Pending
  <1>12. \A p \in Orders \ {o} : Pending(p) => Pending(p)'
    BY <1>3, <1>8 DEF Pending
  <1>13. ASSUME UNCHANGED answers
         PROVE  ShopOK'
    <2>1. MaxChanges \in Nat /\ changes \in 0..MaxChanges
      BY LiveOrdersAssumption DEF ShopOK
    <2>2. changes' \in 0..MaxChanges
      BY <1>3, <2>1
    <2>3. ASSUME NEW p \in Orders
          PROVE  server'[p].version <= changes'
      <3>1. server[p].version <= changes /\ server[p].version \in Nat
        BY VersionsInRange DEF ShopOK
      <3>2. CASE p = o
        BY <1>3, <1>5, <1>6, <1>8, <2>1, <3>1, <3>2
      <3>3. CASE p # o
        BY <1>3, <1>8, <2>1, <3>1, <3>3
      <3> QED BY <3>2, <3>3
    <2>4. \A g \in handlers' : Truthful(g)'
      BY <1>3, <1>9, <1>10 DEF ShopOK
    <2>5. \A r \in answers' : r.order \in Orders /\ r.version \in Versions
      BY <1>13 DEF ShopOK
    <2> QED BY <1>8, <2>2, <2>3, <2>4, <2>5 DEF ShopOK
  <1> QED BY <1>8, <1>9, <1>11, <1>12, <1>13

LEMMA CommitKeeps ==
  ASSUME IInv, NEW kind \in Kinds, NEW o \in Orders, NEW own, Commit(kind, o, own),
         UNCHANGED <<answers, channel, cache, till, breaks>>
  PROVE  IInv'
  <1>1. /\ ShopOK'
        /\ \A c : Truthful(c) => Truthful(c)'
        /\ Pending(o)'
        /\ \A p \in Orders \ {o} : server'[p] = server[p] /\ (Pending(p) => Pending(p)')
    BY Committed DEF IInv
  <1>2. Positions' = Positions /\ wire' = wire /\ Hooked' = Hooked
    BY DEF Positions, Hooked, channel
  <1>3. ChannelOK' /\ CacheOK' /\ Tabs'
    <2>1. breaks' \in 0..MaxBreaks
      BY DEF IInv, CacheOK
    <2> QED BY <1>1, <2>1, ChannelAlone, CacheAlone, TabsAlone DEF IInv
  <1>4. WireCurrent'
    <2> SUFFICES ASSUME Hooked, NEW i \in Positions, NEW p \in Orders, About(wire[i], p),
                        \A j \in Positions : j > i => ~About(wire[j], p)
                 PROVE  wire[i].version = server'[p].version \/ wire[i].late \/ Pending(p)'
      BY <1>2 DEF WireCurrent
    <2>1. wire[i].version = server[p].version \/ wire[i].late \/ Pending(p)
      BY DEF IInv, WireCurrent
    <2> QED BY <1>1, <2>1
  <1>5. ListCurrent'
    <2>1. UNCHANGED <<connected, astray, fetch, loaded, list>>
      BY DEF channel, cache
    <2>2. \A p \in Orders : OnWire(p) => OnWire(p)'
      BY <1>2 DEF OnWire
    <2>3. \A l : \A p \in Orders \ {o} : RightAbout(l, p) => RightAbout(l, p)'
      BY <1>1 DEF RightAbout
    <2>4. ASSUME NEW p \in Orders, NEW l, RightAbout(l, p) \/ Pending(p) \/ OnWire(p)
          PROVE  RightAbout(l, p)' \/ Pending(p)' \/ OnWire(p)'
      BY <1>1, <2>2, <2>3, <2>4
    <2> QED BY <1>2, <2>1, <2>4 DEF IInv, ListCurrent
  <1> QED BY <1>1, <1>3, <1>4, <1>5 DEF IInv
(* Only the hub and the frames on the wire matter to a broadcast. *)
LEMMA Overheard ==
  ASSUME ShopOK, NEW h \in handlers, handlers' = handlers \ {h}, UNCHANGED shop
  PROVE  /\ \A p \in Orders : Pending(p) => Pending(p)' \/ p = h.order
         /\ h.version = server[h.order].version \/ Overtaken(h) \/ Pending(h.order)'
  <1>1. \A g \in handlers : /\ g.order \in Orders /\ g.version \in Nat
                            /\ g.version <= server[g.order].version
    BY DEF ShopOK, Truthful
  <1>2. \A p : Pending(p)' <=> \E g \in handlers \ {h} : g.order = p /\ g.version = server[p].version
    BY DEF Pending, shop
  <1>3. \A p \in Orders : Pending(p) => Pending(p)' \/ p = h.order
    BY <1>2 DEF Pending
  <1>4. ASSUME h.version # server[h.order].version, ~Overtaken(h)
        PROVE  Pending(h.order)'
    <2>1. server[h.order].version \in Nat /\ h.version < server[h.order].version
      BY <1>1, <1>4, VersionsInRange
    <2>2. PICK g \in handlers : g.order = h.order /\ ~(g.version < server[h.order].version)
      BY <1>4, <2>1 DEF Overtaken
    <2>3. g.version = server[h.order].version
      BY <1>1, <2>1, <2>2
    <2>4. PICK q : q = h.order
      OBVIOUS
    <2>5. Pending(q)'
      BY <1>2, <1>4, <2>2, <2>3, <2>4
    <2> QED BY <2>4, <2>5
  <1> QED BY <1>3, <1>4

LEMMA FrameFields ==
  ASSUME NEW h
  PROVE  /\ Frame(h).kind = h.kind /\ Frame(h).order = h.order /\ Frame(h).version = h.version
         /\ Frame(h).late <=> Overtaken(h)
  <1>1. PICK late : late = Overtaken(h)
    OBVIOUS
  <1>2. Frame(h) = [kind |-> h.kind, order |-> h.order, version |-> h.version, late |-> late]
    BY <1>1, Zenon DEF Frame
  <1> QED BY <1>1, <1>2

(* A frame that is written: it is current, or late, or a handler of the    *)
(* order's current version is still there.                                 *)
LEMMA FrameWritten ==
  ASSUME IInv, NEW h \in handlers, handlers' = handlers \ {h},
         UNCHANGED <<shop, reachable, connected, loaded, list, fetch>>,
         socket = "registered", socket' = socket, Len(wire) < Buffer,
         wire' = Append(wire, Frame(h)), astray' = astray
  PROVE  ChannelOK' /\ WireCurrent' /\ ListCurrent'
  <1>1. PICK f : f = Frame(h)
    OBVIOUS
  <1>2. /\ f.kind = h.kind /\ f.order = h.order /\ f.version = h.version
        /\ f.late <=> Overtaken(h)
    BY <1>1, FrameFields
  <1>3. Truthful(f) /\ f.order \in Orders /\ f.kind # "auth_ok"
    BY <1>2 DEF IInv, ShopOK, Truthful, Kinds
  <1>4. PICK n : n = Len(wire) + 1
    OBVIOUS
  <1>5. /\ \E S : wire' \in Seq(S)
        /\ Len(wire') = n /\ wire'[n] = f
        /\ \A i \in Positions : wire'[i] = wire[i] /\ i < n
        /\ Positions' = Positions \cup {n} /\ n \in Positions'
    BY <1>1, <1>4, WireAppended DEF IInv
  <1>6. /\ \A p \in Orders : Pending(p) => Pending(p)' \/ p = f.order
        /\ f.version = server[f.order].version \/ f.late \/ Pending(f.order)'
    BY <1>2, Overheard DEF IInv
  <1>7. ChannelOK'
    <2>1. Len(wire') <= Buffer
      BY <1>4, <1>5, WireTyped, LiveOrdersAssumption DEF IInv
    <2>2. \A i \in Positions' : wire'[i] = Greeting \/ Truthful(wire'[i])
      BY <1>3, <1>5 DEF IInv, ChannelOK
    <2>3. \A i \in Positions' : (wire[i] = Greeting)' \/ Truthful(wire[i])'
      BY <2>2, SameTruth
    <2> QED BY <1>5, <2>1, <2>3 DEF IInv, ChannelOK
  <1>8. WireCurrent'
    <2> SUFFICES ASSUME NEW i \in Positions', NEW p \in Orders, About(wire'[i], p),
                        \A j \in Positions' : j > i => ~About(wire'[j], p)
                 PROVE  wire'[i].version = server'[p].version \/ wire'[i].late \/ Pending(p)'
      BY DEF WireCurrent
    <2>1. server' = server
      BY DEF shop
    <2>2. CASE i = n
      <3>1. wire'[i] = f /\ p = f.order
        BY <1>5, <2>2 DEF About
      <3> QED BY <1>6, <2>1, <3>1
    <2>3. CASE i # n
      <3>1. i \in Positions /\ i < n
        BY <1>5, <2>3
      <3>2. ~About(f, p)
        BY <1>5, <3>1, SMT
      <3>3. p # f.order
        BY <1>3, <3>2 DEF About
      <3>4. About(wire[i], p) /\ \A j \in Positions : j > i => ~About(wire[j], p)
        BY <1>5, <3>1
      <3>5. wire[i].version = server[p].version \/ wire[i].late \/ Pending(p)
        BY <3>1, <3>4 DEF IInv, WireCurrent, Hooked
      <3> QED BY <1>5, <1>6, <2>1, <3>1, <3>3, <3>5
    <2> QED BY <2>2, <2>3
  <1>9. ListCurrent'
    <2>1. \A p \in Orders : OnWire(p) => OnWire(p)'
      BY <1>5 DEF OnWire
    <2>2. OnWire(f.order)'
      <3>1. PICK q : q = f.order
        OBVIOUS
      <3>2. About(f, q)
        BY <1>3, <3>1 DEF About
      <3>3. OnWire(q)'
        BY <1>5, <3>2 DEF OnWire
      <3> QED BY <3>1, <3>3
    <2>3. ASSUME NEW p \in Orders, NEW l, RightAbout(l, p) \/ Pending(p) \/ OnWire(p)
          PROVE  RightAbout(l, p)' \/ Pending(p)' \/ OnWire(p)'
      BY <1>6, <2>1, <2>2, <2>3, SameTruth
    <2> QED BY <2>3 DEF IInv, ListCurrent, Hooked
  <1> QED BY <1>7, <1>8, <1>9

(* A client that is not hooked to the hub any more is promised nothing. *)
LEMMA Unhooked ==
  ASSUME ~Hooked'
  PROVE  WireCurrent' /\ ListCurrent'
  BY DEF WireCurrent, ListCurrent

LEMMA BroadcastKeeps ==
  ASSUME IInv, NEW h \in handlers, Broadcast(h)
  PROVE  IInv'
  <1>1. /\ Fanout(h) /\ astray' = (astray \/ socket = "greeted")
        /\ handlers' = handlers \ {h} /\ answers' = IF h.own THEN answers \cup {h} ELSE answers
        /\ UNCHANGED <<shop, reachable, connected, loaded, list, fetch, till, breaks>>
    BY DEF Broadcast
  <1>2. ShopOK' /\ Tabs'
    BY <1>1, ShopAlone, TabsAlone DEF IInv
  <1>3. CacheOK'
    <2>1. astray' \in BOOLEAN
      BY <1>1, Zenon DEF IInv, CacheOK
    <2> QED BY <1>1, <2>1 DEF IInv, CacheOK, IsList
  <1>4. CASE socket = "registered" /\ Len(wire) < Buffer
    <2>1. wire' = Append(wire, Frame(h)) /\ socket' = socket
      BY <1>1, <1>4 DEF Fanout
    <2>2. astray' = astray
      BY <1>1, <1>4, Zenon DEF IInv, CacheOK
    <2> QED BY <1>1, <1>2, <1>3, <1>4, <2>1, <2>2, FrameWritten DEF IInv
  <1>5. CASE ~(socket = "registered" /\ Len(wire) < Buffer)
    <2>1. wire' = wire /\ (socket' = socket \/ (socket = "registered" /\ socket' = "broken"))
      BY <1>1, <1>5 DEF Fanout
    <2>2. socket' # "registered"
      BY <1>1, <1>5 DEF Fanout
    <2>3. ChannelOK'
      <3>1. \A i \in Positions : (wire[i] = Greeting)' \/ Truthful(wire[i])'
        BY <1>1, <2>1, SameTruth DEF IInv, ChannelOK
      <3> QED BY <1>1, <2>1, <3>1 DEF IInv, ChannelOK, Positions
    <2>4. CASE socket = "greeted"
      <3>1. socket' = "greeted" /\ astray' = TRUE
        BY <1>1, <2>1, <2>4, Zenon
      <3>2. ListCurrent'
        BY <3>1 DEF ListCurrent
      <3>3. \A i \in Positions' : \A p : ~About(wire[i], p)'
        BY <2>3, <3>1 DEF ChannelOK, About, Greeting
      <3>4. WireCurrent'
        BY <3>3 DEF WireCurrent
      <3> QED BY <1>2, <1>3, <2>3, <3>2, <3>4 DEF IInv
    <2>5. CASE socket # "greeted"
      <3>1. ~Hooked'
        BY <2>1, <2>2, <2>5 DEF Hooked
      <3> QED BY <1>2, <1>3, <2>3, <3>1, Unhooked DEF IInv
    <2> QED BY <2>4, <2>5
  <1> QED BY <1>4, <1>5

-----------------------------------------------------------------------------
(* The socket.                                                             *)

LEMMA ConnectKeeps ==
  ASSUME IInv, Connect
  PROVE  IInv'
  <1>1. /\ socket = "down" /\ socket' = "greeted" /\ wire' = <<Greeting>>
        /\ UNCHANGED <<shop, handlers, answers, reachable, connected, cache, till, breaks>>
    BY DEF Connect
  <1>2. ChannelOK'
    BY <1>1, WireGreeted, LiveOrdersAssumption DEF IInv, ChannelOK
  <1>3. ~connected'
    BY <1>1 DEF IInv, ChannelOK
  <1>4. \A i \in Positions' : \A p : ~About(wire[i], p)'
    BY <1>1, <1>2 DEF ChannelOK, About, Greeting
  <1>5. WireCurrent' /\ ListCurrent'
    BY <1>3, <1>4 DEF WireCurrent, ListCurrent
  <1>6. breaks' \in 0..MaxBreaks
    BY <1>1 DEF IInv, CacheOK
  <1> QED BY <1>1, <1>2, <1>5, <1>6, ShopAlone, CacheAlone, TabsAlone DEF IInv

LEMMA RegisterKeeps ==
  ASSUME IInv, Register
  PROVE  IInv'
  <1>1. /\ socket = "greeted" /\ socket' = "registered"
        /\ UNCHANGED <<shop, handlers, answers, wire, reachable, connected, cache, till, breaks>>
    BY DEF Register
  <1>2. ChannelOK'
    <2>1. \A i \in Positions : (wire[i] = Greeting)' \/ Truthful(wire[i])'
      BY <1>1, SameTruth DEF IInv, ChannelOK
    <2> QED BY <1>1, <2>1 DEF IInv, ChannelOK, Positions
  <1>3. \A o : (OnWire(o)' <=> OnWire(o)) /\ (Pending(o)' <=> Pending(o))
    BY <1>1 DEF OnWire, Pending, Positions, shop
  <1>4. WireCurrent'
    BY <1>1, <1>3 DEF IInv, WireCurrent, Hooked, Positions, shop
  <1>5. ListCurrent'
    <2>1. UNCHANGED <<connected, astray, fetch, loaded, list>>
      BY <1>1 DEF cache
    <2>2. Hooked
      BY <1>1 DEF Hooked
    <2> QED BY <1>1, <1>3, <2>1, <2>2, SameTruth DEF IInv, ListCurrent
  <1>6. breaks' \in 0..MaxBreaks
    BY <1>1 DEF IInv, CacheOK
  <1> QED BY <1>1, <1>2, <1>4, <1>5, <1>6, ShopAlone, CacheAlone, TabsAlone DEF IInv

(* The socket breaks, or is known to be gone. *)
LEMMA DroppedKeeps ==
  ASSUME IInv, UNCHANGED <<shop, handlers, answers, cache, till>>,
         \/ socket' = "broken" /\ UNCHANGED <<wire, connected>>
         \/ socket' = "down" /\ wire' = <<>> /\ connected' = FALSE,
         reachable' \in BOOLEAN, breaks' \in 0..MaxBreaks
  PROVE  IInv'
  <1>1. ~Hooked'
    BY DEF Hooked
  <1>2. CASE socket' = "broken" /\ UNCHANGED <<wire, connected>>
    <2>1. \A i \in Positions : (wire[i] = Greeting)' \/ Truthful(wire[i])'
      BY <1>2, SameTruth DEF IInv, ChannelOK
    <2>2. ChannelOK'
      BY <1>2, <2>1 DEF IInv, ChannelOK, Positions
    <2> QED BY <1>1, <2>2, Unhooked, ShopAlone, CacheAlone, TabsAlone DEF IInv
  <1>3. CASE socket' = "down" /\ wire' = <<>> /\ connected' = FALSE
    <2>1. ChannelOK'
      <3>1. (\E S : wire' \in Seq(S)) /\ Len(wire') = 0 /\ Positions' = {}
        BY <1>3, WireCleared
      <3>2. Len(wire') <= Buffer
        BY <3>1, LiveOrdersAssumption
      <3>3. connected' \in BOOLEAN /\ ~connected'
        BY <1>3, Zenon
      <3> QED BY <1>3, <3>1, <3>2, <3>3 DEF ChannelOK
    <2> QED BY <1>1, <2>1, Unhooked, ShopAlone, CacheAlone, TabsAlone DEF IInv
  <1> QED BY <1>2, <1>3

LEMMA DropKeeps ==
  ASSUME IInv, Break \/ CloseSeen \/ ReachabilityChanges
  PROVE  IInv'
  <1>1. MaxBreaks \in Nat /\ breaks \in 0..MaxBreaks /\ reachable \in BOOLEAN
    BY LiveOrdersAssumption DEF IInv, CacheOK, ChannelOK
  <1>2. breaks' = breaks \/ (breaks' = breaks + 1 /\ breaks < MaxBreaks)
    BY DEF Break, CloseSeen, ReachabilityChanges
  <1>3. breaks' \in 0..MaxBreaks
    BY <1>1, <1>2
  <1>4. reachable' \in BOOLEAN
    BY <1>1, Zenon DEF Break, CloseSeen, ReachabilityChanges
  <1>5. /\ UNCHANGED <<shop, handlers, answers, cache, till>>
        /\ \/ socket' = "broken" /\ UNCHANGED <<wire, connected>>
           \/ socket' = "down" /\ wire' = <<>> /\ connected' = FALSE
    BY DEF Break, CloseSeen, ReachabilityChanges
  <1> QED BY <1>3, <1>4, <1>5, DroppedKeeps

(* Whoever asks anew waits for an answer that is read later, or has        *)
(* noted that it does not.                                                 *)
LEMMA Invalidated ==
  ASSUME CacheOK, Invalidate
  PROVE  /\ fetch' = Asked \/ (fetch' = fetch /\ astray' = TRUE)
         /\ astray' \in BOOLEAN
  BY Zenon DEF Invalidate, CacheOK

(* The rest of the wire, once its first frame is read. *)
LEMMA FrameTaken ==
  ASSUME IInv, wire # <<>>, wire' = Tail(wire),
         UNCHANGED <<shop, handlers, socket, reachable>>, connected' \in BOOLEAN
  PROVE  ChannelOK' /\ WireCurrent'
  <1>1. /\ \E S : wire' \in Seq(S)
        /\ Len(wire) \in Nat \ {0} /\ Len(wire') = Len(wire) - 1
        /\ \A i \in Positions' : i + 1 \in Positions /\ wire'[i] = wire[i + 1]
        /\ \A i \in Positions : i = 1 \/ (i - 1 \in Positions' /\ wire'[i - 1] = wire[i])
    BY WireRead DEF IInv
  <1>2. ChannelOK'
    <2>1. \A i \in Positions' : (wire[i] = Greeting)' \/ Truthful(wire[i])'
      BY <1>1, SameTruth DEF IInv, ChannelOK
    <2>2. Len(wire') <= Buffer
      BY <1>1, LiveOrdersAssumption DEF IInv, ChannelOK
    <2>3. socket' = "greeted" => \A i \in Positions' : (wire[i] = Greeting)'
      BY <1>1 DEF IInv, ChannelOK
    <2> QED BY <1>1, <2>1, <2>2, <2>3 DEF IInv, ChannelOK
  <1>3. WireCurrent'
    <2> SUFFICES ASSUME Hooked, NEW i \in Positions', NEW p \in Orders, About(wire'[i], p),
                        \A j \in Positions' : j > i => ~About(wire'[j], p)
                 PROVE  wire'[i].version = server'[p].version \/ wire'[i].late \/ Pending(p)'
      BY DEF WireCurrent, Hooked
    <2>1. i + 1 \in Positions /\ wire'[i] = wire[i + 1] /\ i \in Int
      BY <1>1 DEF Positions
    <2>2. ASSUME NEW j \in Positions, j > i + 1
          PROVE  ~About(wire[j], p)
      <3>1. j \in Int /\ j # 1 /\ j - 1 > i
        BY <2>1, <2>2 DEF Positions
      <3>2. j - 1 \in Positions' /\ wire'[j - 1] = wire[j]
        BY <1>1, <3>1
      <3> QED BY <3>1, <3>2
    <2>3. wire[i + 1].version = server[p].version \/ wire[i + 1].late \/ Pending(p)
      BY <2>1, <2>2 DEF IInv, WireCurrent
    <2>4. Pending(p)' <=> Pending(p)
      BY DEF Pending, shop
    <2> QED BY <2>1, <2>3, <2>4 DEF shop
  <1> QED BY <1>2, <1>3
(* What a patch makes of the list. *)
LEMMA PatchedFields ==
  ASSUME NEW f, f.kind \in Kinds \ {"synced"}, f.order \in Orders, f.version \in Versions,
         IsList(list)
  PROVE  /\ IsList(Patched(f)) /\ Patched(f) = [o \in DOMAIN Patched(f) |-> Patched(f)[o]]
         /\ f.order \in DOMAIN Patched(f) <=> f.kind \in {"created", "updated"}
         /\ f.order \in DOMAIN Patched(f) => Patched(f)[f.order] = f.version
         /\ \A o \in Orders \ {f.order} :
              /\ o \in DOMAIN Patched(f) <=> o \in DOMAIN list
              /\ o \in DOMAIN list => Patched(f)[o] = list[o]
  <1>1. CASE f.kind \in {"created", "updated"}
    <2>1. Patched(f) = [o \in DOMAIN list \cup {f.order} |-> IF o = f.order THEN f.version ELSE list[o]]
      BY <1>1 DEF Patched
    <2> QED BY <1>1, <2>1 DEF IsList
  <1>2. CASE f.kind \notin {"created", "updated"}
    <2>1. Patched(f) = [o \in DOMAIN list \ {f.order} |-> list[o]]
      BY <1>2 DEF Patched
    <2> QED BY <1>2, <2>1 DEF IsList
  <1> QED BY <1>1, <1>2

(* A frame that patches the list. *)
LEMMA PatchKeeps ==
  ASSUME IInv, NEW f, f = Head(wire), wire # <<>>, wire' = Tail(wire),
         f.kind \notin {"auth_ok", "synced"},
         list' = IF loaded THEN Patched(f) ELSE list,
         astray' = (astray \/ f.late \/ fetch.at = "read"),
         UNCHANGED <<shop, handlers, socket, connected, loaded, fetch, breaks>>
  PROVE  CacheOK' /\ ListCurrent'
  <1>1. f = wire[1] /\ 1 \in Positions
    BY WireRead DEF IInv
  <1>2. Truthful(f) /\ f.kind \in Kinds \ {"synced"} /\ f.order \in Orders /\ f.version \in Nat
    BY <1>1 DEF IInv, ChannelOK, Truthful, Greeting
  <1>3. f.version \in Versions
    <2>1. server[f.order].version \in Versions /\ f.version <= server[f.order].version
      BY <1>2, VersionsInRange DEF IInv, Truthful
    <2> QED BY <1>2, <2>1, LiveOrdersAssumption DEF Versions
  <1>4. PICK l : l = Patched(f)
    OBVIOUS
  <1>5. /\ IsList(l) /\ l = [o \in DOMAIN l |-> l[o]]
        /\ f.order \in DOMAIN l <=> f.kind \in {"created", "updated"}
        /\ f.order \in DOMAIN l => l[f.order] = f.version
        /\ \A o \in Orders \ {f.order} :
             /\ o \in DOMAIN l <=> o \in DOMAIN list
             /\ o \in DOMAIN list => l[o] = list[o]
    BY <1>2, <1>3, <1>4, PatchedFields DEF IInv, CacheOK
  <1>6. list' = IF loaded THEN l ELSE list
    BY <1>4
  <1>7. CacheOK'
    <2>1. astray' \in BOOLEAN
      BY Zenon
    <2>2. IsList(list)' /\ (loaded => list = [o \in DOMAIN list |-> list[o]])'
      BY <1>5, <1>6 DEF IInv, CacheOK, IsList
    <2> QED BY <2>1, <2>2 DEF IInv, CacheOK, IsList
  <1>8. ListCurrent'
    <2> SUFFICES ASSUME Hooked, connected, ~astray, ~f.late, fetch.at # "read", loaded,
                        fetch = None, NEW o \in Orders
                 PROVE  RightAbout(list, o)' \/ Pending(o)' \/ OnWire(o)'
      BY Zenon DEF ListCurrent, Hooked
    <2>1. list' = l /\ server' = server
      BY <1>6 DEF shop
    <2>2. Pending(o)' <=> Pending(o)
      BY DEF Pending, shop
    <2>3. \A i \in Positions : i = 1 \/ (i - 1 \in Positions' /\ wire'[i - 1] = wire[i])
      BY WireRead DEF IInv
    <2>4. OnWire(o)' \/ \A i \in Positions : i # 1 => ~About(wire[i], o)
      BY <2>3 DEF OnWire
    <2>5. CASE o # f.order
      <3>1. RightAbout(list, o) \/ Pending(o) \/ OnWire(o)
        BY DEF IInv, ListCurrent
      <3>2. ~About(wire[1], o)
        BY <1>1, <2>5 DEF About
      <3>3. OnWire(o) => OnWire(o)'
        BY <2>4, <3>2 DEF OnWire
      <3>4. RightAbout(list, o) => RightAbout(list, o)'
        BY <1>5, <2>1, <2>5 DEF RightAbout
      <3> QED BY <2>2, <3>1, <3>3, <3>4
    <2>6. CASE o = f.order
      <3> SUFFICES ASSUME ~OnWire(o)', ~Pending(o)
                   PROVE  RightAbout(list, o)'
        BY <2>2
      <3>1. About(wire[1], o)
        BY <1>1, <2>6 DEF About
      <3>2. \A j \in Positions : j > 1 => ~About(wire[j], o)
        BY <2>4 DEF Positions
      <3>3. f.version = server[o].version
        BY <1>1, <3>1, <3>2 DEF IInv, WireCurrent
      <3>4. server[o].open <=> f.kind \notin {"voided", "paid"}
        BY <1>2, <2>6, <3>3 DEF Truthful
      <3>5. server[o].open <=> f.kind \in {"created", "updated"}
        BY <1>2, <3>4 DEF Kinds
      <3> QED BY <1>5, <2>1, <2>6, <3>3, <3>5 DEF RightAbout
    <2> QED BY <2>5, <2>6
  <1> QED BY <1>7, <1>8

LEMMA ReceiveKeeps ==
  ASSUME IInv, Receive
  PROVE  IInv'
  <1>1. PICK f : f = Head(wire)
    OBVIOUS
  <1>2. /\ wire # <<>> /\ wire' = Tail(wire)
        /\ UNCHANGED <<shop, handlers, answers, socket, reachable, breaks>>
    BY DEF Receive
  <1>3. ShopOK'
    BY <1>2, ShopAlone DEF IInv
  <1>4. CASE f.kind \in {"auth_ok", "synced"}
    <2>1. /\ connected' = (connected \/ f.kind = "auth_ok")
          /\ Invalidate /\ UNCHANGED <<loaded, list, till>>
      BY <1>1, <1>4 DEF Receive
    <2>2. /\ fetch' = Asked \/ (fetch' = fetch /\ astray' = TRUE)
          /\ astray' \in BOOLEAN
      BY <2>1, Invalidated DEF IInv
    <2>3. CacheOK'
      BY <1>2, <2>1, <2>2 DEF IInv, CacheOK, IsList, Asked, None
    <2>4. ListCurrent'
      BY <2>2 DEF ListCurrent, Asked, None
    <2>5. ChannelOK' /\ WireCurrent'
      <3>1. connected' \in BOOLEAN
        BY <2>1, Zenon
      <3> QED BY <1>2, <3>1, FrameTaken
    <2> QED BY <1>3, <2>1, <2>3, <2>4, <2>5, TabsAlone DEF IInv
  <1>5. CASE f.kind \notin {"auth_ok", "synced"}
    <2>1. /\ list' = IF loaded THEN Patched(f) ELSE list
          /\ astray' = (astray \/ f.late \/ fetch.at = "read")
          /\ UNCHANGED <<connected, loaded, fetch>>
          /\ TabSync(tabs, active, dialog)
      BY <1>1, <1>5, Zenon DEF Receive
    <2>2. CacheOK' /\ ListCurrent'
      BY <1>1, <1>2, <1>5, <2>1, PatchKeeps
    <2>3. ChannelOK' /\ WireCurrent'
      BY <1>2, <2>1, FrameTaken DEF IInv, ChannelOK
    <2> QED BY <1>3, <2>1, <2>2, <2>3, TabsFollow DEF IInv
  <1> QED BY <1>4, <1>5

-----------------------------------------------------------------------------
(* The till.                                                               *)

LEMMA AnsweredKeeps ==
  ASSUME IInv, NEW r \in answers, Answered(r)
  PROVE  IInv'
  <1>1. /\ answers' = answers \ {r} /\ Invalidate
        /\ UNCHANGED <<loaded, list, shop, handlers, channel, breaks>>
    BY DEF Answered
  <1>2. /\ fetch' = Asked \/ (fetch' = fetch /\ astray' = TRUE)
        /\ astray' \in BOOLEAN
    BY <1>1, Invalidated DEF IInv
  <1>3. CacheOK'
    BY <1>1, <1>2 DEF IInv, CacheOK, IsList, Asked, None
  <1>4. ShopOK' /\ ChannelOK' /\ WireCurrent' /\ ListCurrent'
    BY <1>1, <1>2, SameTruth, ShopAlone, ChannelAlone, WireAlone, ListAlone DEF IInv, channel
  <1>5. r.order \in Orders
    BY DEF IInv, ShopOK
  <1>6. CASE r.kind = "created"
    <2>1. TabSync(tabs \cup {r.order}, r.order, dialog)
      BY <1>6 DEF Answered
    <2>2. Tabs'
      BY <1>5, <2>1, TabsSynced DEF IInv, Tabs
    <2> QED BY <1>3, <1>4, <2>2 DEF IInv
  <1>7. CASE r.kind = "paid"
    <2>1. PICK dlg : dlg = [kind |-> "receipt", order |-> r.order]
      OBVIOUS
    <2>2. TabSync(tabs, active, dlg)
      BY <1>7, <2>1 DEF Answered
    <2>3. dlg.kind = "receipt" /\ dlg.order = r.order
      BY <2>1
    <2>4. active \in Orders \cup {NoOrder} /\ tabs \subseteq Orders
      BY DEF IInv, Tabs
    <2>5. Tabs'
      BY <1>5, <2>2, <2>3, <2>4, TabsSynced DEF IInv
    <2> QED BY <1>3, <1>4, <2>5 DEF IInv
  <1>8. CASE r.kind \notin {"created", "paid"}
    <2>1. UNCHANGED till
      BY <1>8 DEF Answered
    <2> QED BY <1>3, <1>4, <2>1, TabsAlone DEF IInv
  <1> QED BY <1>6, <1>7, <1>8

(* What the cashier does touches neither the orders nor what comes of them. *)
LEMMA CashierKeeps ==
  ASSUME IInv, UNCHANGED <<shop, handlers, answers, channel, loaded, list, fetch, astray, breaks>>,
         Tabs'
  PROVE  IInv'
  <1>1. UNCHANGED cache /\ breaks' \in 0..MaxBreaks
    BY DEF cache, IInv, CacheOK
  <1> QED BY <1>1, SameTruth, ShopAlone, ChannelAlone, CacheAlone, WireAlone, ListAlone
          DEF IInv, channel

LEMMA TabKeeps ==
  ASSUME IInv, ShowOverview \/ \E o \in Orders : OpenTab(o) \/ CloseTab(o)
  PROVE  IInv'
  <1>1. /\ dialog = Closed
        /\ UNCHANGED <<shop, handlers, answers, channel, loaded, list, fetch, astray, breaks>>
    BY DEF OpenTab, CloseTab, ShowOverview
  <1>2. dialog.kind = "none" /\ dialog.order = NoOrder
    BY <1>1 DEF Closed
  <1>3. tabs \subseteq Orders /\ active \in Orders \cup {NoOrder}
    BY DEF IInv, Tabs
  <1>4. \E ts \in SUBSET Orders, act \in Orders \cup {NoOrder} : TabSync(ts, act, dialog)
    <2>1. ASSUME NEW o \in Orders, OpenTab(o)
          PROVE  \E ts \in SUBSET Orders, act \in Orders \cup {NoOrder} : TabSync(ts, act, dialog)
      BY <1>3, <2>1 DEF OpenTab
    <2>2. ASSUME NEW o \in Orders, CloseTab(o)
          PROVE  \E ts \in SUBSET Orders, act \in Orders \cup {NoOrder} : TabSync(ts, act, dialog)
      <3>1. PICK next \in CASE active # o -> {active}
                            [] tabs = {o} -> {NoOrder}
                            [] OTHER      -> tabs \ {o} : TabSync(tabs \ {o}, next, dialog)
        BY <2>2 DEF CloseTab
      <3>2. next \in Orders \cup {NoOrder}
        BY <1>3, <3>1
      <3> QED BY <1>3, <3>1, <3>2
    <2>3. CASE ShowOverview
      BY <1>3, <2>3 DEF ShowOverview
    <2> QED BY <2>1, <2>2, <2>3
  <1>5. Tabs'
    BY <1>1, <1>2, <1>4, TabsSynced DEF IInv
  <1> QED BY <1>1, <1>5, CashierKeeps

LEMMA DialogKeeps ==
  ASSUME IInv, OpenDialog \/ CloseDialog
  PROVE  IInv'
  <1>1. UNCHANGED <<shop, handlers, answers, channel, loaded, list, fetch, astray, breaks>>
    BY DEF OpenDialog, CloseDialog
  <1>2. tabs \subseteq Orders /\ active \in tabs \cup {NoOrder}
    BY DEF IInv, Tabs
  <1>3. CASE OpenDialog
    <2>1. PICK dlg : dlg = [kind |-> "money", order |-> active]
      OBVIOUS
    <2>2. dlg.kind = "money" /\ dlg.order = active
      BY <2>1
    <2>3. active \in tabs /\ TabSync(tabs, active, dlg)
      BY <1>2, <1>3, <2>1 DEF OpenDialog
    <2>4. Tabs'
      BY <1>2, <2>2, <2>3, TabsSynced DEF IInv
    <2> QED BY <1>1, <2>4, CashierKeeps
  <1>4. CASE CloseDialog
    <2>1. Closed.kind = "none" /\ Closed.order = NoOrder
      BY DEF Closed
    <2>2. TabSync(tabs, active, Closed) \/ TabSync(tabs \ {dialog.order}, active, Closed)
      BY <1>4 DEF CloseDialog
    <2>3. \E ts \in SUBSET Orders : TabSync(ts, active, Closed)
      BY <1>2, <2>2
    <2>4. Tabs'
      BY <1>2, <2>1, <2>3, TabsSynced DEF IInv
    <2> QED BY <1>1, <2>4, CashierKeeps
  <1> QED BY <1>3, <1>4

-----------------------------------------------------------------------------
(* The whole.                                                              *)

LEMMA InitInv == Init => IInv
  <1> SUFFICES ASSUME Init PROVE IInv
    OBVIOUS
  <1> USE DEF Init
  <1>1. server \in [Orders -> [version : Nat, open : BOOLEAN]]
    OBVIOUS
  <1>2. ShopOK
    BY <1>1, LiveOrdersAssumption DEF ShopOK
  <1>3. /\ wire \in Seq({}) /\ Len(wire) = 0 /\ Positions = {}
    BY DEF Positions
  <1>4. ChannelOK
    <2>1. 0 <= Buffer
      BY LiveOrdersAssumption
    <2>2. \E S : wire \in Seq(S)
      BY <1>3
    <2> QED BY <1>3, <2>1, <2>2 DEF ChannelOK
  <1>5. CacheOK
    <2>1. 0 \in 0..MaxBreaks
      BY LiveOrdersAssumption
    <2>2. DOMAIN list = {}
      OBVIOUS
    <2> QED BY <2>1, <2>2 DEF CacheOK, IsList
  <1>6. Tabs
    BY DEF Tabs, Closed
  <1>7. ~Hooked
    BY DEF Hooked
  <1> QED BY <1>2, <1>4, <1>5, <1>6, <1>7 DEF IInv, WireCurrent, ListCurrent

LEMMA StepInv == IInv /\ Next => IInv'
  <1> SUFFICES ASSUME IInv, Next PROVE IInv'
    OBVIOUS
  <1>1. CASE Poll \/ FetchGivesUp \/ FetchRead \/ FetchArrives
    BY <1>1, PollKeeps, FetchReadKeeps, FetchArrivesKeeps
  <1>2. CASE Connect \/ Register \/ Break \/ CloseSeen \/ ReachabilityChanges \/ Receive
    BY <1>2, ConnectKeeps, RegisterKeeps, DropKeeps, ReceiveKeeps
  <1>3. CASE \E h \in handlers : Broadcast(h)
    BY <1>3, BroadcastKeeps
  <1>4. CASE \E r \in answers : Answered(r)
    BY <1>4, AnsweredKeeps
  <1>5. CASE \E o \in Orders, kind \in Kinds : OtherCommits(kind, o) \/ TillCommits(kind, o)
    BY <1>5, CommitKeeps DEF OtherCommits, TillCommits
  <1>6. CASE \E o \in Orders : OpenTab(o) \/ CloseTab(o)
    BY <1>6, TabKeeps
  <1>7. CASE ShowOverview
    BY <1>7, TabKeeps
  <1>8. CASE OpenDialog \/ CloseDialog
    BY <1>8, DialogKeeps
  <1> QED BY <1>1, <1>2, <1>3, <1>4, <1>5, <1>6, <1>7, <1>8 DEF Next, Kinds

LEMMA StutterInv == IInv /\ UNCHANGED vars => IInv'
  <1> SUFFICES ASSUME IInv, UNCHANGED vars PROVE IInv'
    OBVIOUS
  <1>1. Tabs'
    BY TabsAlone DEF IInv, vars
  <1> QED BY <1>1, CashierKeeps DEF vars, cache

THEOREM Invariance == Spec => []IInv
  <1>1. IInv /\ [Next]_vars => IInv'
    BY StepInv, StutterInv
  <1> QED BY InitInv, <1>1, PTL DEF Spec
-----------------------------------------------------------------------------
(* The results.                                                            *)

(***************************************************************************)
(* The state has its type: every frame, handler, tab and list entry is of  *)
(* an order of the shop and of a version it had, and what waits for a till *)
(* never exceeds Client.send.                                              *)
(***************************************************************************)
THEOREM Typing == Spec => []TypeOK
  <1>1. IInv => TypeOK
    <2> SUFFICES ASSUME IInv PROVE TypeOK
      OBVIOUS
    <2>1. ASSUME NEW c, Truthful(c)
          PROVE  c.order \in Orders /\ c.version \in Versions
      <3>1. c.order \in Orders /\ c.version \in Nat /\ c.version <= server[c.order].version
        BY <2>1 DEF Truthful
      <3>2. server[c.order].version \in Versions
        BY <3>1, VersionsInRange DEF IInv
      <3> QED BY <3>1, <3>2, LiveOrdersAssumption DEF Versions
    <2>2. server \in [Orders -> [version : Versions, open : BOOLEAN]]
      <3>1. \A o \in Orders : server[o] \in [version : Nat, open : BOOLEAN]
        BY DEF IInv, ShopOK
      <3>2. \A o \in Orders : server[o].version \in Versions
        BY VersionsInRange DEF IInv
      <3>3. \A o \in Orders : server[o] \in [version : Versions, open : BOOLEAN]
        BY <3>1, <3>2
      <3>4. server = [o \in Orders |-> server[o]]
        BY DEF IInv, ShopOK
      <3> QED BY <3>3, <3>4
    <2>3. \A h \in handlers \cup answers : h.order \in Orders /\ h.version \in Versions
      BY <2>1 DEF IInv, ShopOK
    <2>4. \A i \in 1..Len(wire) : wire[i] # Greeting => wire[i].order \in Orders
      BY <2>1 DEF IInv, ChannelOK, Positions
    <2>5. changes \in 0..MaxChanges /\ breaks \in 0..MaxBreaks
      BY DEF IInv, ShopOK, CacheOK
    <2> QED BY <2>2, <2>3, <2>4, <2>5 DEF TypeOK, IInv, ChannelOK, CacheOK, IsList, Tabs
  <1> QED BY Invariance, <1>1, PTL

(***************************************************************************)
(* With the channel live and everything drained, the list is what the      *)
(* workstation has, or one of the named accidents has been noted since the *)
(* list was read: nothing else can leave the screen wrong.                 *)
(***************************************************************************)
THEOREM QuietIsFresh == Spec => []QuietMeansFresh
  <1>1. IInv => QuietMeansFresh
    <2> SUFFICES ASSUME IInv, Quiet, ~astray PROVE list = OpenOrders
      BY DEF QuietMeansFresh
    <2>1. Hooked /\ connected /\ loaded /\ fetch = None
      BY DEF Quiet, Live, Hooked
    <2>2. \A o : ~Pending(o) /\ ~OnWire(o)
      BY DEF Quiet, Pending, OnWire, Positions
    <2>3. \A o \in Orders : RightAbout(list, o)
      BY <2>1, <2>2 DEF IInv, ListCurrent
    <2>4. \A o \in Orders : RightAbout(OpenOrders, o)
      BY OpenOrdersRight DEF IInv
    <2>5. DOMAIN list \subseteq Orders /\ DOMAIN OpenOrders \subseteq Orders
      BY OpenOrdersRight DEF IInv, CacheOK, IsList
    <2>6. DOMAIN list = DOMAIN OpenOrders
      BY <2>3, <2>4, <2>5 DEF RightAbout
    <2>7. \A o \in DOMAIN list : list[o] = OpenOrders[o]
      BY <2>3, <2>4, <2>5, <2>6 DEF RightAbout
    <2>8. list = [o \in DOMAIN list |-> list[o]]
      BY <2>1 DEF IInv, CacheOK
    <2>9. OpenOrders = [o \in DOMAIN OpenOrders |-> OpenOrders[o]]
      BY OpenOrdersRight DEF IInv
    <2> QED BY <2>6, <2>7, <2>8, <2>9
  <1> QED BY Invariance, <1>1, PTL

(* An order under the dialog, once its tab is there, keeps it through any  *)
(* event that leaves the dialog and the active tab to the cashier.         *)
LEMMA PinnedTab ==
  ASSUME NEW ts, NEW act, NEW dlg, TabSync(ts, act, dlg),
         \/ dlg.kind = "money" /\ act = active /\ dlg.order = act
         \/ dlg.kind = "receipt",
         dlg.order \in ts
  PROVE  dlg.order \in tabs'
  <1>1. dialog' = dlg
    BY DEF TabSync
  <1>2. dlg.order \in Keep(act, dlg)
    BY DEF Keep
  <1> QED BY <1>1, <1>2 DEF TabSync

(***************************************************************************)
(* A tab with money or a receipt over it is taken away by no event, fetch, *)
(* reconnect or poll: by the cashier, or by an answer the till itself has  *)
(* been waiting for.                                                       *)
(***************************************************************************)
THEOREM DialogsKeepTheirTab == Spec => PinHolds
  <1> DEFINE Taken == \E r \in answers \ answers' :
                         \/ r.kind = "created" /\ dialog.kind = "money"
                         \/ r.kind = "paid" /\ r.order # dialog.order
             Pinned == dialog # Closed /\ dialog.order \in tabs =>
                         dialog.order \in tabs' \/ CloseDialog \/ Taken
  <1>1. IInv /\ [Next]_vars => Pinned
    <2> SUFFICES ASSUME IInv, [Next]_vars, dialog # Closed, dialog.order \in tabs
                 PROVE  dialog.order \in tabs' \/ CloseDialog \/ Taken
      OBVIOUS
    <2> HIDE DEF Taken
    <2>1. \/ dialog.kind = "money" /\ dialog.order = active
          \/ dialog.kind = "receipt"
      BY DEF IInv, Tabs
    <2>2. CASE UNCHANGED till
      BY <2>2 DEF till
    <2>3. CASE TabSync(tabs, active, dialog)
      BY <2>1, <2>3, PinnedTab
    <2>4. ASSUME NEW r \in answers, Answered(r)
          PROVE  dialog.order \in tabs' \/ Taken
      <3>1. r \in answers \ answers'
        BY <2>4 DEF Answered
      <3>2. CASE r.kind = "created" /\ dialog.kind = "receipt"
        <4>1. TabSync(tabs \cup {r.order}, r.order, dialog)
          BY <2>4, <3>2 DEF Answered
        <4> QED BY <3>2, <4>1, PinnedTab
      <3>3. CASE r.kind = "paid" /\ r.order = dialog.order
        <4>1. PICK dlg : dlg = [kind |-> "receipt", order |-> r.order]
          OBVIOUS
        <4>2. dlg.kind = "receipt" /\ dlg.order = dialog.order /\ TabSync(tabs, active, dlg)
          BY <2>4, <3>3, <4>1 DEF Answered
        <4> QED BY <4>2, PinnedTab
      <3>4. CASE r.kind \notin {"created", "paid"}
        BY <2>4, <3>4 DEF Answered, till
      <3>5. CASE \/ r.kind = "created" /\ dialog.kind = "money"
                 \/ r.kind = "paid" /\ r.order # dialog.order
        BY <3>1, <3>5 DEF Taken
      <3> QED BY <2>1, <3>2, <3>3, <3>4, <3>5
    <2>5. CASE Poll \/ FetchRead \/ FetchGivesUp \/ FetchArrives
      BY <2>2, <2>3, <2>5 DEF Poll, FetchRead, FetchGivesUp, FetchArrives
    <2>6. CASE Connect \/ Register \/ Break \/ CloseSeen \/ ReachabilityChanges
      BY <2>2, <2>6 DEF Connect, Register, Break, CloseSeen, ReachabilityChanges
    <2>7. CASE Receive
      BY <2>2, <2>3, <2>7 DEF Receive
    <2>8. CASE \E h \in handlers : Broadcast(h)
      BY <2>2, <2>8 DEF Broadcast
    <2>9. CASE \E o \in Orders, kind \in Kinds : OtherCommits(kind, o) \/ TillCommits(kind, o)
      BY <2>2, <2>9 DEF OtherCommits, TillCommits
    <2>10. ~OpenDialog /\ ~ShowOverview /\ \A o : ~OpenTab(o) /\ ~CloseTab(o)
      BY DEF OpenDialog, ShowOverview, OpenTab, CloseTab
    <2>11. CASE UNCHANGED vars
      BY <2>2, <2>11 DEF vars
    <2> QED BY <2>4, <2>5, <2>6, <2>7, <2>8, <2>9, <2>10, <2>11 DEF Next, Kinds
  <1>2. IInv /\ [Next]_vars => [Pinned]_vars
    BY <1>1
  <1> QED BY Invariance, <1>2, PTL DEF Spec, PinHolds
=============================================================================
