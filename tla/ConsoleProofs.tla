---------------------------- MODULE ConsoleProofs ----------------------------
(***************************************************************************)
(* Late replies change no traffic that was not confirmed, and the simple   *)
(* form saves the item it opened, for any number of sites, functions in    *)
(* progress and items.                                                     *)
(***************************************************************************)
EXTENDS Console, SequenceTheorems, TLAPS

Versions == (Sites \cup {NoSite}) \X Nat

Site == [lastNo : Nat, draft : Nat, active : Nat, enabled : BOOLEAN, deleted : BOOLEAN]

Page ==
    [site : Sites \cup {NoSite}, draft : Versions, items : Seq(Items), index : Nat,
     opened : Items \cup {NoItem}, rewritten : BOOLEAN]

Locals ==
    [op : {"none", "template", "save", "activate", "enabled", "delete", "reload"},
     site : Sites \cup {NoSite}, version : Versions, wanted : BOOLEAN, served : BOOLEAN]

\* A save is asked for once a form was opened.
Function == {f \in Locals : f.op = "save" /\ ~f.served => f.site \in Sites}

StoreType == store \in [Sites -> Site]
CallType == call \in [Calls -> Function]

\* The form is well-formed, and the place that is edited holds the item opened.
PageInv == page \in Page /\ EditsOwnItem

ConsoleInv == StoreType /\ CallType /\ PageInv

-----------------------------------------------------------------------------
(* The form.                                                                *)

\* A form without an open item is as good as its fields.
LEMMA NothingOpen ==
    ASSUME NEW p \in Page, page' = ResetItemEditor(p)
    PROVE  PageInv'
<1>1. page' = [p EXCEPT !.index = 0, !.opened = NoItem, !.rewritten = FALSE]
  BY DEF ResetItemEditor
<1>2. 0 \in Nat /\ NoItem \in Items \cup {NoItem} /\ FALSE \in BOOLEAN
  OBVIOUS
<1>3. page' \in Page
  BY <1>1, <1>2, ZenonT(40) DEF Page
<1>4. page'.index = 0
  BY <1>1 DEF Page
<1> QED BY <1>3, <1>4 DEF PageInv, EditsOwnItem

LEMMA FillRouteInv ==
    ASSUME PageInv, NEW s \in Sites \cup {NoSite}, NEW draft \in Versions,
           NEW items \in Seq(Items), FillRoute(s, draft, items)
    PROVE  PageInv'
<1> DEFINE p == [page EXCEPT !.site = s, !.draft = draft, !.items = items]
<1>1. p \in Page
  BY DEF PageInv, Page
<1>2. page' = ResetItemEditor(p)
  BY DEF FillRoute
<1> QED BY <1>1, <1>2, NothingOpen

LEMMA EditItemInv ==
    ASSUME PageInv, NEW k \in 1..Len(page.items), EditItem(k)
    PROVE  PageInv'
<1>1. page \in Page /\ page.items \in Seq(Items) /\ k \in Nat /\ k \in DOMAIN page.items
  BY DEF PageInv, Page
<1>2. page.items[k] \in Items
  BY <1>1
<1>3. page' = [page EXCEPT !.index = k, !.opened = page.items[k], !.rewritten = FALSE]
  BY DEF EditItem
<1>4. page' \in Page
  BY <1>1, <1>2, <1>3 DEF Page
<1>5. page'.index = k /\ page'.items = page.items /\ page'.opened = page.items[k]
  BY <1>1, <1>3 DEF Page
<1> QED BY <1>1, <1>4, <1>5 DEF PageInv, EditsOwnItem

\* Another list of items, whatever becomes of it, in a form that is then closed
LEMMA ItemsInv ==
    ASSUME PageInv, NEW items \in Seq(Items), page' = ResetItemEditor([page EXCEPT !.items = items])
    PROVE  PageInv'
<1>1. [page EXCEPT !.items = items] \in Page
  BY DEF PageInv, Page
<1> QED BY <1>1, NothingOpen

LEMMA RemoveItemInv ==
    ASSUME PageInv, NEW k \in 1..Len(page.items), RemoveItem(k)
    PROVE  PageInv'
<1>1. page.items \in Seq(Items)
  BY DEF PageInv, Page
<1>2. RemoveAt(page.items, k) \in Seq(Items)
  BY <1>1 DEF RemoveAt
<1>3. page' = ResetItemEditor([page EXCEPT !.items = RemoveAt(@, k)])
  BY DEF RemoveItem, RemoveAndReset
<1> QED BY <1>2, <1>3, ItemsInv

LEMMA SaveItemInv ==
    ASSUME PageInv, SaveItem
    PROVE  PageInv'
<1>1. page.items \in Seq(Items) /\ page.index \in Nat
  BY DEF PageInv, Page
<1>2. PICK item \in Editable :
        \/ /\ page.index \in 1..Len(page.items) + 1
           /\ page' = ResetItemEditor([page EXCEPT !.items =
                  IF page.index > Len(@) THEN Append(@, item) ELSE [@ EXCEPT ![page.index] = item]])
        \/ page' = ResetItemEditor([page EXCEPT !.items = Append(@, item)])
  BY Zenon DEF SaveItem
<1>3. item \in Items
  BY ConsoleAssumption DEF ConsoleAssumption
<1>4. Append(page.items, item) \in Seq(Items)
  BY <1>1, <1>3
<1>5. page.index \in 1..Len(page.items) => [page.items EXCEPT ![page.index] = item] \in Seq(Items)
  BY <1>1, <1>3, ExceptSeq
<1> DEFINE items == IF page.index > Len(page.items) THEN Append(page.items, item)
                    ELSE [page.items EXCEPT ![page.index] = item]
<1>6. page.index \in 1..Len(page.items) + 1 => items \in Seq(Items)
  <2>1. Len(page.items) \in Nat
    BY <1>1
  <2> QED BY <1>1, <1>4, <1>5, <2>1
<1> QED BY <1>2, <1>4, <1>6, ItemsInv

LEMMA EditJsonInv ==
    ASSUME PageInv, EditJson
    PROVE  PageInv'
<1>1. page \in Page /\ page.index \in Nat
  BY DEF PageInv, Page
<1>2. PICK items \in Seq(Items) :
        page' = [page EXCEPT !.items = items, !.rewritten = page.index # 0]
  BY ConsoleAssumption DEF ConsoleAssumption, EditJson
<1>3. page' \in Page /\ page'.index = page.index /\ page'.rewritten = (page.index # 0)
  BY <1>1, <1>2 DEF Page
<1> QED BY <1>3 DEF PageInv, EditsOwnItem

LEMMA OpenRouteInv ==
    ASSUME PageInv, StoreType, NEW s \in Sites, OpenRoute(s)
    PROVE  PageInv'
<1>1. PICK n \in 0..store[s].lastNo, items \in Lists :
        FillRoute(s, IF n = 0 THEN NoVersion ELSE Version(s, n), items)
  BY DEF OpenRoute
<1>2. store[s].lastNo \in Nat
  BY DEF StoreType, Site
<1>3. (IF n = 0 THEN NoVersion ELSE Version(s, n)) \in Versions
  BY <1>2 DEF NoVersion, Version, Versions
<1>4. items \in Seq(Items)
  BY ConsoleAssumption DEF ConsoleAssumption
<1> QED BY <1>1, <1>3, <1>4, FillRouteInv

LEMMA FormKeeps ==
    ASSUME ConsoleInv, Form
    PROVE  ConsoleInv'
<1>1. UNCHANGED <<store, call>>
  BY DEF Form, OpenRoute, EditItem, RemoveItem, SaveItem, CancelItem, EditJson
<1>2. PageInv'
  <2>1. CASE \E s \in Sites : OpenRoute(s)
    BY <2>1, OpenRouteInv DEF ConsoleInv
  <2>2. CASE \E k \in 1..Len(page.items) : EditItem(k) \/ RemoveItem(k)
    BY <2>2, EditItemInv, RemoveItemInv DEF ConsoleInv
  <2>3. CASE SaveItem
    BY <2>3, SaveItemInv DEF ConsoleInv
  <2>4. CASE CancelItem
    BY <2>4, NothingOpen DEF ConsoleInv, CancelItem, PageInv
  <2>5. CASE EditJson
    BY <2>5, EditJsonInv DEF ConsoleInv
  <2> QED BY <2>1, <2>2, <2>3, <2>4, <2>5 DEF Form
<1> QED BY <1>1, <1>2 DEF ConsoleInv, StoreType, CallType

-----------------------------------------------------------------------------
(* Requests, handlers and replies.                                          *)

LEMMA IdleType == Idle \in Function
<1>1. NoVersion \in Versions
  BY DEF NoVersion, Versions
<1> QED BY <1>1 DEF Idle, Function, Locals

LEMMA PageStays ==
    ASSUME PageInv, UNCHANGED page
    PROVE  PageInv'
BY DEF PageInv, EditsOwnItem

LEMMA CallSet ==
    ASSUME CallType, NEW c \in Calls, NEW f \in Function, call' = [call EXCEPT ![c] = f]
    PROVE  CallType'
BY DEF CallType

LEMMA RequestKeeps ==
    ASSUME ConsoleInv, NEW c \in Calls, Request(c)
    PROVE  ConsoleInv'
<1>1. page.site \in Sites \cup {NoSite} /\ page.draft \in Versions
  BY DEF ConsoleInv, PageInv, Page
<1>2. PICK f : Ask(c, f) /\ f \in Function
  <2>1. CASE NewRoute(c)
    <3>1. [Idle EXCEPT !.op = "template"] \in Function
      BY IdleType DEF Function, Locals
    <3> QED BY <2>1, <3>1 DEF NewRoute
  <2>2. CASE SaveDraft(c)
    <3>1. [Idle EXCEPT !.op = "save", !.site = page.site] \in Function
      BY <1>1, <2>2, IdleType DEF SaveDraft, Function, Locals
    <3> QED BY <2>2, <3>1 DEF SaveDraft
  <2>3. CASE ActivateDraft(c)
    <3>1. [Idle EXCEPT !.op = "activate", !.site = page.site, !.version = page.draft] \in Function
      BY <1>1, IdleType DEF Function, Locals
    <3> QED BY <2>3, <3>1 DEF ActivateDraft
  <2>4. ASSUME NEW s \in Sites, SetRouteEnabled(c, s)
        PROVE  \E f : Ask(c, f) /\ f \in Function
    <3>1. \A wanted \in BOOLEAN :
            [Idle EXCEPT !.op = "enabled", !.site = s, !.wanted = wanted] \in Function
      BY IdleType DEF Function, Locals
    <3> QED BY <2>4, <3>1 DEF SetRouteEnabled
  <2>5. ASSUME NEW s \in Sites, DeleteRoute(c, s)
        PROVE  \E f : Ask(c, f) /\ f \in Function
    <3>1. [Idle EXCEPT !.op = "delete", !.site = s] \in Function
      BY IdleType DEF Function, Locals
    <3> QED BY <2>5, <3>1 DEF DeleteRoute
  <2> QED BY <2>1, <2>2, <2>3, <2>4, <2>5 DEF Request
<1>3. UNCHANGED <<store, page>> /\ call' = [call EXCEPT ![c] = f]
  BY <1>2 DEF Ask
<1> QED BY <1>2, <1>3, CallSet, PageStays DEF ConsoleInv, StoreType

LEMMA ServedType ==
    ASSUME NEW op \in {"activate", "reload"}, NEW c \in Calls, CallType, Served(c, op)
    PROVE  CallType'
<1>1. [Idle EXCEPT !.op = op, !.served = TRUE] \in Function
  BY IdleType DEF Function, Locals
<1> QED BY <1>1, CallSet DEF Served

\* A step of the server changes one row at most, and not the form.
LEMMA NextDraftType ==
    ASSUME StoreType, NEW s \in Sites, NextDraft(s)
    PROVE  StoreType'
<1> DEFINE no == store[s].lastNo + 1
<1>1. store[s] \in Site /\ no \in Nat
  BY DEF StoreType, Site
<1>2. store' = [store EXCEPT ![s].lastNo = no, ![s].draft = no]
  BY DEF NextDraft
<1> HIDE DEF no
<1>3. \A t \in Sites : store'[t] \in Site
  BY <1>1, <1>2 DEF StoreType, Site
<1>4. store' \in [Sites -> Site]
  BY <1>2, <1>3 DEF StoreType
<1> QED BY <1>4 DEF StoreType

LEMMA ActivateType ==
    ASSUME ConsoleInv, NEW c \in Calls, ServeActivate(c)
    PROVE  StoreType'
<1> DEFINE v == call[c].version
           s == v[1]
<1>1. v \in Versions /\ v[2] \in Nat /\ 0 \in Nat
  BY DEF ConsoleInv, CallType, Function, Locals, Versions
<1>2. PICK enabled \in BOOLEAN :
        store' = [store EXCEPT ![s].active = v[2], ![s].draft = 0, ![s].enabled = enabled]
  BY DEF ServeActivate
<1> HIDE DEF v, s
<1>3. \A t \in Sites : store'[t] \in Site
  BY <1>1, <1>2 DEF ConsoleInv, StoreType, Site
<1>4. store' \in [Sites -> Site]
  BY <1>2, <1>3 DEF ConsoleInv, StoreType
<1> QED BY <1>4 DEF StoreType

LEMMA EnabledType ==
    ASSUME ConsoleInv, NEW c \in Calls, ServeEnabled(c)
    PROVE  StoreType'
<1> DEFINE s == call[c].site
           no == store[s].lastNo + 1
           wanted == call[c].wanted
<1>1. wanted \in BOOLEAN
  BY DEF ConsoleInv, CallType, Function, Locals
<1>2. store' = [store EXCEPT ![s].lastNo = no, ![s].active = no, ![s].enabled = wanted]
  BY DEF ServeEnabled
<1>3. s \in Sites => no \in Nat
  BY DEF ConsoleInv, StoreType, Site
<1> HIDE DEF s, no, wanted
<1>4. \A t \in Sites : store'[t] \in Site
  BY <1>1, <1>2, <1>3 DEF ConsoleInv, StoreType, Site
<1>5. store' \in [Sites -> Site]
  BY <1>2, <1>4 DEF ConsoleInv, StoreType
<1> QED BY <1>5 DEF StoreType

LEMMA DeleteType ==
    ASSUME ConsoleInv, NEW c \in Calls, ServeDelete(c)
    PROVE  StoreType'
<1> DEFINE s == call[c].site
<1>1. store' = [store EXCEPT ![s].draft = 0, ![s].active = 0, ![s].enabled = FALSE, ![s].deleted = TRUE]
  BY DEF ServeDelete
<1> HIDE DEF s
<1>2. \A t \in Sites : store'[t] \in Site
  BY <1>1 DEF ConsoleInv, StoreType, Site
<1>3. store' \in [Sites -> Site]
  BY <1>1, <1>2 DEF ConsoleInv, StoreType
<1> QED BY <1>3 DEF StoreType

LEMMA ServerKeeps ==
    ASSUME ConsoleInv, NEW c \in Calls, Server(c)
    PROVE  ConsoleInv'
<1>1. PageInv'
  <2>1. UNCHANGED page
    BY DEF Server, ServeTemplate, ServeSave, ServeActivate, ServeEnabled, ServeDelete
  <2> QED BY <2>1, PageStays DEF ConsoleInv
<1>2. StoreType /\ CallType /\ call[c] \in Function
  BY DEF ConsoleInv, CallType
<1>3. CASE ServeTemplate(c)
  <2>1. PICK s \in Sites : call' = [call EXCEPT ![c].served = TRUE, ![c].site = s]
    BY <1>3 DEF ServeTemplate
  <2>2. call[c].op = "template"
    BY <1>3 DEF ServeTemplate, Waits
  <2>3. call' \in [Calls -> Function]
    BY <1>2, <2>1, <2>2 DEF CallType, Function, Locals
  <2> QED BY <1>1, <1>2, <1>3, <2>3 DEF ServeTemplate, ConsoleInv, StoreType, CallType
<1>4. CASE ServeSave(c)
  <2> DEFINE s == call[c].site
             f == [Idle EXCEPT !.op = "save", !.served = TRUE, !.version = Version(s, store[s].lastNo + 1)]
  <2>1. s \in Sites /\ NextDraft(s) /\ call' = [call EXCEPT ![c] = f]
    BY <1>2, <1>4 DEF ServeSave, Waits, Function
  <2>2. store[s].lastNo + 1 \in Nat
    BY <1>2, <2>1 DEF StoreType, Site
  <2>3. Version(s, store[s].lastNo + 1) \in Versions
    BY <2>1, <2>2 DEF Version, Versions
  <2>4. f \in Function
    BY <2>3, IdleType DEF Function, Locals
  <2> QED BY <1>1, <1>2, <2>1, <2>4, NextDraftType, CallSet DEF ConsoleInv
<1>5. CASE ServeActivate(c)
  BY <1>1, <1>2, <1>5, ActivateType, ServedType DEF ServeActivate, ConsoleInv
<1>6. CASE ServeEnabled(c)
  BY <1>1, <1>2, <1>6, EnabledType, ServedType DEF ServeEnabled, ConsoleInv
<1>7. CASE ServeDelete(c)
  BY <1>1, <1>2, <1>7, DeleteType, ServedType DEF ServeDelete, ConsoleInv
<1> QED BY <1>3, <1>4, <1>5, <1>6, <1>7 DEF Server

\* A reply changes the form as it is by then.
LEMMA ReplyKeeps ==
    ASSUME ConsoleInv, NEW c \in Calls, Reply(c)
    PROVE  ConsoleInv'
<1>1. page \in Page /\ call[c] \in Function /\ NoVersion \in Versions /\ <<>> \in Seq(Items)
  BY DEF ConsoleInv, PageInv, CallType, NoVersion, Versions
<1>2. call[c].site \in Sites \cup {NoSite} /\ call[c].version \in Versions
  BY <1>1 DEF Function, Locals
<1>3. StoreType' /\ CallType'
  <2>1. call' = [call EXCEPT ![c] = Idle] /\ UNCHANGED store
    BY DEF Reply
  <2> QED BY <2>1, IdleType, CallSet DEF ConsoleInv, StoreType
<1>4. ASSUME NEW v \in Versions, page' = [page EXCEPT !.draft = v]
      PROVE  PageInv'
  <2>1. /\ page' \in Page
        /\ page'.index = page.index /\ page'.items = page.items
        /\ page'.opened = page.opened /\ page'.rewritten = page.rewritten
    BY <1>1, <1>4 DEF Page
  <2> QED BY <2>1 DEF ConsoleInv, PageInv, EditsOwnItem
<1>5. PageInv'
  <2>1. CASE call[c].op = "template"
    <3>1. FillRoute(call[c].site, NoVersion, <<>>)
      BY <2>1 DEF Reply
    <3> QED BY <3>1, <1>1, <1>2, FillRouteInv DEF ConsoleInv
  <2>2. CASE call[c].op = "save"
    <3>1. page' = [page EXCEPT !.draft = call[c].version]
      BY <2>2 DEF Reply
    <3> QED BY <3>1, <1>2, <1>4
  <2>3. CASE call[c].op = "activate"
    <3>1. page' = [page EXCEPT !.draft = NoVersion]
      BY <2>3 DEF Reply
    <3> QED BY <3>1, <1>1, <1>4
  <2>4. CASE call[c].op \notin {"template", "save", "activate"}
    <3>1. UNCHANGED page
      BY <2>4 DEF Reply
    <3> QED BY <3>1, PageStays DEF ConsoleInv
  <2> QED BY <2>1, <2>2, <2>3, <2>4
<1> QED BY <1>3, <1>5 DEF ConsoleInv

LEMMA FailKeeps ==
    ASSUME ConsoleInv, NEW c \in Calls, Fail(c)
    PROVE  ConsoleInv'
<1>1. call' = [call EXCEPT ![c] = Idle] /\ UNCHANGED <<store, page>>
  BY DEF Fail
<1> QED BY <1>1, IdleType, CallSet, PageStays DEF ConsoleInv, StoreType

LEMMA ElsewhereKeeps ==
    ASSUME ConsoleInv, NEW s \in Sites, SaveElsewhere(s)
    PROVE  ConsoleInv'
<1>1. NextDraft(s) /\ UNCHANGED <<page, call>>
  BY DEF SaveElsewhere
<1> QED BY <1>1, NextDraftType, PageStays DEF ConsoleInv, CallType

LEMMA ConsoleInit == Init => ConsoleInv
<1> SUFFICES ASSUME Init PROVE ConsoleInv
  OBVIOUS
<1>1. StoreType
  BY DEF Init, StoreType, NewSite, Site
<1>2. CallType
  BY IdleType DEF Init, CallType
<1>3. NoVersion \in Versions /\ <<>> \in Seq(Items)
  BY DEF NoVersion, Versions
<1>4. PageInv
  BY <1>3 DEF Init, PageInv, Page, EditsOwnItem
<1> QED BY <1>1, <1>2, <1>4 DEF ConsoleInv

LEMMA ConsoleNext == ConsoleInv /\ [Next]_vars => ConsoleInv'
<1> SUFFICES ASSUME ConsoleInv, [Next]_vars PROVE ConsoleInv'
  OBVIOUS
<1>1. CASE Form
  BY <1>1, FormKeeps
<1>2. CASE \E c \in Calls : Request(c) \/ Server(c) \/ Reply(c) \/ Fail(c)
  BY <1>2, RequestKeeps, ServerKeeps, ReplyKeeps, FailKeeps
<1>3. CASE \E s \in Sites : SaveElsewhere(s)
  BY <1>3, ElsewhereKeeps
<1>4. CASE UNCHANGED vars
  BY <1>4, PageStays DEF vars, ConsoleInv, StoreType, CallType
<1> QED BY <1>1, <1>2, <1>3, <1>4 DEF Next

-----------------------------------------------------------------------------
(* The theorems.                                                            *)

\* The inductive invariant: store, form and locals are well-formed, and an open
\* item is in its place.
THEOREM ConsoleInvariant == Spec => []ConsoleInv
BY ConsoleInit, ConsoleNext, PTL DEF Spec

\* Saving the item of the simple form never replaces another item of the list,
\* whichever site is opened or reply arrives while it is edited.
THEOREM OwnItemEdited == Spec => []EditsOwnItem
<1>1. ConsoleInv => EditsOwnItem
  BY DEF ConsoleInv, PageInv
<1> QED BY <1>1, ConsoleInvariant, PTL

\* What one site serves, and that it is unchanged or confirmed, in one step
TrafficKept(s) == store'[s].active = store[s].active /\ store'[s].enabled = store[s].enabled

LEMMA DraftKeepsTraffic ==
    ASSUME StoreType, NEW s \in Sites, NEW d \in Sites, NextDraft(d)
    PROVE  TrafficKept(s)
<1> DEFINE no == store[d].lastNo + 1
<1>1. store' = [store EXCEPT ![d].lastNo = no, ![d].draft = no]
  BY DEF NextDraft
<1> HIDE DEF no
<1> QED BY <1>1 DEF StoreType, Site, TrafficKept

\* A version is published for its own site, which is the one of the request.
LEMMA ActivateConfirmed ==
    ASSUME ConsoleInv, NEW s \in Sites, NEW c \in Calls, ServeActivate(c)
    PROVE  TrafficKept(s) \/ Confirmed(s)
<1> DEFINE v == call[c].version
           t == v[1]
<1>1. v = <<v[1], v[2]>>
  BY DEF ConsoleInv, CallType, Function, Locals, Versions
<1>2. call[c].site = t /\ Waits(c, "activate")
  BY DEF ServeActivate, DraftOf
<1>3. PICK enabled \in BOOLEAN :
        store' = [store EXCEPT ![t].active = v[2], ![t].draft = 0, ![t].enabled = enabled]
  BY DEF ServeActivate
<1>4. CASE s = t
  <2>1. store'[s].active = v[2]
    <3> HIDE DEF v, t
    <3> QED BY <1>3, <1>4 DEF ConsoleInv, StoreType, Site
  <2>2. Version(s, store'[s].active) = call[c].version
    BY <1>1, <1>4, <2>1 DEF Version
  <2> QED BY <1>2, <1>4, <2>2 DEF Confirmed, Waits
<1>5. CASE s # t
  <2>1. store'[s] = store[s]
    <3> HIDE DEF v, t
    <3> QED BY <1>3, <1>5 DEF ConsoleInv, StoreType
  <2> QED BY <2>1 DEF TrafficKept
<1> QED BY <1>4, <1>5

LEMMA EnabledConfirmed ==
    ASSUME ConsoleInv, NEW s \in Sites, NEW c \in Calls, ServeEnabled(c)
    PROVE  TrafficKept(s) \/ Confirmed(s)
<1> DEFINE t == call[c].site
           no == store[t].lastNo + 1
           wanted == call[c].wanted
<1>1. store' = [store EXCEPT ![t].lastNo = no, ![t].active = no, ![t].enabled = wanted]
  BY DEF ServeEnabled
<1>2. Waits(c, "enabled")
  BY DEF ServeEnabled
<1>3. CASE s = t
  <2>1. store'[s].enabled = wanted
    <3> HIDE DEF t, no, wanted
    <3> QED BY <1>1, <1>3 DEF ConsoleInv, StoreType, Site
  <2> QED BY <1>2, <1>3, <2>1 DEF Confirmed, Waits
<1>4. CASE s # t
  <2>1. store'[s] = store[s]
    <3> HIDE DEF t, no, wanted
    <3> QED BY <1>1, <1>4 DEF ConsoleInv, StoreType
  <2> QED BY <2>1 DEF TrafficKept
<1> QED BY <1>3, <1>4

LEMMA DeleteConfirmed ==
    ASSUME ConsoleInv, NEW s \in Sites, NEW c \in Calls, ServeDelete(c)
    PROVE  TrafficKept(s) \/ Confirmed(s)
<1> DEFINE t == call[c].site
<1>1. store' = [store EXCEPT ![t].draft = 0, ![t].active = 0, ![t].enabled = FALSE, ![t].deleted = TRUE]
  BY DEF ServeDelete
<1>2. Waits(c, "delete")
  BY DEF ServeDelete
<1>3. CASE s = t
  <2>1. store'[s].active = 0
    <3> HIDE DEF t
    <3> QED BY <1>1, <1>3 DEF ConsoleInv, StoreType, Site
  <2> QED BY <1>2, <1>3, <2>1 DEF Confirmed, Waits
<1>4. CASE s # t
  <2>1. store'[s] = store[s]
    <3> HIDE DEF t
    <3> QED BY <1>1, <1>4 DEF ConsoleInv, StoreType
  <2> QED BY <2>1 DEF TrafficKept
<1> QED BY <1>3, <1>4

LEMMA TrafficStep ==
    ASSUME ConsoleInv, [Next]_vars, NEW s \in Sites
    PROVE  TrafficKept(s) \/ Confirmed(s)
<1>1. CASE UNCHANGED store
  BY <1>1 DEF TrafficKept
<1>2. CASE Form
  BY <1>1, <1>2 DEF Form, OpenRoute, EditItem, RemoveItem, SaveItem, CancelItem, EditJson
<1>3. ASSUME NEW c \in Calls, Request(c)
      PROVE  TrafficKept(s) \/ Confirmed(s)
  BY <1>1, <1>3 DEF Request, NewRoute, SaveDraft, ActivateDraft, SetRouteEnabled, DeleteRoute, Ask
<1>4. ASSUME NEW c \in Calls, Reply(c) \/ Fail(c)
      PROVE  TrafficKept(s) \/ Confirmed(s)
  BY <1>1, <1>4 DEF Reply, Fail
<1>5. ASSUME NEW c \in Calls, Server(c)
      PROVE  TrafficKept(s) \/ Confirmed(s)
  <2>1. CASE ServeTemplate(c)
    BY <1>1, <2>1 DEF ServeTemplate
  <2>2. CASE ServeSave(c)
    <3>1. call[c] \in Function /\ StoreType
      BY DEF ConsoleInv, CallType
    <3>2. call[c].site \in Sites /\ NextDraft(call[c].site)
      BY <2>2, <3>1 DEF ServeSave, Waits, Function
    <3> QED BY <3>1, <3>2, DraftKeepsTraffic
  <2> QED BY <1>5, <2>1, <2>2, ActivateConfirmed, EnabledConfirmed, DeleteConfirmed DEF Server
<1>6. ASSUME NEW d \in Sites, SaveElsewhere(d)
      PROVE  TrafficKept(s)
  BY <1>6, DraftKeepsTraffic DEF SaveElsewhere, ConsoleInv
<1> QED BY <1>1, <1>2, <1>3, <1>4, <1>5, <1>6 DEF Next, vars

\* The traffic of a site changes only by the activation, the switch or the
\* deletion that was confirmed for this site, whatever reply arrived late and
\* whatever form was filled in between.
THEOREM OnlyConfirmedChanges == Spec => ConfirmedOnly
<1>1. ConsoleInv /\ [Next]_vars =>
        [\A s \in Sites : \/ store'[s].active = store[s].active /\ store'[s].enabled = store[s].enabled
                          \/ Confirmed(s)]_vars
  BY TrafficStep DEF TrafficKept
<1> QED BY <1>1, ConsoleInvariant, PTL DEF Spec, ConfirmedOnly

=============================================================================
