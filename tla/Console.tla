------------------------------- MODULE Console -------------------------------
(***************************************************************************)
(* The administration page (src/ui/app.js) and the server it talks to.     *)
(* The page keeps one open form and a few global variables; every button   *)
(* starts an async function that holds its own locals, and its reply       *)
(* changes the form as it is by then, whatever site it shows.              *)
(*                                                                         *)
(* A handler of the server is one step here; what happens across its       *)
(* awaits is the subject of ControlPlane.  The list of sites on screen may *)
(* be of any age, since another tab changes the store and two reloads may  *)
(* overlap: a card shows a state that its site was in once.                *)
(***************************************************************************)
EXTENDS Integers, Sequences, FiniteSets, SequencesExt

CONSTANTS
    Sites, NoSite,      \* route ids; no form was opened yet
    Calls,              \* async functions that may run at a time
    Items, NoItem,      \* direct injections
    Editable,           \* those the simple form can edit
    Lists,              \* what a stored site or an edited JSON may hold
    MaxVersions,        \* bound: versions of all sites
    MaxItems            \* bound: direct injections of a site

ConsoleAssumption ==
    /\ NoSite \notin Sites /\ NoItem \notin Items /\ Editable \subseteq Items
    /\ Lists \subseteq Seq(Items) /\ MaxVersions \in Nat /\ MaxItems \in Nat

ASSUME ConsoleAssumption

VARIABLES
    store,      \* per site: the last version number, the pointers and the flags
    page,       \* the form and the variables behind it
    call        \* per async function: what it asked for and its locals

vars == <<store, page, call>>

\* A version is its site and its number; number 0 is none.
Version(s, n) == <<s, n>>
NoVersion == <<NoSite, 0>>

NewSite == [lastNo |-> 0, draft |-> 0, active |-> 0, enabled |-> FALSE, deleted |-> FALSE]

Idle == [op |-> "none", site |-> NoSite, version |-> NoVersion, wanted |-> FALSE, served |-> FALSE]

Init ==
    /\ store = [s \in Sites |-> NewSite]
    /\ page = [site |-> NoSite, draft |-> NoVersion, items |-> <<>>,
               index |-> 0, opened |-> NoItem, rewritten |-> FALSE]
    /\ call = [c \in Calls |-> Idle]

-----------------------------------------------------------------------------
(* The form.  index is editingInjectionIndex, 0 for none; opened is the     *)
(* item that was in the list when it was set, and rewritten says whether    *)
(* the JSON of the list was edited since.                                   *)

ResetItemEditor(p) == [p EXCEPT !.index = 0, !.opened = NoItem, !.rewritten = FALSE]

\* fillRoute, for a site with a draft or none
FillRoute(s, draft, items) ==
    page' = ResetItemEditor([page EXCEPT !.site = s, !.draft = draft, !.items = items])

\* The Edit button of a card, whose entry may be old.
OpenRoute(s) ==
    /\ store[s].lastNo > 0
    /\ \E n \in 0..store[s].lastNo, items \in Lists :
           FillRoute(s, IF n = 0 THEN NoVersion ELSE Version(s, n), items)
    /\ UNCHANGED <<store, call>>

EditItem(k) ==
    /\ page.site # NoSite
    /\ page.items[k] \in Editable
    /\ page' = [page EXCEPT !.index = k, !.opened = page.items[k], !.rewritten = FALSE]
    /\ UNCHANGED <<store, call>>

\* Fault (mutation only): the index is kept although the items moved up.
RemoveAndEditOn(k) == page' = [page EXCEPT !.items = RemoveAt(@, k)]

RemoveAndReset(k) == page' = ResetItemEditor([page EXCEPT !.items = RemoveAt(@, k)])

RemoveItem(k) ==
    /\ page.site # NoSite
    /\ RemoveAndReset(k)
    /\ UNCHANGED <<store, call>>

\* saveSimpleInjection: in the place of the item edited, or at the end.  A place
\* that a shorter JSON no longer reaches leaves a null in the list, which the
\* server refuses: left out.
SaveItem ==
    /\ page.site # NoSite
    /\ \E item \in Editable :
           \/ /\ page.index \in 1..Len(page.items) + 1
              /\ page.index <= MaxItems                   \* bound
              /\ page' = ResetItemEditor([page EXCEPT !.items =
                     IF page.index > Len(@) THEN Append(@, item)
                     ELSE [@ EXCEPT ![page.index] = item]])
           \/ /\ page.index = 0
              /\ Len(page.items) < MaxItems               \* bound
              /\ page' = ResetItemEditor([page EXCEPT !.items = Append(@, item)])
    /\ UNCHANGED <<store, call>>

CancelItem ==
    /\ page.index # 0
    /\ page' = ResetItemEditor(page)
    /\ UNCHANGED <<store, call>>

\* Advanced mode: the list is rendered again, the item editor stays open.
EditJson ==
    /\ page.site # NoSite
    /\ \E items \in Lists \ {page.items} :
           page' = [page EXCEPT !.items = items, !.rewritten = page.index # 0]
    /\ UNCHANGED <<store, call>>

-----------------------------------------------------------------------------
(* Requests.                                                                *)

Ask(c, request) ==
    /\ call[c] = Idle
    /\ call' = [call EXCEPT ![c] = request]
    /\ UNCHANGED <<store, page>>

NewRoute(c) == Ask(c, [Idle EXCEPT !.op = "template"])

\* editorRoute reads the form, its id included; what else it holds is left out.
SaveDraft(c) ==
    /\ page.site # NoSite
    /\ Ask(c, [Idle EXCEPT !.op = "save", !.site = page.site])

\* The site is read from the form and the version from currentDraft.
ActivateDraft(c) ==
    /\ page.draft # NoVersion
    /\ Ask(c, [Idle EXCEPT !.op = "activate", !.site = page.site, !.version = page.draft])

\* The buttons of a card: the state wanted is the opposite of the one it shows.
SetRouteEnabled(c, s) ==
    /\ store[s].lastNo > 0
    /\ \E wanted \in BOOLEAN : Ask(c, [Idle EXCEPT !.op = "enabled", !.site = s, !.wanted = wanted])

DeleteRoute(c, s) ==
    /\ store[s].lastNo > 0
    /\ Ask(c, [Idle EXCEPT !.op = "delete", !.site = s])

-----------------------------------------------------------------------------
(* The server.                                                              *)

\* The locals that the reply needs no more are forgotten.
Served(c, op) == call' = [call EXCEPT ![c] = [Idle EXCEPT !.op = op, !.served = TRUE]]

Waits(c, op) == call[c].op = op /\ ~call[c].served

\* A new id
ServeTemplate(c) ==
    /\ Waits(c, "template")
    /\ \E s \in Sites :
           /\ store[s].lastNo = 0 /\ page.site # s /\ \A d \in Calls : call[d].site # s
           /\ call' = [call EXCEPT ![c].served = TRUE, ![c].site = s]
    /\ UNCHANGED <<store, page>>

VersionsLeft == SumFunction([s \in Sites |-> store[s].lastNo]) < MaxVersions

\* saveDraft, for the page and for another tab
NextDraft(s) ==
    LET no == store[s].lastNo + 1 IN
    /\ ~store[s].deleted
    /\ VersionsLeft                                       \* bound
    /\ store' = [store EXCEPT ![s].lastNo = no, ![s].draft = no]

ServeSave(c) ==
    LET s == call[c].site IN
    /\ Waits(c, "save")
    /\ NextDraft(s)
    /\ call' = [call EXCEPT ![c] = [Idle EXCEPT !.op = "save", !.served = TRUE,
                                               !.version = Version(s, store[s].lastNo + 1)]]
    /\ UNCHANGED page

\* Fault (mutation only): any draft will do, whichever site the path names.
SomeDraft(site, v) == store[v[1]].draft = v[2]

DraftOf(site, v) == v[1] = site /\ store[site].draft = v[2]

\* The site that is published is the one in the version's configuration.
ServeActivate(c) ==
    LET v == call[c].version
        s == v[1]
    IN /\ Waits(c, "activate")
       /\ DraftOf(call[c].site, v)
       /\ \E enabled \in BOOLEAN :
              store' = [store EXCEPT ![s].active = v[2], ![s].draft = 0, ![s].enabled = enabled]
       /\ Served(c, "activate")
       /\ UNCHANGED page

\* The active version is copied to a new one, with the flag as wanted.
ServeEnabled(c) ==
    LET s == call[c].site
        no == store[s].lastNo + 1
    IN /\ Waits(c, "enabled")
       /\ store[s].active # 0 /\ store[s].draft = 0
       /\ VersionsLeft                                    \* bound
       /\ store' = [store EXCEPT ![s].lastNo = no, ![s].active = no, ![s].enabled = call[c].wanted]
       /\ Served(c, "reload")
       /\ UNCHANGED page

ServeDelete(c) ==
    LET s == call[c].site IN
    /\ Waits(c, "delete")
    /\ ~store[s].deleted
    /\ store' = [store EXCEPT ![s].draft = 0, ![s].active = 0, ![s].enabled = FALSE, ![s].deleted = TRUE]
    /\ Served(c, "reload")
    /\ UNCHANGED page

\* Another tab saves a draft of the site, which supersedes the one shown here.
SaveElsewhere(s) ==
    /\ store[s].lastNo > 0
    /\ NextDraft(s)
    /\ UNCHANGED <<page, call>>

-----------------------------------------------------------------------------
(* Replies.                                                                 *)

\* The reply of a save sets currentDraft, that of an activation clears it, that
\* of a template fills the form; the others only reload the list.
Reply(c) ==
    /\ call[c].served
    /\ CASE call[c].op = "template" -> FillRoute(call[c].site, NoVersion, <<>>)
         [] call[c].op = "save" -> page' = [page EXCEPT !.draft = call[c].version]
         [] call[c].op = "activate" -> page' = [page EXCEPT !.draft = NoVersion]
         [] OTHER -> UNCHANGED page
    /\ call' = [call EXCEPT ![c] = Idle]
    /\ UNCHANGED store

\* Refused, or the connection broke before or after the handler: api throws, and
\* the function shows the error and changes nothing.
Fail(c) ==
    /\ call[c] # Idle
    /\ call' = [call EXCEPT ![c] = Idle]
    /\ UNCHANGED <<store, page>>

-----------------------------------------------------------------------------
Form ==
    \/ \E s \in Sites : OpenRoute(s)
    \/ \E k \in 1..Len(page.items) : EditItem(k) \/ RemoveItem(k)
    \/ SaveItem \/ CancelItem \/ EditJson

Request(c) ==
    \/ NewRoute(c) \/ SaveDraft(c) \/ ActivateDraft(c)
    \/ \E s \in Sites : SetRouteEnabled(c, s) \/ DeleteRoute(c, s)

Server(c) ==
    ServeTemplate(c) \/ ServeSave(c) \/ ServeActivate(c) \/ ServeEnabled(c) \/ ServeDelete(c)

Next ==
    \/ Form
    \/ \E c \in Calls : Request(c) \/ Server(c) \/ Reply(c) \/ Fail(c)
    \/ \E s \in Sites : SaveElsewhere(s)

Spec == Init /\ [][Next]_vars

-----------------------------------------------------------------------------
(* Properties.                                                              *)

\* What the administrator confirmed for one site: that its draft, as the form
\* or the card names it, goes live, that it is on or off, or that it is deleted.
Confirmed(s) ==
    \E c \in Calls :
        /\ Waits(c, call[c].op) /\ call[c].site = s
        /\ CASE call[c].op = "activate" -> Version(s, store'[s].active) = call[c].version
             [] call[c].op = "enabled" -> store'[s].enabled = call[c].wanted
             [] call[c].op = "delete" -> store'[s].active = 0
             [] OTHER -> FALSE

\* The traffic of a site changes only by a request that was confirmed for this
\* very site, although a late reply may have put another site's draft behind the
\* form ("unrelated routes are unchanged", activateDraft).
ConfirmedOnly ==
    [][\A s \in Sites : \/ store'[s].active = store[s].active /\ store'[s].enabled = store[s].enabled
                        \/ Confirmed(s)]_vars

\* While an item is open in the simple form, its place in the list holds this
\* item, so that saving it replaces no other one: not when items are removed,
\* when another site is opened or when the reply of a template fills the form
\* meanwhile.  Only an edit of the JSON in between may leave the place to another
\* item ("Advanced controls are preserved", renderSimpleInjections).
EditsOwnItem ==
    page.index # 0 /\ ~page.rewritten =>
        /\ page.index \in DOMAIN page.items
        /\ page.items[page.index] = page.opened
=============================================================================
