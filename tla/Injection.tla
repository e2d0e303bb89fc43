------------------------------ MODULE Injection ------------------------------
(***************************************************************************)
(* src/lib/injection.mjs: which responses are changed, where the items go  *)
(* and what is left out, as functions of a page, a route and a response;   *)
(* and what src/proxy.mjs and the preview of src/admin.mjs make of them.   *)
(*                                                                         *)
(* A page is a sequence of tokens <<kind, text>>.  Comments and raw-text   *)
(* elements hold no tags for the scanner, so whatever is inside one is a   *)
(* single "text" token; "open" is one that never ends.  A marker comment   *)
(* stands for its start and end, a page's length for its size in bytes.    *)
(* Contents are scripts, styles and metas without structural tags.  A text  *)
(* is one token: that one may be a part of another is left out.            *)
(***************************************************************************)
EXTENDS Integers, Sequences, FiniteSets, SequencesExt

CONSTANT
    Escapes     \* of texts with an & < > " or ': what escapeHtml makes of each

ASSUME EscapesAssumption == \A text \in DOMAIN Escapes : Escapes[text] # text

Tags == {"head", "/head", "body", "/body"}

Locations == <<"head-start", "head-end", "body-start", "body-end">>

Positions(page, kind) == {i \in DOMAIN page : page[i][1] = kind}

Has(page, token) == \E i \in DOMAIN page : page[i] = token

-----------------------------------------------------------------------------
(* htmlBoundaries and findInsertion.  A boundary is the number of tokens in *)
(* front of it, -1 for none.                                               *)

Missing == -1

\* Only a tag that occurs exactly once is a boundary.
Once(page, kind, shift) ==
    LET at == Positions(page, kind) IN
    IF Cardinality(at) = 1 THEN (CHOOSE i \in at : TRUE) - shift ELSE Missing

\* An element without a start, or with its end before its start, has neither.
Pair(start, end) == IF start < 0 \/ end < start THEN <<Missing, Missing>> ELSE <<start, end>>

NoBoundaries == [loc \in Range(Locations) |-> Missing]

HtmlBoundaries(page) ==
    LET head == Pair(Once(page, "head", 0), Once(page, "/head", 1))
        body == Pair(Once(page, "body", 0), Once(page, "/body", 1))
    IN IF \/ Positions(page, "open") # {}
          \/ head[2] >= 0 /\ body[1] >= 0 /\ head[2] > body[1]
       THEN NoBoundaries
       ELSE [loc \in Range(Locations) |->
                CASE loc = "head-start" -> head[1] [] loc = "head-end" -> head[2]
                  [] loc = "body-start" -> body[1] [] loc = "body-end" -> body[2]]

-----------------------------------------------------------------------------
(* injectHtml.  An item has an id, a priority, a location, a type, a        *)
(* content ("" renders to nothing), a duplicate pattern ("" for none),     *)
(* enabled, and the path patterns it includes and excludes.  A path is the *)
(* set of its variants: as sent, decoded and normalized; none if malformed. *)
(* The types are those that differ here: "url", whose content is the URL   *)
(* of a script or a style sheet or, as one text, what an Umami item loads; *)
(* "inline", a script, style or HTML of eight characters or more; and      *)
(* "plain", a shorter one or a meta; these two have no URL besides.        *)

AnyPathMatches(path, patterns) == path \cap patterns # {}

EligibleItem(item, path) ==
    /\ item.enabled
    /\ item.includes # {} => AnyPathMatches(path, item.includes)
    /\ ~AnyPathMatches(path, item.excludes)

\* A charset other than UTF-8 in a meta tag, or a policy in one that the route
\* does not want to put up with
MetaBlocked(page, route) ==
    \/ Positions(page, "charset") # {}
    \/ Positions(page, "csp") # {} /\ route.cspMode # "preserve"

Before(a, b) == a.priority < b.priority \/ (a.priority = b.priority /\ a.id < b.id)

\* Fault (mutation only): the items keep the order of the configuration.
UnsortedItems(route) == route.items

\* As many items come before an item as go before it.
SortedItems(route) ==
    [n \in DOMAIN route.items |->
        CHOOSE item \in Range(route.items) :
            Cardinality({other \in Range(route.items) : Before(other, item)}) = n - 1]

\* Fault (mutation only): the comment of an earlier pass is not looked for.
IgnoresMarker(page, item) == FALSE

MarkerFound(page, item) == Has(page, <<"marker", item.id>>)

DuplicatePatternFound(page, item) == item.pattern # "" /\ Has(page, <<"content", item.pattern>>)

Looked(item) == item.type \in {"url", "inline"} /\ item.content # ""

\* Fault (mutation only): what waits to be inserted here is not looked at.
DuplicateInPage(page, snippets, item) ==
    Looked(item) /\ Has(page, <<"content", item.content>>)

\* automaticDuplicate: the URL or content is in the page, or among the snippets
\* that wait to be inserted at this location.  It is looked for as it was
\* configured, whatever renderInjection makes of it.
AutomaticDuplicate(page, snippets, item) ==
    Looked(item) /\ Has(page \o snippets, <<"content", item.content>>)

Skipped(page, snippets, item) ==
    \/ MarkerFound(page, item)
    \/ DuplicatePatternFound(page, item)
    \/ AutomaticDuplicate(page, snippets, item)
    \/ item.content = ""

EscapeHtml(text) == IF text \in DOMAIN Escapes THEN Escapes[text] ELSE text

\* renderInjection escapes what becomes an attribute, a URL above all.
Rendered(item) == IF item.type = "url" THEN EscapeHtml(item.content) ELSE item.content

Snippet(item) == << <<"marker", item.id>>, <<"content", Rendered(item)>> >>

\* What waits to be inserted, with the ids of the items, after each of the items
Collected(page, items, path, location) ==
    LET collected[n \in 0..Len(items)] ==
            IF n = 0 THEN [snippets |-> <<>>, ids |-> {}]
            ELSE LET item == items[n]
                     acc == collected[n - 1]
                 IN  IF \/ ~EligibleItem(item, path) \/ item.location # location
                        \/ Skipped(page, acc.snippets, item)
                     THEN acc
                     ELSE [snippets |-> acc.snippets \o Snippet(item),
                           ids |-> acc.ids \cup {item.id}]
    IN  collected

Collect(page, items, path, location) == Collected(page, items, path, location)[Len(items)]

\* Fault (mutation only): items that found no place are reported as applied.
KeepsMissing(acc, ids) == [acc EXCEPT !.applied = @ \cup ids]

WithoutPlace(acc, ids) == acc

InjectAt(acc, location, items, path) ==
    LET found == Collect(acc.page, items, path, location)
        at == HtmlBoundaries(acc.page)[location]
    IN IF found.snippets = <<>> THEN acc
       ELSE IF at < 0 THEN WithoutPlace(acc, found.ids)
       ELSE [page |-> SubSeq(acc.page, 1, at) \o found.snippets
                      \o SubSeq(acc.page, at + 1, Len(acc.page)),
             applied |-> acc.applied \cup found.ids]

InjectHtml(page, route, path) ==
    LET start == [page |-> page, applied |-> {}] IN
    IF MetaBlocked(page, route) THEN start
    ELSE LET items == SortedItems(route)
             a == InjectAt(start, "head-start", items, path)
             b == InjectAt(a, "head-end", items, path)
             c == InjectAt(b, "body-start", items, path)
         IN  InjectAt(c, "body-end", items, path)

-----------------------------------------------------------------------------
(* assessEligibility: a response is the set of its unusual traits.          *)

Obstacles == {"not GET", "not 200", "not HTML", "other charset", "attachment",
              "no-transform", "partial", "range asked", "unknown encoding"}

Eligible(route, response, path) ==
    /\ route.mode = "inject"
    /\ response \cap Obstacles = {}
    /\ path # {} /\ ~AnyPathMatches(path, route.excludedPaths)
    /\ "csp" \in response => route.cspMode = "preserve"
    /\ \E item \in Range(route.items) : item.enabled

\* InjectionTransform on an uncompressed body: too large before or after, the
\* page is handed on as it came.
Proxied(page, route, response, path) ==
    LET injection == InjectHtml(page, route, path) IN
    IF \/ ~Eligible(route, response, path)
       \/ Len(page) > route.maxInjectBytes
       \/ injection.applied = {}
       \/ Len(injection.page) > route.maxInjectBytes
    THEN [page |-> page, applied |-> {}]
    ELSE injection

\* Fault (mutation only): the limit is left to the proxy.
PreviewUnlimited(page, route, response, path) ==
    IF Eligible(route, response, path) THEN InjectHtml(page, route, path)
    ELSE [page |-> page, applied |-> {}]

\* previewInjection; POST /api/preview refuses a page beyond the limit.
Preview(page, route, response, path) ==
    LET injection == InjectHtml(page, route, path) IN
    IF \/ ~Eligible(route, response, path)
       \/ injection.applied # {} /\ Len(injection.page) > route.maxInjectBytes
    THEN [page |-> page, applied |-> {}]
    ELSE injection
=============================================================================
