------------------------------- MODULE Content -------------------------------
(***************************************************************************)
(* What the pure functions of the server do to the content that passes     *)
(* through them, one after another: a page on its way through the proxy,   *)
(* and once more when its origin serves what it was sent; a route, an item *)
(* or a profile that is validated when it is saved, again when it is       *)
(* activated and again whenever the active version is toggled, rolled back *)
(* to, cloned or imported; a pasted snippet that becomes an item; an       *)
(* upstream name that is looked up; the addresses in a configuration.      *)
(***************************************************************************)
EXTENDS Injection, Validation, Network

CONSTANTS
    PageCases,     \* families of: a page, a route, the traits of a response, a path
    RouteForms, ItemForms, ProfileForms,
    Snippets,      \* sequences of script tags
    LookupCases,   \* the answers for a name and the allowed network
    Configs        \* where the administration listens and whom it allows

\* Pages and items are sequences; no two items of a route have one id
\* (validateItemCollection of src/lib/model.mjs), and ids are numbered in their order.
ASSUME PagesAssumption ==
    \A k \in DOMAIN PageCases : \A c \in PageCases[k] :
        LET items == c.route.items IN
        /\ c.page \in Seq(Range(c.page)) /\ items \in Seq(Range(items))
        /\ c.route.maxInjectBytes \in Int
        /\ \A i \in DOMAIN items : items[i].priority \in Int /\ items[i].id \in Int
        /\ \A i, j \in DOMAIN items : items[i].id = items[j].id => i = j

ASSUME LookupsAssumption ==
    \A c \in LookupCases :
        c.answers \in Seq(Answers) /\ c.address \in Addresses /\ c.prefix \in 0..Width

ASSUME ConfigsAssumption ==
    \A c \in Configs : c.listen \in Addresses /\ c.allowed \subseteq Networks

VARIABLES
    kind,     \* of the content
    input,    \* as it came
    output,   \* what has become of it
    round     \* how often it passed

vars == <<kind, input, output, round>>

Starts(k, x, y) == kind = k /\ input = x /\ output = y /\ round = 0

Init ==
    \/ \E k \in DOMAIN PageCases : \E c \in PageCases[k] : Starts("page", c, [page |-> c.page, applied |-> {}])
    \/ \E r \in RouteForms : Starts("route", r, r)
    \/ \E i \in ItemForms : Starts("item", i, i)
    \/ \E p \in ProfileForms : Starts("profile", p, p)
    \/ \E s \in Snippets : Starts("snippet", s, s)
    \/ \E c \in LookupCases : Starts("lookup", c, {})
    \/ \E c \in Configs : Starts("config", c, {})

\* The proxy's answer to a request for the page, twice at most
Pass ==
    /\ kind = "page" /\ round < 2
    /\ output' = Proxied(output.page, input.route, input.response, input.path)
    /\ round' = round + 1
    /\ UNCHANGED <<kind, input>>

\* What is refused is not stored.  Saved, activated, toggled: three times.
Check(k, validated) ==
    /\ kind = k /\ round < 3 /\ Accepted(output)
    /\ output' = validated
    /\ round' = round + 1
    /\ UNCHANGED <<kind, input>>

CheckRoute == Check("route", ValidateRoute(output))

CheckItem == \E k \in {"item", "parsed"} : Check(k, ValidateInjection(output))

CheckProfile == Check("profile", ValidateProfile(output))

\* createUmami of the administration page: the item around a parsed snippet.
UmamiItem(parsed) ==
    [id |-> "absent", unknown |-> "none", name |-> "text", enabled |-> "true", type |-> "umami",
     location |-> "head-end", priority |-> "number", url |-> "absent", content |-> "absent",
     attributes |-> "absent", nonceBehavior |-> "absent", includeHostnames |-> "absent",
     includePaths |-> "absent", excludePaths |-> "absent", environments |-> "absent",
     duplicatePattern |-> "absent", notes |-> "absent", options |-> "given",
     analytics |-> parsed.analytics, recorder |-> parsed.recorder, websiteId |-> parsed.websiteId,
     analyticsUrl |-> parsed.analyticsUrl, recorderUrl |-> parsed.recorderUrl]

Parse ==
    /\ kind = "snippet" /\ ParseUmamiSnippet(output) # NotParsed
    /\ kind' = "parsed" /\ output' = UmamiItem(ParseUmamiSnippet(output))
    /\ UNCHANGED <<input, round>>

\* NetworkPolicy.lookup: the address to connect to, if all are allowed
LookUp ==
    /\ kind = "lookup" /\ round = 0
    /\ LookupAllowed(input.answers, {ParseCidr(input.address, input.prefix)})
    /\ output' = {input.answers[1]}
    /\ round' = 1
    /\ UNCHANGED <<kind, input>>

\* A configuration that is refused does not start the service.
Load ==
    /\ kind = "config" /\ round = 0 /\ AdminAccepted(input)
    /\ output' = Admitted(input)
    /\ round' = 1
    /\ UNCHANGED <<kind, input>>

Next == Pass \/ CheckRoute \/ CheckItem \/ CheckProfile \/ Parse \/ LookUp \/ Load

Spec == Init /\ [][Next]_vars

-----------------------------------------------------------------------------
(* Pages.                                                                  *)

Passed == kind = "page" /\ round = 1

IsNew(token) == token[1] = "marker" /\ ~Has(input.page, token)

\* Where the items were inserted
NewMarkers == {k \in DOMAIN output.page : IsNew(output.page[k])}

\* The page without the blocks of the new markers
WithoutBlocks(page) ==
    LET kept(k) == ~IsNew(page[k]) /\ (k > 1 => ~IsNew(page[k - 1])) IN
    [k \in 1..Cardinality({j \in DOMAIN page : kept(j)}) |->
        page[CHOOSE j \in DOMAIN page :
                kept(j) /\ Cardinality({i \in 1..j : kept(i)}) = k]]

\* What the proxy reports as applied is what it inserted, every item once; what
\* was there before is all there and in its order; and nothing else is inserted
\* ("scripts exactly once", PRODUCTION_CHECKLIST.md).
InjectedExactly ==
    Passed =>
        /\ output.applied = {output.page[k][2] : k \in NewMarkers}
        /\ \A j, k \in NewMarkers : output.page[j][2] = output.page[k][2] => j = k
        /\ WithoutBlocks(output.page) = input.page
        /\ Len(output.page) = Len(input.page) + 2 * Cardinality(NewMarkers)
        /\ output.applied # {} => Len(output.page) <= input.route.maxInjectBytes

ItemAt(k) == CHOOSE item \in Range(input.route.items) : item.id = output.page[k][2]

LocationRank(item) == CHOOSE k \in DOMAIN Locations : Locations[k] = item.location

\* The blocks stand in the page in the order of their locations and, in one
\* location, of priority and id, wherever the tags are ("and correct order").
InOrder ==
    Passed => \A j, k \in NewMarkers : j < k =>
        LET a == ItemAt(j)
            b == ItemAt(k)
        IN \/ LocationRank(a) < LocationRank(b)
           \/ LocationRank(a) = LocationRank(b) /\ Before(a, b)

\* Rendered as it is configured: no URL with a character that HTML escapes
Verbatim(item) == Rendered(item) = item.content

\* A script is not loaded twice ("equivalent script URLs ... prevent repeat
\* injection", INJECTION_PROFILES.md): not when the page holds the URL or the
\* text as it was configured, and not when two items, of a profile and of the
\* route say, have it at any two locations.  A URL with an & is the exception,
\* against that sentence: it is written with &amp; and looked for with &, so
\* neither two items nor a page that has it escaped, as HTML asks, keep it out.
ScriptOnce ==
    Passed => \A j, k \in NewMarkers :
        LET a == ItemAt(j)
            b == ItemAt(k)
        IN Looked(a) =>
              /\ ~Has(input.page, <<"content", a.content>>)
              /\ /\ Looked(b) /\ a.content = b.content
                 /\ Verbatim(a) /\ Verbatim(b)
                 => j = k

\* A page that comes by a second time is left as it is: the markers of the first
\* pass keep every item out, whatever was left out then is left out again.
InjectedOnce == [][kind = "page" /\ round = 1 => output'.page = output.page]_vars

\* The preview of the administration page shows what the proxy would send, for
\* every page the preview accepts.
PreviewAgrees ==
    Passed /\ Len(input.page) <= input.route.maxInjectBytes =>
        Preview(input.page, input.route, input.response, input.path) = output

-----------------------------------------------------------------------------
(* Forms.                                                                  *)

\* A server name that becomes an address, without a final dot or its brackets, is
\* saved as the address, and refused as one when the draft is validated again.
AddressServerName == kind = "route" /\ input.serverName \in {"ip.", "far.", "[ip]"}

\* An IPv6 address in brackets among the host names of an item is saved without
\* them, and refused for its colons when the item is validated again.
BracketedHostname ==
    \/ kind = "item" /\ input.includeHostnames = "bracketed"
    \/ kind = "route" /\ "bracketed" \in {input.injections, input.resolvedItems}
    \/ kind = "profile" /\ input.items = "bracketed"

\* What was saved is not refused for its own fields when it is activated, but for
\* an address as a server name and for IPv6 addresses as host names of items,
\* which are.  (The items of profiles that activation adds are another matter.)
DraftRevalidates ==
    [][round = 1 /\ kind \in {"route", "item", "profile", "parsed"}
       => Accepted(output') \/ AddressServerName \/ BracketedHostname]_vars

\* What was activated is accepted as it is by everything that validates it again:
\* switching it on and off, rolling back to it, cloning and importing it.
ActiveUnchanged == [][round = 2 => output' = output]_vars

\* A snippet that the parser accepts makes an item that the validator accepts.
ParsedAccepted == kind = "parsed" => Accepted(output)

-----------------------------------------------------------------------------
(* Networks.                                                               *)

\* An answer is allowed if and only if it leads to an address that agrees with
\* the network in its family and bit by bit, however the network was written
\* down: an IPv4 address, an IPv6 one, or an IPv4 one as ::ffff:a.b.c.d, for
\* which the IPv4 networks count (test/network.test.mjs).  A name is connected to
\* at such an answer only, and only if it has no other.
AllowedExactly ==
    kind = "lookup" =>
        LET reached == Reached(input.address, input.prefix)
            allowed == {ParseCidr(input.address, input.prefix)}
        IN /\ \A a \in Range(input.answers) : AssertAddress(a, allowed) <=> a \in reached
           /\ output # {} => output \cup Range(input.answers) \subseteq reached

\* Under an accepted configuration the administration answers private addresses
\* only, its own host among them, and it speaks TLS to all but loopback.
AdminStaysPrivate ==
    kind = "config" /\ round = 1 =>
        /\ input.listen \in output
        /\ output \subseteq UNION {Members(n.address, n.prefix) : n \in Loopback \cup Private}
        /\ input.tls \/ \E n \in Loopback : input.listen \in Members(n.address, n.prefix)
=============================================================================
