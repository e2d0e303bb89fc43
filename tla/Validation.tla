----------------------------- MODULE Validation -----------------------------
(***************************************************************************)
(* src/lib/model.mjs: what becomes of a route and of an injection item     *)
(* that somebody submits, with canonicalHostname and boundedInteger of     *)
(* src/lib/util.mjs; and src/lib/umami.mjs, which makes the options of an  *)
(* item out of a pasted snippet.                                           *)
(*                                                                         *)
(* A value is the class it belongs to, as far as the validator tells       *)
(* values apart: "variant" is a value that is rewritten to a canonical     *)
(* one, "bad" one that is refused, "absent" a field left out.  Each field  *)
(* is a function from the class given to the class stored.                 *)
(***************************************************************************)
EXTENDS Integers, Sequences, FiniteSets, SequencesExt

Refused == "refused"

Accepted(form) == \A f \in DOMAIN form : form[f] # Refused

-----------------------------------------------------------------------------
(* Fields.                                                                 *)

\* What net.isIP takes for an address: "far" is one that the network policy does
\* not allow, "ip6" one with colons.
Literal == {"ip", "far", "ip6"}

\* canonicalHostname drops a port, upper case, brackets and one final dot, after
\* which a name may turn out to be an address: "ip." and "far." do, as "[ip]" and
\* "[ip6]" do in brackets.  Without brackets a second colon is refused.
CanonicalHostname(h) ==
    CASE h \in {"name", "variant"} -> "name"
      [] h \in {"ip", "ip.", "[ip]"} -> "ip"
      [] h \in {"far", "far."} -> "far"
      [] h = "[ip6]" -> "ip6"
      [] OTHER -> Refused

PublicHostname(h) ==
    LET c == CanonicalHostname(h) IN IF c \in Literal THEN Refused ELSE c

\* An address stays as it is.
CanonicalUpstream(h) == IF h \in Literal THEN h ELSE CanonicalHostname(h)

\* Fault (mutation only): the policy is asked before the name is canonical.
UpstreamHostEarly(h) == IF h = "far" THEN Refused ELSE CanonicalUpstream(h)

\* The policy is asked about the canonical host.
UpstreamHost(h) == LET c == CanonicalUpstream(h) IN IF c = "far" THEN Refused ELSE c

\* An address or a colon is refused as it was given, not as it is stored; "port"
\* is a name with a port.
ServerName(s) ==
    CASE s \in {"", "absent"} -> ""
      [] s \in Literal \cup {"port", "[ip6]"} -> Refused
      [] OTHER -> CanonicalHostname(s)

\* The class of an integer: "number" in range, "variant" a number as text.
BoundedInteger(n, fallback) ==
    CASE n \in {"number", "variant"} -> "number" [] n = "absent" -> fallback [] OTHER -> Refused

OnlyTrue(b) == IF b = "true" THEN "true" ELSE "false"

\* Fault (mutation only): the comparison is the wrong way round.
OnlyFalse(b) == IF b = "false" THEN "true" ELSE "false"

NotFalse(b) == IF b = "false" THEN "false" ELSE "true"

\* Of a closed set of words; another one is replaced or refused.
Word(w, words, otherwise) == IF w \in words THEN w ELSE otherwise

\* Any text, trimmed or cut to its limit; anything else is no text.
OptionalText(t) == CASE t \in {"text", "variant"} -> "text" [] OTHER -> ""

RequiredText(t) == IF t \in {"text", "variant"} THEN "text" ELSE Refused

Identifier(i) == IF i \in {"id", "absent"} THEN "id" ELSE Refused

\* stringList and pathList: "twice" holds one text twice, "alike" texts that
\* differ only until they are canonical.
StringList(l) ==
    CASE l = "absent" -> "empty" [] l = "twice" -> "once" [] l = "bad" -> Refused [] OTHER -> l

\* In lower case after the repetitions were dropped
EnvironmentList(l) == IF StringList(l) = "alike" THEN "twice" ELSE StringList(l)

\* Canonical after the repetitions were dropped: of "bracketed", a list with an
\* "[ip6]", remains "bare", a list with an "ip6".
HostnameList(l) ==
    CASE l = "bracketed" -> "bare" [] l = "bare" -> Refused [] OTHER -> EnvironmentList(l)

\* A URL: "variant" has blanks around it, "bad" credentials or another scheme.
Url(u) == CASE u \in {"url", "variant"} -> "url" [] u \in {"absent", ""} -> "" [] OTHER -> Refused

HostHeader(h) == CASE h \in {"name", "variant"} -> "name" [] h \in {"absent", ""} -> "" [] OTHER -> Refused

Environment(e) == CASE e \in {"word", "variant", "absent"} -> "word" [] OTHER -> Refused

CaPem(pem) == CASE pem \in {"absent", ""} -> "" [] pem = "certificate" -> pem [] OTHER -> Refused

HealthPath(p) == IF p \in {"path", "absent"} THEN "path" ELSE Refused

Statuses(s) == CASE s \in {"numbers", "variant", "absent"} -> "numbers" [] OTHER -> Refused

\* Each item of a list is validated: "bad" holds one that is refused, "bracketed"
\* and "bare" one with such a list of host names.
ItemList(l) == CASE l = "bracketed" -> "bare" [] l \in {"bad", "bare"} -> Refused [] OTHER -> l

\* Injections that are no list are none.
Injections(l) == IF l = "absent" THEN "empty" ELSE ItemList(l)

\* Resolved ones may be left out.
Resolved(l) == ItemList(l)

ResolvedProfiles(l) == IF l \in {"items", "empty", "absent"} THEN l ELSE Refused

Unknown(u) == IF u = "none" THEN "none" ELSE Refused

-----------------------------------------------------------------------------
(* validateRoute.  "clash" is TRUE when an id occurs twice in the items of  *)
(* profiles and route together, or they are too many or too large.         *)

RouteFields(r) ==
    [id |-> Identifier(r.id), unknown |-> Unknown(r.unknown),
     hostname |-> PublicHostname(r.hostname), environment |-> Environment(r.environment),
     enabled |-> OnlyTrue(r.enabled), mode |-> Word(r.mode, {"passthrough", "inject"}, Refused),
     protocol |-> Word(r.protocol, {"http", "https"}, Refused),
     host |-> UpstreamHost(r.host), port |-> BoundedInteger(r.port, Refused),
     hostHeader |-> HostHeader(r.hostHeader), serverName |-> ServerName(r.serverName),
     tlsVerify |-> NotFalse(r.tlsVerify), caPem |-> CaPem(r.caPem),
     timeouts |-> BoundedInteger(r.timeouts, "number"),
     healthEnabled |-> NotFalse(r.healthEnabled), healthPath |-> HealthPath(r.healthPath),
     healthMethod |-> Word(r.healthMethod, {"GET", "HEAD"}, "GET"),
     statuses |-> Statuses(r.statuses), maxInjectBytes |-> BoundedInteger(r.maxInjectBytes, "number"),
     excludedPaths |-> StringList(r.excludedPaths), cspMode |-> Word(r.cspMode, {"preserve"}, "skip"),
     profileIds |-> StringList(r.profileIds),
     injections |-> Injections(r.injections), resolvedItems |-> Resolved(r.resolvedItems),
     resolvedProfiles |-> ResolvedProfiles(r.resolvedProfiles),
     clash |-> Word(r.clash, {"none"}, Refused), notes |-> OptionalText(r.notes)]

ValidateRoute(r) ==
    LET n == RouteFields(r) IN
    IF n.protocol = "http" /\ n.caPem # "" THEN [n EXCEPT !.caPem = Refused] ELSE n

-----------------------------------------------------------------------------
(* validateInjection.  The options of an item are there only for Umami.     *)

ItemTypes == {"external-script", "inline-script", "external-style", "inline-style",
              "html", "meta", "umami"}

\* Without an analytics URL of its own the item's URL is taken.
AnalyticsUrl(i) == IF i.analyticsUrl = "absent" THEN Url(i.url) ELSE Url(i.analyticsUrl)

ItemFields(i) ==
    [id |-> Identifier(i.id), unknown |-> Unknown(i.unknown), name |-> RequiredText(i.name),
     enabled |-> NotFalse(i.enabled), type |-> Word(i.type, ItemTypes, Refused),
     location |-> Word(i.location, {"head-end", "body-end"}, Refused),
     priority |-> BoundedInteger(i.priority, "number"),
     url |-> Url(i.url), content |-> IF i.content = "long" THEN Refused ELSE OptionalText(i.content),
     attributes |-> CASE i.attributes = "allowed" -> "allowed"
                      [] i.attributes = "bad" -> Refused [] OTHER -> "empty",
     nonceBehavior |-> Word(i.nonceBehavior, {"copy-existing"}, "none"),
     includeHostnames |-> HostnameList(i.includeHostnames), includePaths |-> StringList(i.includePaths),
     excludePaths |-> StringList(i.excludePaths), environments |-> EnvironmentList(i.environments),
     duplicatePattern |-> OptionalText(i.duplicatePattern), notes |-> OptionalText(i.notes),
     options |-> Word(i.options, {"given", "absent"}, Refused),
     analytics |-> i.analytics, recorder |-> i.recorder, websiteId |-> i.websiteId,
     analyticsUrl |-> i.analyticsUrl, recorderUrl |-> i.recorderUrl]

UmamiFields(i) ==
    [ItemFields(i) EXCEPT
        !.options = IF i.options = "bad" THEN Refused ELSE "given",
        !.analytics = NotFalse(i.analytics), !.recorder = OnlyTrue(i.recorder),
        !.websiteId = OptionalText(i.websiteId), !.analyticsUrl = AnalyticsUrl(i),
        !.recorderUrl = Url(i.recorderUrl)]

\* What the type of an item asks of its other fields
Complete(n) ==
    /\ n.type \in {"external-script", "external-style"} => n.url # ""
    /\ n.type \in {"inline-script", "inline-style", "html"} => n.content # ""
    /\ n.type # "umami" => n.options = "absent"
    /\ n.type = "umami" =>
          /\ n.analytics = "true" \/ n.recorder = "true" => n.websiteId # ""
          /\ n.analytics = "true" => n.analyticsUrl # ""
          /\ n.recorder = "true" => n.recorderUrl # ""

ValidateInjection(i) ==
    LET n == IF i.type = "umami" THEN UmamiFields(i) ELSE ItemFields(i) IN
    IF Complete(n) THEN n ELSE [n EXCEPT !.type = Refused]

\* validateProfile: the revision is the store's, whatever was given.  "clash"
\* and the items as in a route.
ValidateProfile(p) ==
    [id |-> Identifier(p.id), unknown |-> Unknown(p.unknown), name |-> RequiredText(p.name),
     kind |-> Word(p.kind, {"umami"}, "custom"), enabled |-> NotFalse(p.enabled),
     items |-> Injections(p.items), clash |-> Word(p.clash, {"none"}, Refused),
     notes |-> OptionalText(p.notes), revision |-> "absent"]

-----------------------------------------------------------------------------
(* parseUmamiSnippet.  A snippet is its script tags: the website id, the    *)
(* URL and whether it is a recorder's; "bad" for anything refused in a tag. *)

NotParsed == [websiteId |-> Refused, analytics |-> "false", recorder |-> "false",
              analyticsUrl |-> "", recorderUrl |-> ""]

\* Fault (mutation only): recorder and analytics are always both switched on.
SwitchedOn(url) == "true"

Switched(url) == IF url = "" THEN "false" ELSE "true"

ParseUmamiSnippet(scripts) ==
    LET urls(recorder) == {k \in DOMAIN scripts : scripts[k].recorder = recorder}
        url(recorder) == IF urls(recorder) = {} THEN "" ELSE "url"
    IN IF \/ Len(scripts) \notin 1..2
          \/ \E k \in DOMAIN scripts : scripts[k].websiteId = "bad" \/ scripts[k].src = "bad"
          \/ \E j, k \in DOMAIN scripts : scripts[j].websiteId # scripts[k].websiteId
          \/ \E recorder \in BOOLEAN : Cardinality(urls(recorder)) > 1
       THEN NotParsed
       ELSE [websiteId |-> "text",
             analytics |-> Switched(url(FALSE)), recorder |-> Switched(url(TRUE)),
             analyticsUrl |-> url(FALSE), recorderUrl |-> url(TRUE)]
=============================================================================
