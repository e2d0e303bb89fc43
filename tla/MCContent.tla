------------------------------ MODULE MCContent ------------------------------
EXTENDS Content, TLC

\* The one text with an ampersand
MCEscapes == "u&v" :> "u&amp;v"

\* Pages.
Tokens == {<<"head", "">>, <<"/head", "">>, <<"body", "">>, <<"/body", "">>, <<"text", "">>}

Whole == << <<"head", "">>, <<"text", "">>, <<"/head", "">>, <<"body", "">>, <<"text", "">>, <<"/body", "">> >>

Item(id, priority, location, type, content) ==
    [id |-> id, priority |-> priority, location |-> location, type |-> type, content |-> content,
     pattern |-> "", enabled |-> TRUE, includes |-> {}, excludes |-> {}]

Route(items, limit) ==
    [mode |-> "inject", cspMode |-> "skip", maxInjectBytes |-> limit, excludedPaths |-> {"/api"},
     items |-> items]

Case(page, route, response, path) ==
    [page |-> page, route |-> route, response |-> response, path |-> path]

\* The tags of a page in any order, with two items anywhere
Shapes ==
    {Case(page, Route(<<Item(2, 0, a, "url", "x"), Item(1, 0, b, "inline", "y")>>, 9), {}, {"/"}) :
        page \in BoundedSeq(Tokens, 4) \cup {Whole, Append(Whole, <<"open", "">>)},
        a \in Range(Locations), b \in Range(Locations)}

\* One page that may hold what the items look for, with three items of all sorts
Found ==
    {<<>>, << <<"marker", 2>> >>, << <<"charset", "">> >>, << <<"csp", "">> >>}
    \cup {<< <<"content", text>> >> : text \in {"x", "u&v", "u&amp;v"}}

Sorts ==
    {Item(id, p, loc, type, content) :
        id \in {1, 2}, p \in {0, 1}, loc \in {"head-start", "body-end"},
        type \in {"url", "inline"}, content \in {"x", "u&v", ""}}
    \cup {[Item(id, p, loc, type, content) EXCEPT !.pattern = "x"] :
        id \in {1, 2}, p \in {0, 1}, loc \in {"head-start", "body-end"},
        type \in {"url", "plain"}, content \in {"x", "y"}}

Mixtures ==
    {Case(found \o Whole, Route(<<Item(3, 1, "head-start", "url", text), a, b>>, 10), {}, {"/"}) :
        found \in Found, text \in {"x", "u&v"},
        a \in {s \in Sorts : s.id = 2}, b \in {s \in Sorts : s.id = 1}}

\* The conditions of route, response and path
Conditions ==
    {Case(Append(found, <<"text", "">>) \o Whole,
          [Route(<<[Item(1, 0, "head-end", "url", "x") EXCEPT
                      !.enabled = enabled, !.includes = includes, !.excludes = excludes]>>, limit)
             EXCEPT !.mode = mode, !.cspMode = cspMode], response, path) :
        found \in Found, limit \in {6, 8, 12}, enabled \in BOOLEAN,
        includes \in {{}, {"/"}}, excludes \in {{}, {"/", "/api"}},
        mode \in {"inject", "passthrough"}, cspMode \in {"skip", "preserve"},
        response \in {{}, {"csp"}, {"attachment", "csp"}} \cup {{o} : o \in Obstacles},
        path \in {{}, {"/"}, {"/api"}, {"/b"}}}

MCPageCases == <<Shapes, Mixtures, Conditions>>

-----------------------------------------------------------------------------
Values(f) ==
    CASE f = "id" -> {"id", "absent", "bad"}
      [] f = "unknown" -> {"none", "some"}
      [] f \in {"hostname", "host"} -> {"name", "variant", "ip", "ip.", "[ip]", "ip6", "[ip6]", "far", "far.", "bad"}
      [] f = "serverName" -> {"", "absent", "name", "variant", "ip", "ip.", "[ip]", "ip6", "[ip6]", "far.", "port"}
      [] f = "hostHeader" -> {"", "absent", "name", "variant", "bad"}
      [] f = "environment" -> {"word", "variant", "absent", "bad"}
      [] f \in {"enabled", "tlsVerify", "healthEnabled", "analytics", "recorder"} -> {"true", "false", "absent"}
      [] f = "mode" -> {"passthrough", "inject", "bad"}
      [] f = "protocol" -> {"http", "https", "bad"}
      [] f \in {"port", "timeouts", "maxInjectBytes", "priority"} -> {"number", "variant", "absent", "bad"}
      [] f = "caPem" -> {"", "absent", "certificate", "key"}
      [] f = "healthPath" -> {"path", "absent", "bad"}
      [] f = "healthMethod" -> {"GET", "HEAD", "bad"}
      [] f = "statuses" -> {"numbers", "variant", "absent", "bad"}
      [] f \in {"excludedPaths", "excludePaths", "includePaths", "profileIds"} -> {"absent", "empty", "once", "twice", "bad"}
      [] f = "includeHostnames" ->
            {"absent", "empty", "once", "twice", "alike", "bracketed", "bare", "bad"}
      [] f = "environments" -> {"absent", "empty", "once", "twice", "alike", "bad"}
      [] f = "cspMode" -> {"skip", "preserve", "bad"}
      [] f \in {"injections", "items", "resolvedItems"} ->
            {"items", "empty", "absent", "bracketed", "bare", "bad"}
      [] f = "resolvedProfiles" -> {"items", "empty", "absent", "bad"}
      [] f = "clash" -> {"none", "some"}
      [] f \in {"name", "notes", "duplicatePattern"} -> {"text", "variant", "absent"}
      [] f = "content" -> {"text", "absent", "long"}
      [] f = "type" -> ItemTypes \cup {"bad"}
      [] f = "location" -> {"head-end", "body-end", "bad"}
      [] f \in {"url", "recorderUrl", "analyticsUrl"} -> {"url", "variant", "absent", "", "bad"}
      [] f = "attributes" -> {"allowed", "absent", "bad"}
      [] f = "nonceBehavior" -> {"copy-existing", "none", "absent"}
      [] f = "options" -> {"given", "absent", "bad"}
      [] f = "websiteId" -> {"text", "variant", "absent"}
      [] f = "kind" -> {"umami", "custom", "bad"}
      [] f = "revision" -> {"absent", "given"}

\* A good form with any two of its fields changed to any of their values
Varied(good) ==
    LET changes == UNION {{f} \X Values(f) : f \in DOMAIN good} IN
    {[good EXCEPT ![c[1]] = c[2], ![d[1]] = d[2]] : c \in changes, d \in changes}

GoodRoute ==
    [id |-> "id", unknown |-> "none", hostname |-> "name", environment |-> "word",
     enabled |-> "true", mode |-> "inject", protocol |-> "https", host |-> "ip", port |-> "number",
     hostHeader |-> "", serverName |-> "name", tlsVerify |-> "true", caPem |-> "certificate",
     timeouts |-> "number", healthEnabled |-> "true", healthPath |-> "path", healthMethod |-> "GET",
     statuses |-> "numbers", maxInjectBytes |-> "number", excludedPaths |-> "once",
     cspMode |-> "skip", profileIds |-> "once", injections |-> "items", resolvedItems |-> "absent",
     resolvedProfiles |-> "absent", clash |-> "none", notes |-> "text"]

GoodItem ==
    [id |-> "id", unknown |-> "none", name |-> "text", enabled |-> "true", type |-> "external-script",
     location |-> "head-end", priority |-> "number", url |-> "url", content |-> "text",
     attributes |-> "allowed", nonceBehavior |-> "none", includeHostnames |-> "empty",
     includePaths |-> "once", excludePaths |-> "empty", environments |-> "once",
     duplicatePattern |-> "absent", notes |-> "text", options |-> "absent", analytics |-> "absent",
     recorder |-> "absent", websiteId |-> "absent", analyticsUrl |-> "absent", recorderUrl |-> "absent"]

GoodUmami ==
    [GoodItem EXCEPT !.type = "umami", !.options = "given", !.analytics = "true", !.recorder = "true",
                     !.websiteId = "text", !.analyticsUrl = "url", !.recorderUrl = "url"]

GoodProfile ==
    [id |-> "id", unknown |-> "none", name |-> "text", kind |-> "custom", enabled |-> "true",
     items |-> "items", clash |-> "none", notes |-> "text", revision |-> "given"]

\* Options that are not given have no parts.
MCItemForms ==
    {i \in Varied(GoodItem) \cup Varied(GoodUmami) :
        i.options # "given" =>
            \A f \in {"analytics", "recorder", "websiteId", "analyticsUrl", "recorderUrl"} :
                i[f] = "absent"}

MCRouteForms == Varied(GoodRoute)

MCProfileForms == Varied(GoodProfile)

MCSnippets ==
    BoundedSeq([websiteId : {"u", "v", "bad"}, src : {"good", "bad"}, recorder : BOOLEAN], 3)

\* Every network, in all its spellings
MCLookupCases ==
    {[answers |-> answers, address |-> n.address, prefix |-> n.prefix] :
        answers \in BoundedSeq(Answers, 2), n \in Networks}

At(family, value, prefix) == [address |-> [family |-> family, value |-> value], prefix |-> prefix]

MCLoopback == {At(4, 7, 2), At(6, 1, 3)}

MCPrivate == {At(4, 2, 2), At(6, 4, 2)}

\* One allowed network or a second one beside that of the host
MCConfigs ==
    [listen : Addresses, allowed : {{n} : n \in Networks} \cup {{n, At(4, 7, 3)} : n \in Networks},
     allowRemote : BOOLEAN, cookieSecure : BOOLEAN, tls : BOOLEAN]
=============================================================================
