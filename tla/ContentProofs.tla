---------------------------- MODULE ContentProofs ----------------------------
(***************************************************************************)
(* What is submitted keeps its meaning however often it is validated, for  *)
(* forms with any combination of fields and for snippets of any length;    *)
(* and addresses of any number of bits are in the networks that their      *)
(* leading bits say.                                                       *)
(***************************************************************************)
EXTENDS Content, WellFoundedInduction, TLAPS

-----------------------------------------------------------------------------
(***************************************************************************)
(* One field: what was stored is stored again as it is.                    *)
(***************************************************************************)
LEMMA WordStays ==
    ASSUME NEW w, NEW words, NEW otherwise
    PROVE  Word(Word(w, words, otherwise), words, otherwise) = Word(w, words, otherwise)
BY DEF Word

LEMMA IdentifierStays ==
    ASSUME NEW x, Identifier(x) # Refused PROVE Identifier(Identifier(x)) = Identifier(x)
BY DEF Identifier, Refused

LEMMA UnknownStays ==
    ASSUME NEW x, Unknown(x) # Refused PROVE Unknown(Unknown(x)) = Unknown(x)
BY DEF Unknown, Refused

LEMMA PublicHostnameStays ==
    ASSUME NEW x, PublicHostname(x) # Refused PROVE PublicHostname(PublicHostname(x)) = PublicHostname(x)
BY DEF PublicHostname, CanonicalHostname, Literal, Refused

LEMMA EnvironmentStays ==
    ASSUME NEW x, Environment(x) # Refused PROVE Environment(Environment(x)) = Environment(x)
BY DEF Environment, Refused

LEMMA OnlyTrueStays ==
    ASSUME NEW x PROVE OnlyTrue(OnlyTrue(x)) = OnlyTrue(x)
BY DEF OnlyTrue

LEMMA NotFalseStays ==
    ASSUME NEW x PROVE NotFalse(NotFalse(x)) = NotFalse(x)
BY DEF NotFalse

LEMMA UpstreamHostStays ==
    ASSUME NEW x, UpstreamHost(x) # Refused PROVE UpstreamHost(UpstreamHost(x)) = UpstreamHost(x)
BY DEF UpstreamHost, CanonicalUpstream, CanonicalHostname, Literal, Refused

LEMMA HostHeaderStays ==
    ASSUME NEW x, HostHeader(x) # Refused PROVE HostHeader(HostHeader(x)) = HostHeader(x)
BY DEF HostHeader, Refused

\* A server name is either kept or, when it became an address, refused.
LEMMA ServerNameSettles ==
    ASSUME NEW x, ServerName(x) # Refused
    PROVE  /\ ServerName(ServerName(x)) # Refused => ServerName(ServerName(x)) = ServerName(x)
           /\ x \notin {"ip.", "far.", "[ip]"} => ServerName(ServerName(x)) = ServerName(x)
BY DEF ServerName, CanonicalHostname, Literal, Refused

LEMMA IntegerStays ==
    ASSUME NEW x, NEW fallback \in {"number", Refused}, BoundedInteger(x, fallback) # Refused
    PROVE  BoundedInteger(BoundedInteger(x, fallback), fallback) = BoundedInteger(x, fallback)
BY DEF BoundedInteger, Refused

LEMMA CaPemStays ==
    ASSUME NEW x, CaPem(x) # Refused PROVE CaPem(CaPem(x)) = CaPem(x)
BY DEF CaPem, Refused

LEMMA HealthPathStays ==
    ASSUME NEW x, HealthPath(x) # Refused PROVE HealthPath(HealthPath(x)) = HealthPath(x)
BY DEF HealthPath, Refused

LEMMA StatusesStay ==
    ASSUME NEW x, Statuses(x) # Refused PROVE Statuses(Statuses(x)) = Statuses(x)
BY DEF Statuses, Refused

LEMMA StringListStays ==
    ASSUME NEW x, StringList(x) # Refused PROVE StringList(StringList(x)) = StringList(x)
BY DEF StringList, Refused

\* Texts that become alike only when they are canonical are dropped one pass later.
LEMMA EnvironmentListSettles ==
    ASSUME NEW x, EnvironmentList(x) # Refused
    PROVE  /\ EnvironmentList(EnvironmentList(x)) # Refused
           /\ EnvironmentList(EnvironmentList(EnvironmentList(x))) = EnvironmentList(EnvironmentList(x))
BY DEF EnvironmentList, StringList, Refused

\* Host names too, unless an address lost its brackets and is refused.
LEMMA HostnameListSettles ==
    ASSUME NEW x, HostnameList(x) # Refused
    PROVE  /\ x # "bracketed" => HostnameList(HostnameList(x)) # Refused
           /\ HostnameList(HostnameList(x)) # Refused =>
                 HostnameList(HostnameList(HostnameList(x))) = HostnameList(HostnameList(x))
BY DEF HostnameList, EnvironmentList, StringList, Refused

LEMMA ItemListSettles ==
    ASSUME NEW x, ItemList(x) # Refused
    PROVE  /\ ItemList(ItemList(x)) # Refused => ItemList(ItemList(x)) = ItemList(x)
           /\ x # "bracketed" => ItemList(ItemList(x)) = ItemList(x)
BY DEF ItemList, Refused

LEMMA InjectionsSettle ==
    ASSUME NEW x, Injections(x) # Refused
    PROVE  /\ Injections(Injections(x)) # Refused => Injections(Injections(x)) = Injections(x)
           /\ x # "bracketed" => Injections(Injections(x)) = Injections(x)
BY DEF Injections, ItemList, Refused

LEMMA ResolvedSettles ==
    ASSUME NEW x, Resolved(x) # Refused
    PROVE  /\ Resolved(Resolved(x)) # Refused => Resolved(Resolved(x)) = Resolved(x)
           /\ x # "bracketed" => Resolved(Resolved(x)) = Resolved(x)
BY ItemListSettles DEF Resolved

LEMMA ResolvedProfilesStay ==
    ASSUME NEW x, ResolvedProfiles(x) # Refused PROVE ResolvedProfiles(ResolvedProfiles(x)) = ResolvedProfiles(x)
BY DEF ResolvedProfiles, Refused

LEMMA TextStays ==
    ASSUME NEW x PROVE OptionalText(OptionalText(x)) = OptionalText(x)
BY DEF OptionalText

LEMMA RequiredTextStays ==
    ASSUME NEW x, RequiredText(x) # Refused PROVE RequiredText(RequiredText(x)) = RequiredText(x)
BY DEF RequiredText, Refused

LEMMA UrlStays ==
    ASSUME NEW x, Url(x) # Refused
    PROVE  Url(Url(x)) = Url(x) /\ Url(x) # "absent"
BY DEF Url, Refused

-----------------------------------------------------------------------------
(***************************************************************************)
(* Routes.  Field by field, and then the one rule between two fields.      *)
(***************************************************************************)
LEMMA RouteAccepted ==
    ASSUME NEW r, Accepted(ValidateRoute(r))
    PROVE  /\ ValidateRoute(r) = RouteFields(r)
           /\ RouteFields(r).protocol = "http" => RouteFields(r).caPem = ""
<1> DEFINE n == RouteFields(r)
<1>1. CASE n.protocol = "http" /\ n.caPem # ""
  <2>1. ValidateRoute(r) = [n EXCEPT !.caPem = Refused]
    BY <1>1 DEF ValidateRoute
  <2>2. "caPem" \in DOMAIN n
    BY DEF RouteFields
  <2> QED BY <2>1, <2>2 DEF Accepted
<1>2. CASE ~(n.protocol = "http" /\ n.caPem # "")
  BY <1>2 DEF ValidateRoute
<1> QED BY <1>1, <1>2

LEMMA RouteFieldsStay ==
    ASSUME NEW r, Accepted(RouteFields(r)),
           LET s == RouteFields(r).serverName IN ServerName(s) = s,
           LET s == RouteFields(r).injections IN Injections(s) = s,
           LET s == RouteFields(r).resolvedItems IN Resolved(s) = s
    PROVE  RouteFields(RouteFields(r)) = RouteFields(r)
<1> DEFINE n == RouteFields(r)
<1>1. \A f \in DOMAIN n : n[f] # Refused
  BY SMTT(30) DEF Accepted
<1>2. /\ Identifier(n.id) = n.id /\ Unknown(n.unknown) = n.unknown
      /\ PublicHostname(n.hostname) = n.hostname /\ Environment(n.environment) = n.environment
      /\ OnlyTrue(n.enabled) = n.enabled /\ UpstreamHost(n.host) = n.host
      /\ HostHeader(n.hostHeader) = n.hostHeader
      /\ NotFalse(n.tlsVerify) = n.tlsVerify /\ CaPem(n.caPem) = n.caPem
  BY <1>1, IdentifierStays, UnknownStays, PublicHostnameStays, EnvironmentStays, OnlyTrueStays,
     UpstreamHostStays, HostHeaderStays, NotFalseStays, CaPemStays
     DEF RouteFields
<1>3. /\ Word(n.mode, {"passthrough", "inject"}, Refused) = n.mode
      /\ Word(n.protocol, {"http", "https"}, Refused) = n.protocol
      /\ Word(n.healthMethod, {"GET", "HEAD"}, "GET") = n.healthMethod
      /\ Word(n.cspMode, {"preserve"}, "skip") = n.cspMode
      /\ Word(n.clash, {"none"}, Refused) = n.clash
  BY WordStays DEF RouteFields
<1>4. /\ BoundedInteger(n.port, Refused) = n.port
      /\ BoundedInteger(n.timeouts, "number") = n.timeouts
      /\ BoundedInteger(n.maxInjectBytes, "number") = n.maxInjectBytes
  BY <1>1, IntegerStays, SMTT(30) DEF RouteFields
<1>5. /\ NotFalse(n.healthEnabled) = n.healthEnabled /\ HealthPath(n.healthPath) = n.healthPath
      /\ Statuses(n.statuses) = n.statuses
      /\ StringList(n.excludedPaths) = n.excludedPaths /\ StringList(n.profileIds) = n.profileIds
      /\ ResolvedProfiles(n.resolvedProfiles) = n.resolvedProfiles /\ OptionalText(n.notes) = n.notes
  BY <1>1, NotFalseStays, HealthPathStays, StatusesStay, StringListStays, ResolvedProfilesStay,
     TextStays DEF RouteFields
<1>6. /\ ServerName(n.serverName) = n.serverName /\ Injections(n.injections) = n.injections
      /\ Resolved(n.resolvedItems) = n.resolvedItems
  OBVIOUS
<1>7. RouteFields(n) = n
  BY <1>2, <1>3, <1>4, <1>5, <1>6, Zenon DEF RouteFields
<1> QED BY <1>7

LEMMA PartsAccepted ==
    ASSUME NEW r, Accepted(ValidateRoute(r))
    PROVE  LET n == ValidateRoute(r)
           IN /\ ServerName(r.serverName) # Refused /\ n.serverName = ServerName(r.serverName)
              /\ Injections(r.injections) # Refused /\ n.injections = Injections(r.injections)
              /\ Resolved(r.resolvedItems) # Refused /\ n.resolvedItems = Resolved(r.resolvedItems)
<1>1. ValidateRoute(r) = RouteFields(r)
  BY RouteAccepted
<1> QED BY <1>1 DEF Accepted, RouteFields

\* A route with a part that loses its brackets or its final dot and is an
\* address then
RouteException(r) ==
    r.serverName \in {"ip.", "far.", "[ip]"} \/ "bracketed" \in {r.injections, r.resolvedItems}

LEMMA RouteSettles ==
    ASSUME NEW r, Accepted(ValidateRoute(r)),
           ~RouteException(r) \/ Accepted(ValidateRoute(ValidateRoute(r)))
    PROVE  ValidateRoute(ValidateRoute(r)) = ValidateRoute(r)
<1> DEFINE n == ValidateRoute(r)
<1>1. n = RouteFields(r) /\ (n.protocol = "http" => n.caPem = "")
  BY RouteAccepted
<1>2. /\ n.serverName = ServerName(r.serverName) /\ n.serverName # Refused
      /\ n.injections = Injections(r.injections) /\ n.injections # Refused
      /\ n.resolvedItems = Resolved(r.resolvedItems) /\ n.resolvedItems # Refused
  BY PartsAccepted
<1>3. ASSUME Accepted(ValidateRoute(n))
      PROVE  /\ ServerName(n.serverName) # Refused /\ Injections(n.injections) # Refused
             /\ Resolved(n.resolvedItems) # Refused
  BY <1>3, PartsAccepted
<1>4. ServerName(n.serverName) = n.serverName
  BY <1>2, <1>3, ServerNameSettles DEF RouteException
<1>5. Injections(n.injections) = n.injections /\ Resolved(n.resolvedItems) = n.resolvedItems
  BY <1>2, <1>3, InjectionsSettle, ResolvedSettles DEF RouteException
<1>7. RouteFields(n) = n
  BY <1>1, <1>4, <1>5, RouteFieldsStay
<1> HIDE DEF n
<1>6. ValidateRoute(n) = n
  BY <1>1, <1>7 DEF ValidateRoute
<1> QED BY <1>6 DEF n

-----------------------------------------------------------------------------
(***************************************************************************)
(* Profiles.                                                               *)
(***************************************************************************)
LEMMA ProfileSettles ==
    ASSUME NEW p, Accepted(ValidateProfile(p)),
           p.items # "bracketed" \/ Accepted(ValidateProfile(ValidateProfile(p)))
    PROVE  ValidateProfile(ValidateProfile(p)) = ValidateProfile(p)
<1> DEFINE n == ValidateProfile(p)
<1>1. \A f \in DOMAIN n : n[f] # Refused
  BY DEF Accepted
<1>2. /\ Identifier(n.id) = n.id /\ Unknown(n.unknown) = n.unknown
      /\ RequiredText(n.name) = n.name /\ NotFalse(n.enabled) = n.enabled
      /\ OptionalText(n.notes) = n.notes
  BY <1>1, IdentifierStays, UnknownStays, RequiredTextStays, NotFalseStays, TextStays
     DEF ValidateProfile
<1>3. /\ Word(n.kind, {"umami"}, "custom") = n.kind /\ Word(n.clash, {"none"}, Refused) = n.clash
      /\ n.revision = "absent"
  BY WordStays DEF ValidateProfile
<1>4. Injections(n.items) = n.items
  <2>1. n.items = Injections(p.items) /\ n.items # Refused
    BY <1>1 DEF ValidateProfile
  <2>2. ASSUME Accepted(ValidateProfile(n)) PROVE Injections(n.items) # Refused
    BY <2>2 DEF Accepted, ValidateProfile
  <2> HIDE DEF n
  <2>3. p.items # "bracketed" \/ Injections(n.items) # Refused
    BY <2>2 DEF n
  <2> QED BY <2>1, <2>3, InjectionsSettle
<1> QED BY <1>2, <1>3, <1>4, Zenon DEF ValidateProfile

-----------------------------------------------------------------------------
(***************************************************************************)
(* Items.  The hostnames and environments may need a second pass, so what  *)
(* is stored after the first one is compared field by field.               *)
(***************************************************************************)
FieldsOf(i) == IF i.type = "umami" THEN UmamiFields(i) ELSE ItemFields(i)

ItemDomain ==
    {"id", "unknown", "name", "enabled", "type", "location", "priority", "url", "content",
     "attributes", "nonceBehavior", "includeHostnames", "includePaths", "excludePaths",
     "environments", "duplicatePattern", "notes", "options", "analytics", "recorder",
     "websiteId", "analyticsUrl", "recorderUrl"}

LEMMA FieldsAreOfItems ==
    ASSUME NEW i
    PROVE  DOMAIN FieldsOf(i) = ItemDomain /\ FieldsOf(i) = [f \in ItemDomain |-> FieldsOf(i)[f]]
<1>1. DOMAIN ItemFields(i) = ItemDomain /\ ItemFields(i) = [f \in ItemDomain |-> ItemFields(i)[f]]
  BY DEF ItemFields, ItemDomain
<1>2. DOMAIN UmamiFields(i) = ItemDomain /\ UmamiFields(i) = [f \in ItemDomain |-> UmamiFields(i)[f]]
  BY <1>1 DEF UmamiFields
<1> QED BY <1>1, <1>2 DEF FieldsOf

LEMMA HostnamesOf ==
    ASSUME NEW i
    PROVE  FieldsOf(i).includeHostnames = HostnameList(i.includeHostnames)
BY DEF FieldsOf, UmamiFields, ItemFields

LEMMA ItemAccepted ==
    ASSUME NEW i, Accepted(ValidateInjection(i))
    PROVE  ValidateInjection(i) = FieldsOf(i) /\ Complete(FieldsOf(i))
<1> DEFINE n == FieldsOf(i)
<1>1. "type" \in DOMAIN n
  BY DEF FieldsOf, UmamiFields, ItemFields
<1>2. ValidateInjection(i) = IF Complete(n) THEN n ELSE [n EXCEPT !.type = Refused]
  BY DEF ValidateInjection, FieldsOf
<1> HIDE DEF n
<1>3. CASE Complete(n)
  BY <1>2, <1>3 DEF n
<1>4. CASE ~Complete(n)
  BY <1>1, <1>2, <1>4 DEF Accepted
<1> QED BY <1>3, <1>4

\* The type of an item decides for good whether its options count.
LEMMA TypeStays ==
    ASSUME NEW i, Accepted(FieldsOf(i))
    PROVE  FieldsOf(i).type = i.type /\ i.type \in ItemTypes
<1>1. FieldsOf(i).type = Word(i.type, ItemTypes, Refused)
  BY DEF FieldsOf, UmamiFields, ItemFields
<1>2. FieldsOf(i).type # Refused
  BY DEF Accepted, FieldsOf, UmamiFields, ItemFields
<1> QED BY <1>1, <1>2 DEF Word

\* The fields that Umami's options add are those of a type of their own.
LEMMA OptionsStay ==
    ASSUME NEW i, Accepted(FieldsOf(i)), NEW n, n = FieldsOf(i)
    PROVE  /\ n.options = FieldsOf(n).options
           /\ n.analytics = FieldsOf(n).analytics /\ n.recorder = FieldsOf(n).recorder
           /\ n.websiteId = FieldsOf(n).websiteId
           /\ n.analyticsUrl = FieldsOf(n).analyticsUrl /\ n.recorderUrl = FieldsOf(n).recorderUrl
<1>1. n.type = i.type
  BY TypeStays
<1>2. CASE i.type = "umami"
  <2>1. /\ n.options # Refused /\ n.analyticsUrl # Refused /\ n.recorderUrl # Refused
        /\ n.options = (IF i.options = "bad" THEN Refused ELSE "given")
        /\ n.analytics = NotFalse(i.analytics) /\ n.recorder = OnlyTrue(i.recorder)
        /\ n.websiteId = OptionalText(i.websiteId) /\ n.analyticsUrl = AnalyticsUrl(i)
        /\ n.recorderUrl = Url(i.recorderUrl)
    BY <1>2, ZenonT(40) DEF Accepted, FieldsOf, UmamiFields, ItemFields
  <2>2. /\ FieldsOf(n).options = (IF n.options = "bad" THEN Refused ELSE "given")
        /\ FieldsOf(n).analytics = NotFalse(n.analytics) /\ FieldsOf(n).recorder = OnlyTrue(n.recorder)
        /\ FieldsOf(n).websiteId = OptionalText(n.websiteId)
        /\ FieldsOf(n).analyticsUrl = AnalyticsUrl(n)
        /\ FieldsOf(n).recorderUrl = Url(n.recorderUrl)
    BY <1>1, <1>2 DEF FieldsOf, UmamiFields, ItemFields
  <2>3. n.options = "given"
    BY <2>1
  <2>4. n.analyticsUrl = Url(n.analyticsUrl) /\ n.analyticsUrl # "absent"
    BY <2>1, UrlStays DEF AnalyticsUrl
  <2> QED BY <2>1, <2>2, <2>3, <2>4, NotFalseStays, OnlyTrueStays, TextStays, UrlStays DEF AnalyticsUrl
<1>3. CASE i.type # "umami"
  <2>1. /\ n.options # Refused /\ n.options = Word(i.options, {"given", "absent"}, Refused)
    BY <1>3 DEF Accepted, FieldsOf, ItemFields
  <2>2. /\ FieldsOf(n).options = Word(n.options, {"given", "absent"}, Refused)
        /\ FieldsOf(n).analytics = n.analytics /\ FieldsOf(n).recorder = n.recorder
        /\ FieldsOf(n).websiteId = n.websiteId
        /\ FieldsOf(n).analyticsUrl = n.analyticsUrl
        /\ FieldsOf(n).recorderUrl = n.recorderUrl
    BY <1>1, <1>3 DEF FieldsOf, ItemFields
  <2> QED BY <2>1, <2>2, WordStays
<1> QED BY <1>2, <1>3

\* A second pass changes nothing but the two lists; a third one nothing at all.
LEMMA ItemFieldsStay ==
    ASSUME NEW i, Accepted(FieldsOf(i)), NEW n, n = FieldsOf(i)
    PROVE  /\ FieldsOf(n) = [n EXCEPT !.includeHostnames = HostnameList(@),
                                      !.environments = EnvironmentList(@)]
           /\ i.includeHostnames # "bracketed" => HostnameList(n.includeHostnames) # Refused
           /\ EnvironmentList(n.environments) # Refused
<1>1. \A f \in DOMAIN n : n[f] # Refused
  BY DEF Accepted
<1>2. /\ n.id = Identifier(i.id) /\ n.unknown = Unknown(i.unknown) /\ n.name = RequiredText(i.name)
      /\ n.enabled = NotFalse(i.enabled) /\ n.type = Word(i.type, ItemTypes, Refused)
      /\ n.location = Word(i.location, {"head-end", "body-end"}, Refused)
      /\ n.priority = BoundedInteger(i.priority, "number") /\ n.url = Url(i.url)
      /\ n.content = (IF i.content = "long" THEN Refused ELSE OptionalText(i.content))
      /\ n.attributes = (CASE i.attributes = "allowed" -> "allowed"
                           [] i.attributes = "bad" -> Refused [] OTHER -> "empty")
      /\ n.nonceBehavior = Word(i.nonceBehavior, {"copy-existing"}, "none")
      /\ n.includeHostnames = HostnameList(i.includeHostnames)
      /\ n.includePaths = StringList(i.includePaths)
      /\ n.excludePaths = StringList(i.excludePaths)
      /\ n.environments = EnvironmentList(i.environments)
      /\ n.duplicatePattern = OptionalText(i.duplicatePattern) /\ n.notes = OptionalText(i.notes)
  BY DEF FieldsOf, UmamiFields, ItemFields
<1>3. DOMAIN n = ItemDomain
  BY FieldsAreOfItems
<1>4. /\ Identifier(n.id) = n.id /\ Unknown(n.unknown) = n.unknown /\ RequiredText(n.name) = n.name
      /\ NotFalse(n.enabled) = n.enabled /\ BoundedInteger(n.priority, "number") = n.priority
      /\ Url(n.url) = n.url
  BY <1>1, <1>2, <1>3, IdentifierStays, UnknownStays, RequiredTextStays, NotFalseStays, IntegerStays, UrlStays
     DEF ItemDomain
<1>5. /\ Word(n.type, ItemTypes, Refused) = n.type
      /\ Word(n.location, {"head-end", "body-end"}, Refused) = n.location
      /\ Word(n.nonceBehavior, {"copy-existing"}, "none") = n.nonceBehavior
  BY <1>2, WordStays
<1>6. /\ (IF n.content = "long" THEN Refused ELSE OptionalText(n.content)) = n.content
      /\ (CASE n.attributes = "allowed" -> "allowed"
            [] n.attributes = "bad" -> Refused [] OTHER -> "empty") = n.attributes
  BY <1>1, <1>2, <1>3 DEF OptionalText, Refused, ItemDomain
<1>7. /\ StringList(n.includePaths) = n.includePaths /\ StringList(n.excludePaths) = n.excludePaths
      /\ OptionalText(n.duplicatePattern) = n.duplicatePattern /\ OptionalText(n.notes) = n.notes
  BY <1>1, <1>2, <1>3, StringListStays, TextStays DEF ItemDomain
<1>8. /\ i.includeHostnames # "bracketed" => HostnameList(n.includeHostnames) # Refused
      /\ EnvironmentList(n.environments) # Refused
  BY <1>1, <1>2, <1>3, HostnameListSettles, EnvironmentListSettles DEF ItemDomain
<1> DEFINE m == FieldsOf(n)
<1>9. /\ m.options = n.options /\ m.analytics = n.analytics /\ m.recorder = n.recorder
      /\ m.websiteId = n.websiteId /\ m.analyticsUrl = n.analyticsUrl /\ m.recorderUrl = n.recorderUrl
  BY OptionsStay
<1>10. /\ m.id = Identifier(n.id) /\ m.unknown = Unknown(n.unknown) /\ m.name = RequiredText(n.name)
       /\ m.enabled = NotFalse(n.enabled) /\ m.type = Word(n.type, ItemTypes, Refused)
       /\ m.location = Word(n.location, {"head-end", "body-end"}, Refused)
       /\ m.priority = BoundedInteger(n.priority, "number") /\ m.url = Url(n.url)
       /\ m.content = (IF n.content = "long" THEN Refused ELSE OptionalText(n.content))
       /\ m.attributes = (CASE n.attributes = "allowed" -> "allowed"
                            [] n.attributes = "bad" -> Refused [] OTHER -> "empty")
       /\ m.nonceBehavior = Word(n.nonceBehavior, {"copy-existing"}, "none")
       /\ m.includeHostnames = HostnameList(n.includeHostnames)
       /\ m.includePaths = StringList(n.includePaths)
       /\ m.excludePaths = StringList(n.excludePaths)
       /\ m.environments = EnvironmentList(n.environments)
       /\ m.duplicatePattern = OptionalText(n.duplicatePattern) /\ m.notes = OptionalText(n.notes)
  BY DEF FieldsOf, UmamiFields, ItemFields
<1>11. m = [f \in ItemDomain |-> m[f]] /\ n = [f \in ItemDomain |-> n[f]]
  BY FieldsAreOfItems
<1> HIDE DEF m
<1> DEFINE k == [n EXCEPT !.includeHostnames = HostnameList(@), !.environments = EnvironmentList(@)]
<1>12. k = [f \in ItemDomain |-> k[f]]
  BY <1>3
<1>13. \A f \in ItemDomain : m[f] = k[f]
  <2>1. /\ m.id = n.id /\ m.unknown = n.unknown /\ m.name = n.name /\ m.enabled = n.enabled
        /\ m.priority = n.priority /\ m.url = n.url
    BY <1>4, <1>10
  <2>2. m.type = n.type /\ m.location = n.location /\ m.nonceBehavior = n.nonceBehavior
    BY <1>5, <1>10
  <2>3. m.content = n.content /\ m.attributes = n.attributes
    BY <1>6, <1>10
  <2>4. /\ m.includePaths = n.includePaths /\ m.excludePaths = n.excludePaths
        /\ m.duplicatePattern = n.duplicatePattern /\ m.notes = n.notes
    BY <1>7, <1>10
  <2>5. \A f \in ItemDomain \ {"includeHostnames", "environments"} : m[f] = n[f]
    BY <2>1, <2>2, <2>3, <2>4, <1>9, ZenonT(40) DEF ItemDomain
  <2>6. /\ \A f \in ItemDomain \ {"includeHostnames", "environments"} : k[f] = n[f]
        /\ k.includeHostnames = HostnameList(n.includeHostnames)
        /\ k.environments = EnvironmentList(n.environments)
    BY <1>3 DEF ItemDomain
  <2>7. /\ m.includeHostnames = HostnameList(n.includeHostnames)
        /\ m.environments = EnvironmentList(n.environments)
    BY <1>10
  <2> HIDE DEF k
  <2> QED BY <2>5, <2>6, <2>7
<1> HIDE DEF k
<1>14. m = k
  BY <1>11, <1>12, <1>13
<1> QED BY <1>8, <1>14 DEF m, k

LEMMA ItemSettles ==
    ASSUME NEW i, Accepted(ValidateInjection(i)),
           \/ i.includeHostnames # "bracketed"
           \/ Accepted(ValidateInjection(ValidateInjection(i)))
    PROVE  LET m == ValidateInjection(ValidateInjection(i))
           IN Accepted(m) /\ ValidateInjection(m) = m
<1> DEFINE n == FieldsOf(i)
           m == FieldsOf(n)
<1>1. ValidateInjection(i) = n /\ Accepted(n) /\ Complete(n)
  BY ItemAccepted
<1>2. /\ m = [n EXCEPT !.includeHostnames = HostnameList(@), !.environments = EnvironmentList(@)]
      /\ i.includeHostnames # "bracketed" => HostnameList(n.includeHostnames) # Refused
      /\ EnvironmentList(n.environments) # Refused
  BY <1>1, ItemFieldsStay
<1>3. n.includeHostnames = HostnameList(i.includeHostnames) /\ n.environments = EnvironmentList(i.environments)
  BY DEF FieldsOf, UmamiFields, ItemFields
<1>4. DOMAIN n = ItemDomain /\ DOMAIN m = ItemDomain /\ m = [f \in ItemDomain |-> m[f]]
  BY FieldsAreOfItems
<1>5. \A x : ValidateInjection(x) = IF Complete(FieldsOf(x)) THEN FieldsOf(x)
                                    ELSE [FieldsOf(x) EXCEPT !.type = Refused]
  BY DEF ValidateInjection, FieldsOf
<1> HIDE DEF n
<1>7. Complete(m)
  <2>1. /\ m.type = n.type /\ m.url = n.url /\ m.content = n.content /\ m.options = n.options
        /\ m.websiteId = n.websiteId /\ m.analytics = n.analytics /\ m.recorder = n.recorder
        /\ m.analyticsUrl = n.analyticsUrl /\ m.recorderUrl = n.recorderUrl
    BY <1>2, <1>4 DEF ItemDomain
  <2> HIDE DEF m
  <2> QED BY <1>1, <2>1 DEF Complete
<1>8. ValidateInjection(n) = m
  BY <1>5, <1>7
<1>6. Accepted(m)
  <2> HIDE DEF m
  <2>1. CASE Accepted(ValidateInjection(ValidateInjection(i)))
    BY <1>1, <1>8, <2>1
  <2>2. CASE i.includeHostnames # "bracketed"
    BY <1>1, <1>2, <1>4, <2>2 DEF Accepted
  <2> QED BY <2>1, <2>2
<1> HIDE DEF m
<1>9. FieldsOf(m) = [m EXCEPT !.includeHostnames = HostnameList(@), !.environments = EnvironmentList(@)]
  BY <1>6, ItemFieldsStay DEF m
<1>10. HostnameList(m.includeHostnames) = m.includeHostnames /\ EnvironmentList(m.environments) = m.environments
  <2>1. n.includeHostnames # Refused /\ n.environments # Refused
    BY <1>1, <1>4 DEF Accepted, ItemDomain
  <2>2. m.includeHostnames = HostnameList(n.includeHostnames) /\ m.environments = EnvironmentList(n.environments)
    BY <1>2, <1>4 DEF ItemDomain
  <2>3. m.includeHostnames # Refused
    BY <1>4, <1>6 DEF Accepted, ItemDomain
  <2> QED BY <1>3, <2>1, <2>2, <2>3, HostnameListSettles, EnvironmentListSettles
<1>11. FieldsOf(m) = m
  BY <1>4, <1>9, <1>10
<1>12. ValidateInjection(m) = m
  BY <1>5, <1>7, <1>11
<1> QED BY <1>1, <1>6, <1>8, <1>12

\* A parsed snippet has what an item of its type needs.
LEMMA ParsedItem ==
    ASSUME NEW s, ParseUmamiSnippet(s) # NotParsed
    PROVE  LET i == UmamiItem(ParseUmamiSnippet(s))
           IN Accepted(i) /\ Accepted(ValidateInjection(i))
<1> DEFINE p == ParseUmamiSnippet(s)
           i == UmamiItem(p)
<1>1. PICK u \in {"", "url"}, v \in {"", "url"} :
        p = [websiteId |-> "text", analytics |-> Switched(u), recorder |-> Switched(v),
             analyticsUrl |-> u, recorderUrl |-> v]
  BY DEF ParseUmamiSnippet
<1> HIDE DEF p
<1>2. DOMAIN i = ItemDomain
  BY DEF UmamiItem, ItemDomain
<1>3. /\ i.type = "umami" /\ i.id = "absent" /\ i.unknown = "none" /\ i.name = "text"
      /\ i.enabled = "true" /\ i.location = "head-end" /\ i.priority = "number"
      /\ i.url = "absent" /\ i.content = "absent" /\ i.attributes = "absent"
      /\ i.nonceBehavior = "absent" /\ i.includeHostnames = "absent" /\ i.includePaths = "absent"
      /\ i.excludePaths = "absent" /\ i.environments = "absent" /\ i.duplicatePattern = "absent"
      /\ i.notes = "absent" /\ i.options = "given"
      /\ i.websiteId = "text"
  BY <1>1 DEF UmamiItem
<1>4. PICK a \in {"", "url"}, b \in {"", "url"} :
        /\ i.analytics = Switched(a) /\ i.analyticsUrl = a
        /\ i.recorder = Switched(b) /\ i.recorderUrl = b
  BY <1>1 DEF UmamiItem
<1> HIDE DEF i
<1>5. Accepted(i)
  BY <1>2, <1>3, <1>4 DEF Accepted, ItemDomain, Refused, Switched
<1> DEFINE n == FieldsOf(i)
<1>6. /\ n.type = "umami" /\ n.websiteId = "text"
      /\ n.analytics = Switched(a) /\ n.analyticsUrl = a
      /\ n.recorder = Switched(b) /\ n.recorderUrl = b
  <2>1. /\ n.type = Word(i.type, ItemTypes, Refused) /\ n.websiteId = OptionalText(i.websiteId)
        /\ n.analytics = NotFalse(i.analytics) /\ n.analyticsUrl = AnalyticsUrl(i)
        /\ n.recorder = OnlyTrue(i.recorder) /\ n.recorderUrl = Url(i.recorderUrl)
    BY <1>3 DEF FieldsOf, UmamiFields, ItemFields
  <2> QED BY <1>3, <1>4, <2>1, ZenonT(40)
          DEF Word, ItemTypes, OptionalText, NotFalse, OnlyTrue, AnalyticsUrl, Url, Switched
<1>7. /\ n.id = "id" /\ n.unknown = "none" /\ n.name = "text" /\ n.enabled = "true"
      /\ n.location = "head-end" /\ n.priority = "number" /\ n.url = "" /\ n.content = ""
      /\ n.attributes = "empty" /\ n.nonceBehavior = "none" /\ n.includeHostnames = "empty"
      /\ n.includePaths = "empty" /\ n.excludePaths = "empty" /\ n.environments = "empty"
      /\ n.duplicatePattern = "" /\ n.notes = "" /\ n.options = "given"
  <2>1. /\ n.id = Identifier(i.id) /\ n.unknown = Unknown(i.unknown) /\ n.name = RequiredText(i.name)
        /\ n.enabled = NotFalse(i.enabled)
        /\ n.location = Word(i.location, {"head-end", "body-end"}, Refused)
        /\ n.priority = BoundedInteger(i.priority, "number") /\ n.url = Url(i.url)
        /\ n.content = (IF i.content = "long" THEN Refused ELSE OptionalText(i.content))
        /\ n.attributes = (CASE i.attributes = "allowed" -> "allowed"
                             [] i.attributes = "bad" -> Refused [] OTHER -> "empty")
        /\ n.nonceBehavior = Word(i.nonceBehavior, {"copy-existing"}, "none")
        /\ n.includeHostnames = HostnameList(i.includeHostnames)
        /\ n.includePaths = StringList(i.includePaths)
        /\ n.excludePaths = StringList(i.excludePaths)
        /\ n.environments = EnvironmentList(i.environments)
        /\ n.duplicatePattern = OptionalText(i.duplicatePattern) /\ n.notes = OptionalText(i.notes)
        /\ n.options = (IF i.options = "bad" THEN Refused ELSE "given")
    BY <1>3, ZenonT(40) DEF FieldsOf, UmamiFields, ItemFields
  <2> QED BY <1>3, <2>1, ZenonT(40)
          DEF Identifier, Unknown, RequiredText, NotFalse, Word, BoundedInteger, Url, OptionalText,
              StringList, HostnameList, EnvironmentList
<1>8. DOMAIN n = ItemDomain
  BY FieldsAreOfItems
<1>9. ValidateInjection(i) = IF Complete(n) THEN n ELSE [n EXCEPT !.type = Refused]
  BY DEF ValidateInjection, FieldsOf
<1> HIDE DEF n
<1>10. Accepted(n)
  BY <1>6, <1>7, <1>8 DEF Accepted, ItemDomain, Refused, Switched
<1>11. Complete(n)
  BY <1>6, <1>7 DEF Complete, Switched
<1> QED BY <1>5, <1>9, <1>10, <1>11 DEF i, p

-----------------------------------------------------------------------------
(***************************************************************************)
(* Forms on their way through the actions.  Only a form is validated, and  *)
(* what is validated a third time is what two passes made of a form that   *)
(* the first one accepted.                                                 *)
(***************************************************************************)
FormKinds == {"route", "item", "profile", "parsed"}

Validated(k, x) ==
    IF k = "route" THEN ValidateRoute(x)
    ELSE IF k = "profile" THEN ValidateProfile(x) ELSE ValidateInjection(x)

\* What a form was when it came: it is what was submitted, unless it was parsed.
FormInv ==
    /\ round \in Nat
    /\ kind = "snippet" => round = 0
    /\ kind \in FormKinds =>
          /\ kind # "parsed" /\ round = 0 => output = input
          /\ round = 1 => \E x : output = Validated(kind, x) /\ (kind # "parsed" => x = input)
          /\ round = 2 => \E x : /\ output = Validated(kind, Validated(kind, x))
                                 /\ Accepted(Validated(kind, x))

LEMMA Settles ==
    ASSUME NEW k \in FormKinds, NEW x,
           Accepted(Validated(k, x)), Accepted(Validated(k, Validated(k, x)))
    PROVE  Validated(k, Validated(k, Validated(k, x))) = Validated(k, Validated(k, x))
<1>1. CASE k = "route"
  BY <1>1, RouteSettles DEF Validated
<1>2. CASE k = "profile"
  BY <1>2, ProfileSettles DEF Validated
<1>3. CASE k \in {"item", "parsed"}
  BY <1>3, ItemSettles DEF Validated
<1> QED BY <1>1, <1>2, <1>3 DEF FormKinds

\* The forms that the next validation may refuse
Exceptional(k, x) ==
    \/ k = "route" /\ RouteException(x)
    \/ k = "item" /\ x.includeHostnames = "bracketed"
    \/ k = "profile" /\ x.items = "bracketed"

LEMMA AcceptedAgain ==
    ASSUME NEW k \in FormKinds \ {"parsed"}, NEW x, Accepted(Validated(k, x))
    PROVE  Accepted(Validated(k, Validated(k, x))) \/ Exceptional(k, x)
<1>1. CASE k = "route"
  BY <1>1, RouteSettles DEF Validated, Exceptional
<1>2. CASE k = "profile"
  BY <1>2, ProfileSettles DEF Validated, Exceptional
<1>3. CASE k = "item"
  BY <1>3, ItemSettles DEF Validated, Exceptional
<1> QED BY <1>1, <1>2, <1>3 DEF FormKinds

\* The steps of a form
FormStep ==
    /\ kind \in FormKinds /\ round < 3 /\ Accepted(output)
    /\ output' = Validated(kind, output) /\ round' = round + 1
    /\ UNCHANGED <<kind, input>>

LEMMA StepOfForm ==
    ASSUME CheckRoute \/ CheckItem \/ CheckProfile
    PROVE  FormStep
<1>1. CASE CheckRoute
  BY <1>1 DEF CheckRoute, Check, FormStep, FormKinds, Validated
<1>2. CASE CheckItem
  BY <1>2 DEF CheckItem, Check, FormStep, FormKinds, Validated
<1>3. CASE CheckProfile
  BY <1>3 DEF CheckProfile, Check, FormStep, FormKinds, Validated
<1> QED BY <1>1, <1>2, <1>3

LEMMA InitForm == Init => FormInv
BY DEF Init, Starts, FormInv, FormKinds

LEMMA StepFormInv ==
    ASSUME FormInv, [Next]_vars
    PROVE  FormInv'
<1>1. CASE CheckRoute \/ CheckItem \/ CheckProfile
  <2>1. FormStep
    BY <1>1, StepOfForm
  <2>2. CASE round = 0
    BY <2>1, <2>2 DEF FormStep, FormInv, FormKinds
  <2>3. CASE round = 1
    <3>1. PICK x : output = Validated(kind, x)
      BY <2>1, <2>3 DEF FormInv, FormStep
    <3>2. output' = Validated(kind', Validated(kind', x)) /\ Accepted(Validated(kind', x)) /\ round' = 2
      BY <2>1, <2>3, <3>1 DEF FormStep
    <3> QED BY <2>1, <3>2 DEF FormInv, FormStep, FormKinds
  <2>4. CASE round > 1
    BY <2>1, <2>4 DEF FormStep, FormInv, FormKinds
  <2> QED BY <2>2, <2>3, <2>4 DEF FormInv
<1>2. CASE Pass
  BY <1>2 DEF Pass, FormInv, FormKinds
<1>3. CASE Parse
  <2>1. round = 0 /\ round' = 0 /\ kind' = "parsed"
    BY <1>3 DEF Parse, FormInv
  <2> QED BY <2>1 DEF FormInv
<1>4. CASE LookUp \/ Load
  BY <1>4 DEF LookUp, Load, FormInv, FormKinds
<1>5. CASE UNCHANGED vars
  BY <1>5 DEF vars, FormInv
<1> QED BY <1>1, <1>2, <1>3, <1>4, <1>5 DEF Next

LEMMA FormInvariant == Spec => []FormInv
BY InitForm, StepFormInv, PTL DEF Spec

\* Whatever the snippet, and however often its item is validated afterwards: an
\* item that the parser made is never refused.
THEOREM ParsedSnippetsAccepted == Spec => []ParsedAccepted
<1> DEFINE Stands == kind = "parsed" =>
              /\ Accepted(output) /\ Accepted(ValidateInjection(output))
              /\ output.includeHostnames \in {"absent", "empty"}
<1>1. Init => Stands
  BY DEF Init, Starts
<1>2. ASSUME Stands, [Next]_vars PROVE Stands'
  <2> SUFFICES ASSUME kind' = "parsed"
               PROVE  /\ Accepted(output') /\ Accepted(ValidateInjection(output'))
                      /\ output'.includeHostnames \in {"absent", "empty"}
    OBVIOUS
  <2>1. CASE Parse
    BY <2>1, ParsedItem DEF Parse, UmamiItem
  <2>2. CASE CheckRoute \/ CheckItem \/ CheckProfile
    <3>1. kind = "parsed" /\ output' = ValidateInjection(output)
      BY <2>2, StepOfForm DEF FormStep, Validated
    <3>2. output'.includeHostnames = HostnameList(output.includeHostnames)
      BY <1>2, <3>1, ItemAccepted, HostnamesOf
    <3>3. output'.includeHostnames = "empty"
      BY <1>2, <3>1, <3>2, Zenon DEF HostnameList, EnvironmentList, StringList
    <3> QED BY <1>2, <3>1, <3>3, ItemSettles
  <2>3. CASE UNCHANGED vars
    BY <1>2, <2>3 DEF vars
  <2>4. ~Pass /\ ~LookUp /\ ~Load
    BY DEF Pass, LookUp, Load
  <2> QED BY <1>2, <2>1, <2>2, <2>3, <2>4 DEF Next
<1>3. Stands => ParsedAccepted
  BY DEF ParsedAccepted
<1> QED BY <1>1, <1>2, <1>3, PTL DEF Spec

\* Whatever was submitted, in any combination of fields: what was saved is not
\* refused when it is validated again before it is activated, but for a server
\* name that became an address and for a bracketed IPv6 address among the host
\* names of an item.
THEOREM DraftsRevalidate == Spec => DraftRevalidates
<1> DEFINE Revalidates == round = 1 /\ kind \in {"route", "item", "profile", "parsed"}
                          => Accepted(output') \/ AddressServerName \/ BracketedHostname
<1>1. ASSUME FormInv, ParsedAccepted', [Next]_vars, ~UNCHANGED vars
      PROVE  Revalidates
  <2> SUFFICES ASSUME round = 1, kind \in FormKinds
               PROVE  Accepted(output') \/ AddressServerName \/ BracketedHostname
    BY DEF FormKinds
  <2>1. FormStep
    BY <1>1, StepOfForm DEF Next, Pass, Parse, LookUp, Load, FormKinds
  <2>2. CASE kind = "parsed"
    BY <1>1, <2>1, <2>2 DEF ParsedAccepted, FormStep
  <2>3. CASE kind # "parsed"
    <3>1. output = Validated(kind, input)
      BY <1>1, <2>3 DEF FormInv
    <3>2. output' = Validated(kind, Validated(kind, input)) /\ Accepted(Validated(kind, input))
      BY <2>1, <3>1 DEF FormStep
    <3>3. Accepted(output') \/ Exceptional(kind, input)
      BY <2>3, <3>2, AcceptedAgain
    <3> QED BY <3>3 DEF Exceptional, RouteException, AddressServerName, BracketedHostname
  <2> QED BY <2>2, <2>3
<1>2. FormInv /\ ParsedAccepted' /\ [Next]_vars => [Revalidates]_vars
  BY <1>1
<1> QED BY <1>2, FormInvariant, ParsedSnippetsAccepted, PTL DEF Spec, DraftRevalidates

\* What was activated is what every later validation makes of it again: a form
\* does not change from its second validation on.
THEOREM ActiveFormsUnchanged == Spec => ActiveUnchanged
<1>1. ASSUME FormInv, [Next]_vars, ~UNCHANGED vars
      PROVE  round = 2 => output' = output
  <2> SUFFICES ASSUME round = 2 PROVE output' = output
    OBVIOUS
  <2>1. CASE CheckRoute \/ CheckItem \/ CheckProfile
    <3>1. FormStep
      BY <2>1, StepOfForm
    <3>2. PICK x : output = Validated(kind, Validated(kind, x)) /\ Accepted(Validated(kind, x))
      BY <1>1, <3>1 DEF FormInv, FormStep
    <3>3. /\ output' = Validated(kind, Validated(kind, Validated(kind, x)))
          /\ Accepted(Validated(kind, Validated(kind, x))) /\ kind \in FormKinds
      BY <3>1, <3>2 DEF FormStep
    <3> QED BY <3>2, <3>3, Settles
  <2>2. ~Pass /\ ~Parse /\ ~LookUp /\ ~Load
    BY <1>1 DEF Pass, Parse, LookUp, Load, FormInv
  <2> QED BY <1>1, <2>1, <2>2 DEF Next
<1>2. ASSUME FormInv, [Next]_vars PROVE [round = 2 => output' = output]_vars
  BY <1>1, <1>2
<1> QED BY <1>2, FormInvariant, PTL DEF Spec, ActiveUnchanged

-----------------------------------------------------------------------------
(***************************************************************************)
(* Networks, for addresses of any width.  The theorems on induction in the  *)
(* library speak of operators; here it is an induction on sets of numbers.  *)
(***************************************************************************)

\* Induction on a set of numbers
LEMMA Induct ==
    ASSUME NEW P \in SUBSET Nat, 0 \in P, \A n \in P : n + 1 \in P
    PROVE  P = Nat
<1> SUFFICES ASSUME P # Nat PROVE FALSE
  OBVIOUS
<1>1. Nat \ P \subseteq Nat /\ Nat \ P # {}
  OBVIOUS
<1>2. PICK x \in Nat \ P : \A y \in Nat \ P : ~ (<<y, x>> \in OpToRel(<, Nat))
  BY <1>1, NatLessThanWellFounded, WFMin
<1>3. x - 1 \in P /\ x = (x - 1) + 1
  <2>1. x # 0 /\ x \in Nat
    OBVIOUS
  <2>2. x - 1 \in Nat /\ x - 1 < x
    BY <2>1
  <2>3. <<x - 1, x>> \in OpToRel(<, Nat)
    BY <2>1, <2>2 DEF OpToRel
  <2>4. x - 1 \notin Nat \ P
    BY <1>2, <2>3, Zenon
  <2> QED BY <2>1, <2>2, <2>4
<1> QED BY <1>3

\* There is a function of powers.
LEMMA PowerExists ==
    \E f : f = [n \in Nat |-> IF n = 0 THEN 1 ELSE 2 * f[n - 1]]
<1> DEFINE Upto(g, n) == g \in [0..n -> Nat] /\ g[0] = 1 /\ \A i \in 1..n : g[i] = 2 * g[i - 1]
           P == {n \in Nat : \E g : Upto(g, n)}
<1>1. 0 \in P
  <2>1. Upto([i \in 0..0 |-> 1], 0)
    OBVIOUS
  <2> QED BY <2>1
<1>2. ASSUME NEW n \in P
      PROVE  n + 1 \in P
  <2>1. PICK g : Upto(g, n)
    OBVIOUS
  <2> DEFINE h == [i \in 0..(n + 1) |-> IF i = n + 1 THEN 2 * g[n] ELSE g[i]]
  <2>2. n \in Nat /\ n + 1 \in Nat
    OBVIOUS
  <2>3. h \in [0..(n + 1) -> Nat] /\ h[0] = 1
    BY <2>1, <2>2
  <2>4. ASSUME NEW i \in 1..(n + 1)
        PROVE  h[i] = 2 * h[i - 1]
    <3>1. CASE i = n + 1
      BY <2>1, <2>2, <3>1
    <3>2. CASE i # n + 1
      <4>1. i \in 1..n /\ i - 1 # n + 1 /\ i - 1 \in 0..(n + 1) /\ i \in 0..(n + 1)
        BY <2>2, <3>2
      <4>2. h[i] = g[i] /\ h[i - 1] = g[i - 1]
        BY <3>2, <4>1
      <4> QED BY <2>1, <4>1, <4>2
    <3> QED BY <3>1, <3>2
  <2>5. Upto(h, n + 1)
    BY <2>3, <2>4
  <2> HIDE DEF Upto, h
  <2> QED BY <2>2, <2>5
<1>3. P = Nat
  <2> HIDE DEF P
  <2>1. P \in SUBSET Nat
    BY DEF P
  <2> QED BY <1>1, <1>2, <2>1, Induct
<1>4. \A m, n \in Nat : \A g, h : Upto(g, n) /\ Upto(h, m) /\ n <= m => g[n] = h[n]
  <2> SUFFICES ASSUME NEW m \in Nat, NEW n \in Nat, NEW g, NEW h, Upto(g, n), Upto(h, m), n <= m
               PROVE  g[n] = h[n]
    <3> HIDE DEF Upto
    <3> QED OBVIOUS
  <2> DEFINE Q == {i \in Nat : i <= n => g[i] = h[i]}
  <2>1. 0 \in Q
    OBVIOUS
  <2>2. ASSUME NEW i \in Q PROVE i + 1 \in Q
    <3>1. CASE i + 1 <= n
      <4>1. i + 1 \in 1..n /\ i + 1 \in 1..m /\ (i + 1) - 1 = i /\ g[i] = h[i]
        BY <3>1
      <4>2. g[i + 1] = 2 * g[i] /\ h[i + 1] = 2 * h[i]
        BY <4>1
      <4> QED BY <4>1, <4>2
    <3>2. CASE ~(i + 1 <= n)
      BY <3>2
    <3> QED BY <3>1, <3>2
  <2>3. Q = Nat
    <3> HIDE DEF Q
    <3>1. Q \in SUBSET Nat
      BY DEF Q
    <3> QED BY <2>1, <2>2, <3>1, Induct
  <2>4. n \in Q
    BY <2>3
  <2> QED BY <2>4
<1> DEFINE G(n) == CHOOSE g : Upto(g, n)
           f == [n \in Nat |-> G(n)[n]]
<1>5. \A n \in Nat : Upto(G(n), n)
  <2>1. \A n \in Nat : \E g : Upto(g, n)
    BY <1>3
  <2> HIDE DEF Upto
  <2> QED BY <2>1
<1>6. ASSUME NEW n \in Nat
      PROVE  f[n] = IF n = 0 THEN 1 ELSE 2 * f[n - 1]
  <2>1. CASE n = 0
    BY <1>5, <2>1
  <2>2. CASE n # 0
    <3>1. n - 1 \in Nat /\ n \in 1..n /\ n - 1 <= n
      BY <2>2
    <3>2. Upto(G(n), n) /\ Upto(G(n - 1), n - 1)
      BY <1>5, <3>1
    <3> HIDE DEF G
    <3>3. G(n)[n] = 2 * G(n)[n - 1]
      BY <3>1, <3>2
    <3>4. G(n - 1)[n - 1] = G(n)[n - 1]
      <4> HIDE DEF Upto
      <4> QED BY <1>4, <3>1, <3>2
    <3>5. f[n] = G(n)[n] /\ f[n - 1] = G(n - 1)[n - 1]
      BY <3>1
    <3> HIDE DEF f
    <3> QED BY <2>2, <3>3, <3>4, <3>5
  <2> QED BY <2>1, <2>2
<1>7. f = [n \in Nat |-> IF n = 0 THEN 1 ELSE 2 * f[n - 1]]
  <2> HIDE DEF G
  <2>1. f = [n \in Nat |-> f[n]]
    OBVIOUS
  <2> HIDE DEF f
  <2> QED BY <1>6, <2>1
<1> QED BY <1>7

LEMMA PowerIs ==
    /\ Power[0] = 1
    /\ \A n \in Nat : Power[n + 1] = 2 * Power[n]
<1>1. Power = [n \in Nat |-> IF n = 0 THEN 1 ELSE 2 * Power[n - 1]]
  BY PowerExists, Zenon DEF Power
<1> QED BY <1>1

LEMMA PowerPositive == \A n \in Nat : Power[n] \in Nat /\ Power[n] > 0
<1> DEFINE P == {n \in Nat : Power[n] \in Nat /\ Power[n] > 0}
<1>1. 0 \in P
  BY PowerIs
<1>2. \A n \in P : n + 1 \in P
  BY PowerIs
<1>3. P = Nat
  <2> HIDE DEF P
  <2>1. P \in SUBSET Nat
    BY DEF P
  <2> QED BY <1>1, <1>2, <2>1, Induct
<1> QED BY <1>3

\* Division by twice as much is division by two after division.
LEMMA Halves ==
    ASSUME NEW v \in Nat, NEW p \in Nat, p > 0
    PROVE  /\ v \div p \in Nat
           /\ v \div (2 * p) = (v \div p) \div 2
<1> DEFINE q == v \div p
           r == v % p
           h == q \div 2
           b == q % 2
<1>1. q \in Nat /\ r \in Nat /\ r < p /\ v = q * p + r
  OBVIOUS
<1> HIDE DEF q, r
<1>2. h \in Nat /\ b \in 0..1 /\ q = 2 * h + b
  BY <1>1
<1> HIDE DEF h, b
<1>3. v = h * (2 * p) + (b * p + r)
  BY <1>1, <1>2
<1>4. b * p + r \in Nat /\ b * p + r < 2 * p
  BY <1>1, <1>2
<1>5. v \div (2 * p) = h
  BY <1>1, <1>2, <1>3, <1>4
<1> QED BY <1>1, <1>5 DEF q, h
\* A number shifted by one more place
LEMMA ShiftOnce ==
    ASSUME NEW v \in Nat, NEW k \in Nat
    PROVE  /\ v \div Power[k] \in Nat /\ Bit(v, k) \in 0..1
           /\ v \div Power[k] = 2 * (v \div Power[k + 1]) + Bit(v, k)
<1> DEFINE q == v \div Power[k]
<1>1. Power[k] \in Nat /\ Power[k] > 0 /\ Power[k + 1] = 2 * Power[k]
  BY PowerIs, PowerPositive
<1>2. q \in Nat /\ v \div Power[k + 1] = q \div 2
  BY <1>1, Halves
<1>3. Bit(v, k) = q % 2
  BY DEF Bit
<1> HIDE DEF q
<1>4. q = 2 * (q \div 2) + (q % 2) /\ (q % 2) \in 0..1
  BY <1>2
<1> QED BY <1>2, <1>3, <1>4 DEF q

\* The same but for the last k bits
Agree(v, w, k) == v \div Power[k] = w \div Power[k]

LEMMA AgreeOnce ==
    ASSUME NEW v \in Nat, NEW w \in Nat, NEW k \in Nat
    PROVE  Agree(v, w, k) <=> Agree(v, w, k + 1) /\ Bit(v, k) = Bit(w, k)
<1> DEFINE a == v \div Power[k]
           b == w \div Power[k]
           c == v \div Power[k + 1]
           d == w \div Power[k + 1]
<1>0. k + 1 \in Nat
  OBVIOUS
<1>1. /\ a = 2 * c + Bit(v, k) /\ b = 2 * d + Bit(w, k)
      /\ c \in Nat /\ d \in Nat /\ Bit(v, k) \in 0..1 /\ Bit(w, k) \in 0..1
  BY <1>0, ShiftOnce
<1> HIDE DEF a, b, c, d
<1>2. a = b <=> c = d /\ Bit(v, k) = Bit(w, k)
  BY <1>1
<1> QED BY <1>2 DEF a, b, c, d, Agree

\* What agrees but for some bits agrees but for more bits.
LEMMA AgreeLater ==
    ASSUME NEW v \in Nat, NEW w \in Nat, NEW s \in Nat, NEW t \in Nat, s <= t, Agree(v, w, s)
    PROVE  Agree(v, w, t)
<1> DEFINE P == {n \in Nat : Agree(v, w, s + n)}
<1>1. 0 \in P
  OBVIOUS
<1>2. ASSUME NEW n \in P
      PROVE  n + 1 \in P
  <2>1. s + n \in Nat /\ Agree(v, w, s + n) /\ s + (n + 1) = (s + n) + 1
    OBVIOUS
  <2>2. Agree(v, w, (s + n) + 1)
    BY <2>1, AgreeOnce
  <2> QED BY <2>1, <2>2
<1>3. P \in SUBSET Nat
  OBVIOUS
<1> HIDE DEF P
<1>4. P = Nat
  BY <1>1, <1>2, <1>3, Induct
<1>5. t - s \in P /\ s + (t - s) = t
  BY <1>4
<1> QED BY <1>5 DEF P

\* That is, bit by bit.
LEMMA AgreeBits ==
    ASSUME NEW v \in 0..(Power[Width] - 1), NEW w \in 0..(Power[Width] - 1), NEW s \in 0..Width
    PROVE  Agree(v, w, s) <=> \A k \in s..(Width - 1) : Bit(v, k) = Bit(w, k)
<1>0. Width \in Nat /\ Power[Width] \in Nat /\ Power[Width] > 0
  BY WidthAssumption, PowerPositive
<1>1. v \in Nat /\ w \in Nat
  BY <1>0
<1> DEFINE Same(k) == \A i \in k..(Width - 1) : Bit(v, i) = Bit(w, i)
           P == {n \in Nat : n <= Width => (Agree(v, w, Width - n) <=> Same(Width - n))}
<1>2. 0 \in P
  <2>1. v \div Power[Width] = 0 /\ w \div Power[Width] = 0
    BY <1>0
  <2>2. Agree(v, w, Width)
    BY <2>1 DEF Agree
  <2>3. Same(Width) /\ Width - 0 = Width
    BY <1>0
  <2> HIDE DEF Same
  <2> QED BY <2>2, <2>3
<1>3. ASSUME NEW n \in P
      PROVE  n + 1 \in P
  <2>1. CASE n + 1 <= Width
    <3>1. n \in Nat /\ Width - (n + 1) \in Nat /\ (Width - (n + 1)) + 1 = Width - n
      BY <1>0, <2>1
    <3> DEFINE k == Width - (n + 1)
    <3>2. Agree(v, w, k) <=> Agree(v, w, Width - n) /\ Bit(v, k) = Bit(w, k)
      BY <1>1, <3>1, AgreeOnce
    <3>3. Agree(v, w, Width - n) <=> Same(Width - n)
      BY <1>0, <2>1, <3>1
    <3>4. k..(Width - 1) = {k} \cup ((Width - n)..(Width - 1))
      BY <1>0, <3>1
    <3> HIDE DEF k
    <3>5. Same(k) <=> Same(Width - n) /\ Bit(v, k) = Bit(w, k)
      BY <3>4
    <3> HIDE DEF Same
    <3> QED BY <3>1, <3>2, <3>3, <3>5 DEF k
  <2>2. CASE ~(n + 1 <= Width)
    BY <2>2
  <2> QED BY <2>1, <2>2
<1>4. P \in SUBSET Nat
  OBVIOUS
<1> HIDE DEF P
<1>5. P = Nat
  BY <1>2, <1>3, <1>4, Induct
<1>6. Width - s \in P /\ Width - s <= Width /\ Width - (Width - s) = s
  BY <1>0, <1>5
<1>7. Agree(v, w, s) <=> Same(s)
  <2> HIDE DEF Same
  <2> QED BY <1>6 DEF P
<1> QED BY <1>7

\* Clearing the last bits
LEMMA MaskedIs ==
    ASSUME NEW v \in Nat, NEW w \in Nat, NEW s \in Nat
    PROVE  /\ Masked(v, s) \in Nat
           /\ Agree(Masked(v, s), v, s)
           /\ Masked(v, s) = Masked(w, s) <=> Agree(v, w, s)
<1> DEFINE p == Power[s]
           x == v \div p
           y == w \div p
<1>1. p \in Nat /\ p > 0
  BY PowerPositive
<1>2. x \in Nat /\ y \in Nat
  BY <1>1, Halves
<1>3. Masked(v, s) = x * p /\ Masked(w, s) = y * p
  BY DEF Masked
<1> HIDE DEF p, x, y
<1>4. x * p \in Nat /\ (x * p) \div p = x
  BY <1>1, <1>2
<1>5. x * p = y * p <=> x = y
  BY <1>1, <1>2
<1> QED BY <1>3, <1>4, <1>5 DEF p, x, y, Agree

\* Being in a network, in the program and in the reference
LEMMA MembersAgree ==
    ASSUME NEW a \in Addresses, NEW n \in Addresses, NEW prefix \in 0..Width
    PROVE  /\ a \in Members(n, prefix) <=> a.family = n.family /\ Agree(a.value, n.value, Shift(prefix))
           /\ AddressInCidr(a, ParseCidr(n, prefix)) <=> a \in Members(n, prefix)
<1>1. /\ Width \in Nat /\ Shift(prefix) \in 0..Width /\ Shift(prefix) = Width - prefix
      /\ Shift(prefix) \in Nat
  BY WidthAssumption DEF Shift
<1>2. /\ a.value \in 0..(Power[Width] - 1) /\ n.value \in 0..(Power[Width] - 1)
      /\ a.value \in Nat /\ n.value \in Nat
  BY <1>1, PowerPositive DEF Addresses
<1>3. Agree(a.value, n.value, Shift(prefix))
        <=> \A k \in Shift(prefix)..(Width - 1) : Bit(a.value, k) = Bit(n.value, k)
  BY <1>1, <1>2, AgreeBits
<1>4. a \in Members(n, prefix) <=> a.family = n.family /\ Agree(a.value, n.value, Shift(prefix))
  BY <1>1, <1>3 DEF Members
<1>5. AddressInCidr(a, ParseCidr(n, prefix)) <=>
        n.family = a.family /\ Masked(a.value, Shift(prefix)) = Masked(n.value, Shift(prefix))
  BY DEF AddressInCidr, ParseCidr
<1>6. Masked(a.value, Shift(prefix)) = Masked(n.value, Shift(prefix))
        <=> Agree(a.value, n.value, Shift(prefix))
  BY <1>1, <1>2, MaskedIs
<1> QED BY <1>4, <1>5, <1>6

\* What the program takes for contained is contained.
LEMMA WithinMembers ==
    ASSUME NEW c \in Addresses, NEW i \in 0..Width, NEW p \in Addresses, NEW j \in 0..Width,
           CidrWithin(ParseCidr(c, i), ParseCidr(p, j))
    PROVE  Members(c, i) \subseteq Members(p, j)
<1>1. Width \in Nat /\ Shift(i) \in Nat /\ Shift(j) \in Nat
  BY WidthAssumption DEF Shift
<1>2. /\ c.family = p.family /\ i >= j
      /\ Masked(Masked(c.value, Shift(i)), Shift(j)) = Masked(p.value, Shift(j))
  BY DEF CidrWithin, ParseCidr
<1>3. Shift(i) <= Shift(j)
  BY <1>1, <1>2 DEF Shift
<1>4. c.value \in Nat /\ p.value \in Nat
  BY <1>1, PowerPositive DEF Addresses
<1> DEFINE m == Masked(c.value, Shift(i))
<1>5. m \in Nat /\ Agree(m, c.value, Shift(i))
  BY <1>1, <1>4, MaskedIs
<1>6. Agree(m, p.value, Shift(j))
  BY <1>1, <1>2, <1>4, <1>5, MaskedIs
<1> HIDE DEF m
<1>7. Agree(m, c.value, Shift(j))
  BY <1>1, <1>3, <1>4, <1>5, AgreeLater
<1>8. ASSUME NEW a \in Members(c, i)
      PROVE  a \in Members(p, j)
  <2>1. a \in Addresses
    BY DEF Members
  <2>2. a.family = c.family /\ Agree(a.value, c.value, Shift(i)) /\ a.value \in Nat
    BY <1>1, <2>1, MembersAgree, PowerPositive DEF Addresses
  <2>3. Agree(a.value, c.value, Shift(j))
    BY <1>1, <1>3, <1>4, <2>2, AgreeLater
  <2>4. Agree(a.value, p.value, Shift(j))
    BY <1>6, <1>7, <2>3 DEF Agree
  <2> QED BY <1>2, <2>1, <2>2, <2>4, MembersAgree
<1> QED BY <1>8

\* An answer with its ::ffff: taken off is one of the addresses.
LEMMA ReachedIs ==
    ASSUME NEW a \in Answers, NEW n \in Addresses, NEW prefix \in 0..Width
    PROVE  AssertAddress(a, {ParseCidr(n, prefix)}) <=> a \in Reached(n, prefix)
<1>1. Unmapped(a) \in Addresses
  BY DEF Answers, Addresses, Families, Mapped, Unmapped
<1>2. AssertAddress(a, {ParseCidr(n, prefix)}) <=> Unmapped(a) \in Members(n, prefix)
  BY <1>1, MembersAgree DEF AssertAddress, AddressInCidrs
<1>3. Unmapped(a) \in Members(n, prefix) <=> a \in Reached(n, prefix)
  <2>1. CASE a.family = Mapped
    <3>1. a \notin Members(n, prefix)
      BY <2>1 DEF Members, Addresses, Families, Mapped
    <3> QED BY <2>1, <3>1 DEF Unmapped, Reached
  <2>2. CASE a.family # Mapped
    BY <2>2 DEF Unmapped, Reached
  <2> QED BY <2>1, <2>2
<1> QED BY <1>2, <1>3

\* What a look-up and a configuration in progress have established
NetworkInv ==
    /\ kind = "lookup" =>
         /\ input \in LookupCases
         /\ output # {} =>
               output \cup Range(input.answers) \subseteq Reached(input.address, input.prefix)
    /\ kind = "config" =>
         /\ input \in Configs /\ round \in {0, 1}
         /\ round = 1 => AdminAccepted(input) /\ output = Admitted(input)

LEMMA NetworkInit == Init => NetworkInv
BY DEF Init, Starts, NetworkInv

LEMMA LookUpKeeps ==
    ASSUME NetworkInv, LookUp
    PROVE  NetworkInv'
<1>1. /\ kind = "lookup" /\ output' = {input.answers[1]} /\ UNCHANGED <<kind, input>>
      /\ LookupAllowed(input.answers, {ParseCidr(input.address, input.prefix)})
  BY DEF LookUp
<1>2. input \in LookupCases
  BY <1>1 DEF NetworkInv
<1>3. /\ input.answers \in Seq(Answers) /\ input.address \in Addresses
      /\ input.prefix \in 0..Width
  BY <1>2, LookupsAssumption
<1>4. input.answers # <<>> /\ \A k \in DOMAIN input.answers :
        AssertAddress(input.answers[k], {ParseCidr(input.address, input.prefix)})
  BY <1>1 DEF LookupAllowed
<1>5. 1 \in DOMAIN input.answers /\ \A k \in DOMAIN input.answers : input.answers[k] \in Answers
  BY <1>3, <1>4
<1>6. \A k \in DOMAIN input.answers : input.answers[k] \in Reached(input.address, input.prefix)
  BY <1>3, <1>4, <1>5, ReachedIs
<1>7. {input.answers[1]} \cup Range(input.answers) \subseteq Reached(input.address, input.prefix)
  BY <1>5, <1>6 DEF Range
<1> QED BY <1>1, <1>2, <1>7 DEF NetworkInv

LEMMA NetworkNext == NetworkInv /\ [Next]_vars => NetworkInv'
<1> SUFFICES ASSUME NetworkInv, [Next]_vars PROVE NetworkInv'
  OBVIOUS
<1>1. CASE LookUp
  BY <1>1, LookUpKeeps
<1>2. CASE Load
  BY <1>2 DEF Load, NetworkInv
<1>3. CASE Pass \/ CheckRoute \/ CheckItem \/ CheckProfile \/ Parse
  <2>1. kind' \notin {"lookup", "config"}
    BY <1>3 DEF Pass, CheckRoute, CheckItem, CheckProfile, Check, Parse
  <2> QED BY <2>1 DEF NetworkInv
<1>4. CASE UNCHANGED vars
  BY <1>4 DEF vars, NetworkInv
<1> QED BY <1>1, <1>2, <1>3, <1>4 DEF Next

\* An answer is allowed if and only if it leads to an address that agrees with
\* the network in its family and bit by bit, an IPv4 one in its ::ffff: form
\* included; a name is connected to at such an answer only, and only if all its
\* answers are of that kind.
THEOREM LookupsStayInside == Spec => []AllowedExactly
<1>1. ASSUME NetworkInv
      PROVE  AllowedExactly
  <2> SUFFICES ASSUME kind = "lookup"
               PROVE  LET reached == Reached(input.address, input.prefix)
                          allowed == {ParseCidr(input.address, input.prefix)}
                      IN /\ \A a \in Range(input.answers) : AssertAddress(a, allowed) <=> a \in reached
                         /\ output # {} => output \cup Range(input.answers) \subseteq reached
    BY DEF AllowedExactly
  <2>1. input \in LookupCases
    BY <1>1 DEF NetworkInv
  <2>2. /\ input.answers \in Seq(Answers) /\ input.address \in Addresses
        /\ input.prefix \in 0..Width
    BY <2>1, LookupsAssumption
  <2>3. \A a \in Range(input.answers) : a \in Answers
    BY <2>2 DEF Range
  <2> QED BY <1>1, <2>2, <2>3, ReachedIs DEF NetworkInv
<1> QED BY <1>1, NetworkInit, NetworkNext, PTL DEF Spec

\* Under an accepted configuration the administration answers private addresses
\* only, its own host among them, and it speaks TLS to all but loopback.
THEOREM AdministrationPrivate == Spec => []AdminStaysPrivate
<1>1. ASSUME NetworkInv
      PROVE  AdminStaysPrivate
  <2> SUFFICES ASSUME kind = "config", round = 1
               PROVE  /\ input.listen \in output
                      /\ output \subseteq UNION {Members(n.address, n.prefix) : n \in Loopback \cup Private}
                      /\ input.tls \/ \E n \in Loopback : input.listen \in Members(n.address, n.prefix)
    BY DEF AdminStaysPrivate
  <2>1. AdminAccepted(input) /\ output = Admitted(input) /\ input \in Configs
    BY <1>1 DEF NetworkInv
  <2>2. input.listen \in Addresses /\ input.allowed \subseteq Networks
    BY <2>1, ConfigsAssumption
  <2>3. input.listen \in output
    BY <2>1, <2>2 DEF AdminAccepted, Admitted
  <2>4. ASSUME NEW a \in output
        PROVE  \E n \in Loopback \cup Private : a \in Members(n.address, n.prefix)
    <3>1. a \in Addresses /\ AddressInCidrs(a, Parsed(input.allowed))
      BY <2>1 DEF Admitted
    <3>2. PICK c \in input.allowed : AddressInCidr(a, ParseCidr(c.address, c.prefix))
      BY <3>1 DEF AddressInCidrs, Parsed
    <3>3. ParseCidr(c.address, c.prefix) \in Parsed(input.allowed)
      BY DEF Parsed
    <3>4. \E parent \in Parsed(Loopback \cup Private) : CidrWithin(ParseCidr(c.address, c.prefix), parent)
      BY <2>1, <3>3 DEF AdminAccepted
    <3>5. PICK n \in Loopback \cup Private :
            CidrWithin(ParseCidr(c.address, c.prefix), ParseCidr(n.address, n.prefix))
      BY <3>4 DEF Parsed
    <3>6. c.address \in Addresses /\ c.prefix \in 0..Width
      BY <2>2 DEF Networks
    <3>7. n.address \in Addresses /\ n.prefix \in 0..Width
      BY NetworksAssumption DEF Networks, NetworksAssumption
    <3>8. a \in Members(c.address, c.prefix)
      BY <3>1, <3>2, <3>6, MembersAgree
    <3> QED BY <3>5, <3>6, <3>7, <3>8, WithinMembers
  <2>5. input.tls \/ \E n \in Loopback : input.listen \in Members(n.address, n.prefix)
    <3> SUFFICES ASSUME ~input.tls
                 PROVE  \E n \in Loopback : input.listen \in Members(n.address, n.prefix)
      OBVIOUS
    <3>1. IsLoopback(input.listen)
      BY <2>1 DEF AdminAccepted
    <3>2. PICK n \in Loopback : AddressInCidr(input.listen, ParseCidr(n.address, n.prefix))
      BY <3>1 DEF IsLoopback, AddressInCidrs, Parsed
    <3>3. n.address \in Addresses /\ n.prefix \in 0..Width
      BY NetworksAssumption DEF Networks, NetworksAssumption
    <3> QED BY <2>2, <3>2, <3>3, MembersAgree
  <2> QED BY <2>3, <2>4, <2>5
<1> QED BY <1>1, NetworkInit, NetworkNext, PTL DEF Spec
=============================================================================
