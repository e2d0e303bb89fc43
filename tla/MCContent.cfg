CONSTANTS
    PageCases <- MCPageCases
    RouteForms <- MCRouteForms
    ItemForms <- MCItemForms
    ProfileForms <- MCProfileForms
    Snippets <- MCSnippets
    LookupCases <- MCLookupCases
    Configs <- MCConfigs
    Loopback <- MCLoopback
    Private <- MCPrivate
    Escapes <- MCEscapes
    Width = 3

SPECIFICATION Spec

CHECK_DEADLOCK FALSE

INVARIANTS
    InjectedExactly
    InOrder
    ScriptOnce
    PreviewAgrees
    ParsedAccepted
    AllowedExactly
    AdminStaysPrivate

PROPERTIES
    InjectedOnce
    DraftRevalidates
    ActiveUnchanged
