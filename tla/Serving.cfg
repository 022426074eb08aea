\* A host with two frontends of which the table keeps one, one ordinary place
\* and one connection attempt at a time; a service with short queues; a pipe with
\* two places and a queue of two, and an HTTP server with two ordinary
\* connections.
SPECIFICATION Spec
CONSTANTS
    FrontendIds = {1, 2}
    Scripts <- ClientScripts
    FrontendCap = 1
    OrdinaryJobs = 1
    AskCap = 1
    OrdinaryBytes = 1
    MaxAttempts = 2
    Callers = {"a"}
    Anonymous = "anonymous"
    MaxReqs = 3
    Kinds = {"capture", "apply", "restore", "snapshot", "read", "replay", "media", "handoff", "start", "takestop", "clip", "stage", "tracked", "prepare", "recover", "manualstop", "safetystop", "generic"}
    Menus <- RequestMenus
    ChannelCap = 2
    GenericCap = 1
    SafetyCap = 1
    ReadCap = 1
    MediaCap = 1
    TakeCap = 1
    MaxFailures = 1
    EventMenu = {"renamed", "oversized"}
    MaxEvents = 3
    MaxListeners = 2
    QueueItems = 2
    ListenIds = {1}
    Filters = {{"tools", "list", "items"}}
    Uris = {"items"}
    Groups = {"general", "record"}
    Switches = {{"general", "record"}}
    FirstGroups = {"general"}
    OutItems = 2
    MaxTurns = 3
    Clients = {1, 2, 3}
    WebMixes <- ClientMixes
    WebMenu = {"renamed"}
    WebEvents = 2
    OrdinaryConns = 2
    EmergencyConns = 1
    BodyCap = 1
    WebPackets = 3
    StreamItems = 2
INVARIANTS
    ServingTypeOK
    ConsentIsSpentOnce
    WritersDoNotOverlap
    PipeIsExact
    WebIsExact
PROPERTIES
    RepliesAreExact
    StopRefusedOnlyByStop
    ServingCompletes
CHECK_DEADLOCK FALSE
