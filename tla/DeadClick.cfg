SPECIFICATION Spec
CONSTANTS
    None = None
    StripLength = 2
    RoutePoints = 2
    GhostMarkers = 1
    DiscoveryPulses = 1
    MovementEffects = 2
    Labels = 1
    Worlds <- WithInteraction
    Feeds <- FeedsValue
    Decisions <- DecisionsValue
    Tiles <- TilesValue
    PanelRuns = {r1, r2}
    Subjects = {e1, e2}
    PanelTiles = {t1}
    PanelSlots = {1, 2}
    Nothing = Nothing
    DialogRuns = {d1, d2}
    Responses <- ResponsesValue
    Calls = {1, 2, 3}
    Absent = Absent
PROPERTY
    ClickSelects
