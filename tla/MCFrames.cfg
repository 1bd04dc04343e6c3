CONSTANTS
    Source <- Picture
    Targets <- Outputs
    Zoom = 150
    Slots = 4
    Phases = 2
    Surfaces <- Monitors
    Texts <- Wordings
    Glyphs = {700, 2000}
    Ellipsis = 1000
    GlyphTop = 20
    GlyphBottom = 120
    SpaceXs = 400
    SpaceSm = 800
    SpaceMd = 1600
    SpaceLg = 2400
    SpaceXl = 3200
    FontBase = 1400
    FontSecondary = 1200
    UnlockFrames = {0, 1, 4, 5, 9, 13}
    MaxTyped = 6

SPECIFICATION SmallSpec

INVARIANTS
    CopyInside
    CacheIsRecent
    ChromeHolds
