\* Two saves by page, zone editor or outside; the camera, and the same camera turned.
CONSTANTS
    Options = {"mask_image_data", "mask_signature", "detection", "camera"}
    Live = {"mask_image_data", "detection"}
    PerRun = {"camera"}
    Default = none
    Free = free
    front = front
    turned = turned
    Values <- MCValues
    InitialFiles <- MCFiles
    Readers = {"detector"}
    Consumer = "detector"
    Writers = {"settings", "mask"}
    MaxSaves = 2
    Scenes <- MCScenes
    Geometry <- MCGeometry
    Sections <- MCSections
    Parts <- MCParts
    FirstScene = front
    PageValues = {front}
    EditorValues = {turned}
SPECIFICATION FairZoneSpec
INVARIANT StampTellsTruth
INVARIANT SavesAreKept
PROPERTY SettingsArrive
PROPERTY ZoneSettles
CHECK_DEADLOCK FALSE
