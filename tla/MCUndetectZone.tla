-------------------------- MODULE MCUndetectZone --------------------------
EXTENDS UndetectZone

CONSTANTS front, turned    \* the camera, and the camera turned

MCScenes == {front, turned}
MCGeometry == [s \in MCScenes |-> IF s = front THEN "upright" ELSE "rotated"]
MCValues == MCScenes \cup {Default, "upright", "rotated"}
MCSections == <<"detection", "camera">>
MCParts == {{}, {"detection"}}

\* No zone; a zone with its signature; a zone an old release signed; an unsigned one.
MCFiles == {[o \in Options |-> CASE o = Zone -> z [] o = Signature -> s [] OTHER -> Default] :
                <<z, s>> \in {<<Default, Default>>, <<front, "upright">>,
                              <<turned, Default>>}}
=============================================================================
