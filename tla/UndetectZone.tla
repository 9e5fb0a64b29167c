--------------------------- MODULE UndetectZone ---------------------------
(***************************************************************************)
(* The undetect zone: the settings page paints it on a picture of the      *)
(* camera (web.py save_mask), the settings file keeps it together with a   *)
(* signature of the camera's geometry (mask.py), and the detector blacks   *)
(* it out of the frames it judges unless the signature says that the       *)
(* camera is no longer the one it was painted for (detector.py             *)
(* _check_mask_fits, on the sampling thread).                              *)
(*                                                                         *)
(* A zone is named by the scene it was painted on, and a scene by the      *)
(* signature of its camera.  A signature saved by an old release names the *)
(* geometry alone.                                                         *)
(***************************************************************************)
EXTENDS ConfigFile, Sequences

CONSTANTS
    FirstScene,   \* the scene the camera starts with
    Scenes,       \* what the camera can deliver: a camera, turned one way
    Geometry,     \* the geometry of each scene, what an old signature names
    Sections,     \* the options of the settings page, in the order it saves them
    PageValues,   \* what the page sets them to
    EditorValues  \* what an editor sets an option to

Zone == "mask_image_data"
Signature == "mask_signature"

ASSUME ZoneAssumption ==
    /\ Zone \in Live /\ Signature \in Options \ (Live \cup PerRun)
    /\ Scenes \subseteq Values \ {Default}
    /\ FirstScene \in Scenes
    /\ Geometry \in [Scenes -> Values \ (Scenes \cup {Default})]
    /\ Sections \in Seq(Options \ {Zone, Signature}) /\ Sections # <<>>
    /\ PageValues \cup EditorValues \subseteq Values
    /\ Writers = {"settings", "mask"}

VARIABLES
    scene,       \* what the camera delivers now
    delivered,   \* the scenes it has delivered so far
    saving,      \* the sections save_settings has still to write
    fits,        \* Detector._mask_fits
    warned       \* whether Detector.last_warning is set

sceneVars == <<scene, delivered>>
zoneVars == <<fits, warned>>
vars == <<configFileVars, saving, sceneVars, zoneVars>>

\* mask.signature_matches: an old signature is held to its geometry, none to anything.
Matches(stored, live) ==
    \/ stored = Default
    \/ stored = live
    \/ stored = Geometry[live]

ZoneInit ==
    /\ Init
    /\ scene = FirstScene
    /\ delivered = {scene}
    /\ saving = <<>>
    /\ fits = TRUE
    /\ warned = FALSE
-----------------------------------------------------------------------------
(* The settings page *)

\* The page keeps the camera it resolved at some time, until an error makes it
\* forget it.  Without a camera, or a picture from it, it has no signature.
PageSignatures == delivered \cup {Default}

\* Whether the zone is painted or emptied, the signature goes with it -- or, when
\* there is none, the one recorded for the zone before stays.
MaskUpdate(zone, sig) ==
    IF sig = Default THEN [o \in {Zone} |-> zone]
    ELSE [o \in {Zone, Signature} |-> IF o = Zone THEN zone ELSE sig]

SaveMask ==
    /\ \E zone \in {scene, Default}, sig \in PageSignatures :
           BeginSave("mask", MaskUpdate(zone, sig))
    /\ UNCHANGED <<saving, sceneVars, zoneVars>>

\* The page posts all its settings at once and each section is a save of its own.
\* A value that is out of range, or a save that fails, ends the request with the
\* sections before already written.
Unsaved == IF saving = <<>> THEN Sections ELSE saving

SaveSection ==
    /\ \E v \in PageValues : BeginSave("settings", [o \in {Head(Unsaved)} |-> v])
    /\ saving' = Tail(Unsaved)
    /\ UNCHANGED <<sceneVars, zoneVars>>

RejectSection ==
    /\ saving # <<>> /\ wAt["settings"] = "idle"
    /\ saving' = <<>>
    /\ UNCHANGED <<configFileVars, sceneVars, zoneVars>>

SaveFails(w) ==
    /\ FailSave(w)
    /\ saving' = IF w = "settings" THEN <<>> ELSE saving
    /\ UNCHANGED <<sceneVars, zoneVars>>
-----------------------------------------------------------------------------
(* The camera and the detector *)

\* Another camera, or the same one turned: also what a new print resolves anew.
ChangeScene ==
    /\ scene' \in Scenes \ delivered
    /\ delivered' = delivered \cup {scene'}
    /\ UNCHANGED <<configFileVars, saving, zoneVars>>

\* Mutant: without a zone or a signature there is nothing to do.
CheckMaskFitsOrNothing ==
    LET stored == loaded[Signature]
        judged == Matches(stored, scene)
    IN  IF applied[Zone] = Default \/ stored = Default
        THEN UNCHANGED <<fits, warned>>
        ELSE /\ fits' = judged
             /\ warned' = IF judged = fits THEN warned ELSE ~judged

\* The sampler decodes a frame and holds the stored signature against it.
CheckMaskFits ==
    LET stored == loaded[Signature]
        judged == Matches(stored, scene)
    IN  IF applied[Zone] = Default \/ stored = Default
        THEN fits' = TRUE /\ UNCHANGED warned
        ELSE /\ fits' = judged
             /\ warned' = IF judged = fits THEN warned ELSE ~judged

DecodeFrame ==
    /\ CheckMaskFits
    /\ UNCHANGED <<configFileVars, saving, sceneVars>>

\* What the next frame is blacked out with.
Covering == IF fits THEN applied[Zone] ELSE Default
-----------------------------------------------------------------------------
FileStep ==
    /\ \/ \E r \in Readers : Reload(r)
       \/ Compare \/ Apply \/ SetUp
       \/ \E w \in Writers : FinishSave(w)
       \/ \E v \in EditorValues, o \in Options \ {Zone, Signature} : BeginEdit([p \in {o} |-> v])
       \/ EndEdit
    /\ UNCHANGED <<saving, sceneVars, zoneVars>>

ZoneNext ==
    \/ FileStep
    \/ SaveMask \/ SaveSection \/ RejectSection
    \/ \E w \in Writers : SaveFails(w)
    \/ ChangeScene \/ DecodeFrame

ZoneSpec == ZoneInit /\ [][ZoneNext]_vars

\* Requests and threads keep going, an editor that has begun a save ends it,
\* and the camera keeps delivering frames.
Fairness ==
    /\ WF_vars(Refresh /\ UNCHANGED <<saving, sceneVars, zoneVars>>)
    /\ WF_vars(EndEdit /\ UNCHANGED <<saving, sceneVars, zoneVars>>)
    /\ \A w \in Writers : WF_vars((FinishSave(w) /\ UNCHANGED <<saving, sceneVars, zoneVars>>) \/ SaveFails(w))
    /\ WF_vars(DecodeFrame)

FairZoneSpec == ZoneSpec /\ Fairness
-----------------------------------------------------------------------------
ZoneTypeOK ==
    /\ TypeOK
    /\ scene \in Scenes /\ delivered \subseteq Scenes
    /\ saving \in Seq(Options)
    /\ fits \in BOOLEAN /\ warned \in BOOLEAN

\* However saves, reloads, camera changes and frames interleave, once they stop
\* the zone is blacked out exactly when the file's own signature matches the
\* camera: a zone of another camera does not stay applied, a zone of this one
\* does not stay suspended.
ZoneSettles ==
    <>[](~blind => Covering = IF Matches(disk[Signature], scene) THEN disk[Zone] ELSE Default)
=============================================================================
