------------------------------ MODULE LiveView ------------------------------
(***************************************************************************)
(* moonraker_pinozcam/web.py: what the page server shows.  The detection   *)
(* thread publishes annotated pictures into a FrameHolder; request threads *)
(* send them, or a picture fetched from the camera while nothing new is    *)
(* published, as an endless stream or one at a time (/stream, /snapshot    *)
(* and the /check command of the chats).  Other request threads pump the   *)
(* camera's own stream through (/camera), a few at a time.                 *)
(*                                                                         *)
(* The annotated picture is guarded by the holder's condition variable,    *)
(* the fetched one by nothing: its three fields are written one after the  *)
(* other by whichever threads fetch.  Clocks are left out: a publisher     *)
(* goes quiet, a cached picture grows old and a wait ends at some time.    *)
(* Sleeps that only set a rate are left out too.  Viewers and /camera      *)
(* threads share the camera and the stop flag only, so that a run may let  *)
(* them in apart (Visits).                                                 *)
(***************************************************************************)
EXTENDS Naturals, FiniteSets

CONSTANTS
    Streams,        \* request threads of /stream
    Snapshots,      \* request threads of /snapshot, and the chats' Check
    Pumps,          \* request threads of /camera
    ProxyViewers,   \* CAMERA_PROXY_VIEWERS
    Visits,         \* bound: the sets of threads that browsers may turn to
    MaxPublished    \* bound: annotated pictures published

ASSUME ViewAssumption ==
    /\ Streams \cap Snapshots = {}
    /\ ProxyViewers \in Nat \ {0} /\ MaxPublished \in Nat

VARIABLES
    seq,           \* _seq; the annotated picture _jpeg goes by its number
    publishing,    \* whether one was published within PUBLISHER_IDLE_AFTER
    cached,        \* _fallback_jpeg: "none", a "camera" picture or "no signal"
    fresh,         \* whether _fallback_at is less than FALLBACK_CACHE ago
    cameraOk,      \* camera_ok, "unknown" before anything was tried
    at,            \* where each viewer is
    opening,       \* whether a stream is still making sure there is a picture
    got,           \* what a viewer's fetch brought
    last,          \* the number of the last annotated picture a stream sent
    shown,         \* what a stream has sent last
    since,         \* history: the number published when a stream was opened
    pump,          \* where each /camera thread is
    proxied,       \* _proxy_viewers
    closing,       \* _stopping
    camera,        \* whether the camera answers
    visitors       \* the threads that browsers turn to in this behaviour

holderVars == <<seq, publishing>>
cacheVars == <<cached, fresh, cameraOk>>
viewerVars == <<at, opening, got, last, shown, since>>
pumpVars == <<pump, proxied>>
worldVars == <<camera, visitors>>
pageVars == <<holderVars, cacheVars, viewerVars, pumpVars, closing, worldVars>>

Viewers == Streams \cup Snapshots
Pictures == {"camera", "no signal"}

ViewInit ==
    /\ seq = 0 /\ publishing = FALSE
    /\ cached = "none" /\ fresh = FALSE /\ cameraOk = "unknown"
    /\ at = [v \in Viewers |-> "idle"]
    /\ opening = [v \in Viewers |-> FALSE]
    /\ got = [v \in Viewers |-> "none"]
    /\ last = [v \in Streams |-> 0]
    /\ shown = [v \in Streams |-> "none"] /\ since = [v \in Streams |-> 0]
    /\ pump = [p \in Pumps |-> "idle"] /\ proxied = 0
    /\ closing = FALSE /\ camera \in {"up", "down"} /\ visitors \in Visits
-----------------------------------------------------------------------------
(* The detection thread, the clock and the camera *)

Publish ==
    /\ seq < MaxPublished
    /\ seq' = seq + 1 /\ publishing' = TRUE
    /\ UNCHANGED <<cacheVars, viewerVars, pumpVars, closing, worldVars>>

GoQuiet ==
    /\ publishing /\ publishing' = FALSE
    /\ UNCHANGED <<seq, cacheVars, viewerVars, pumpVars, closing, worldVars>>

GrowOld ==
    /\ fresh /\ fresh' = FALSE
    /\ UNCHANGED <<holderVars, cached, cameraOk, viewerVars, pumpVars,
                   closing, worldVars>>

CameraChanges ==
    /\ camera' = IF camera = "up" THEN "down" ELSE "up"
    /\ UNCHANGED <<holderVars, cacheVars, viewerVars, pumpVars, closing, visitors>>
-----------------------------------------------------------------------------
(* A viewer *)

Move(v, place) == at' = [at EXCEPT ![v] = place]

\* The end of a request for one picture, or of one round of a stream.
Rest(v) == IF v \in Snapshots THEN "idle" ELSE "loop"

\* latest(): an annotated picture, unless the publisher has gone quiet.
Ask(v) ==
    /\ v \in visitors /\ at[v] = "idle" /\ ~closing
    /\ IF publishing
       THEN Move(v, Rest(v)) /\ UNCHANGED opening
       ELSE /\ Move(v, "look")
            /\ opening' = [opening EXCEPT ![v] = v \in Streams]
    /\ since' = IF v \in Streams THEN [since EXCEPT ![v] = seq] ELSE since
    /\ UNCHANGED <<holderVars, cacheVars, got, last, shown, pumpVars,
                   closing, worldVars>>

\* A stream ends when the service stops, or the browser has closed the tab.
EndStream(v) ==
    /\ v \in Streams /\ at[v] = "loop"
    /\ Move(v, "idle")
    /\ last' = [last EXCEPT ![v] = 0]
    /\ shown' = [shown EXCEPT ![v] = "none"]
    /\ since' = [since EXCEPT ![v] = 0]
    /\ UNCHANGED <<holderVars, cacheVars, opening, got, pumpVars, closing, worldVars>>

Leave(v) == EndStream(v) /\ UNCHANGED closing
Dismiss(v) == closing /\ EndStream(v)

\* wait_newer(): a picture the stream has not sent yet, wherever it comes to see it.
SendAnnotated(v) ==
    /\ v \in Streams
    /\ at[v] \in {"loop", "wait"}
    /\ at[v] = "loop" => ~closing
    /\ seq > last[v]
    /\ last' = [last EXCEPT ![v] = seq]
    /\ shown' = [shown EXCEPT ![v] = "annotated"]
    /\ Move(v, "loop")
    /\ UNCHANGED <<holderVars, cacheVars, opening, got, since, pumpVars,
                   closing, worldVars>>

\* It waits for the next only while somebody publishes.
WaitOrLook(v) ==
    /\ v \in Streams
    /\ at[v] = "loop" /\ ~closing
    /\ seq <= last[v]
    /\ Move(v, IF publishing THEN "wait" ELSE "look")
    /\ UNCHANGED <<holderVars, cacheVars, opening, got, last, shown, since, pumpVars, closing,
                   worldVars>>

\* STREAM_KEEPALIVE is over, and still nothing newer.
KeepAlive(v) ==
    /\ v \in Streams
    /\ at[v] = "wait" /\ seq <= last[v]
    /\ Move(v, "look")
    /\ UNCHANGED <<holderVars, cacheVars, opening, got, last, shown, since, pumpVars, closing,
                   worldVars>>

\* A viewer gets what is cached at this moment, whoever put it there; a stream that
\* is being opened sends nothing yet.
Show(v) ==
    /\ shown' = IF v \in Snapshots \/ opening[v] THEN shown ELSE [shown EXCEPT ![v] = cached]
    /\ opening' = [opening EXCEPT ![v] = FALSE]
    /\ Move(v, Rest(v))

\* _live(): the cached picture, or one fetched now.
ShowCached(v) ==
    /\ at[v] = "look"
    /\ cached # "none" /\ fresh
    /\ Show(v)
    /\ UNCHANGED <<holderVars, cacheVars, got, last, since, pumpVars,
                   closing, worldVars>>

Fetch(v) ==
    /\ at[v] = "look"
    /\ cached = "none" \/ ~fresh
    /\ Move(v, "fetch")
    /\ UNCHANGED <<holderVars, cacheVars, opening, got, last, shown, since, pumpVars, closing,
                   worldVars>>

FetchEnds(v) ==
    /\ at[v] = "fetch"
    /\ got' = [got EXCEPT ![v] = IF camera = "up" THEN "camera" ELSE "no signal"]
    /\ Move(v, "picture")
    /\ UNCHANGED <<holderVars, cacheVars, opening, last, shown, since, pumpVars,
                   closing, worldVars>>

\* The picture and its time, which is that before the fetch and may be long ago by
\* now.  Who looks between the two finds a time that is old or not, as after both.
WritePicture(v) ==
    /\ at[v] = "picture"
    /\ cached' = got[v]
    /\ fresh' \in BOOLEAN
    /\ Move(v, "flag")
    /\ UNCHANGED <<holderVars, cameraOk, opening, got, last, shown, since, pumpVars,
                   closing, worldVars>>

\* Mutant: only a failure is recorded.
WriteFlagOfFailure(v) ==
    /\ at[v] = "flag"
    /\ cameraOk' = IF got[v] = "camera" /\ cameraOk # "unknown" THEN cameraOk
                   ELSE IF got[v] = "camera" THEN "yes" ELSE "no"
    /\ got' = [got EXCEPT ![v] = "none"]
    /\ Move(v, "return")
    /\ UNCHANGED <<holderVars, cached, fresh, opening, last, shown, since, pumpVars,
                   closing, worldVars>>

WriteFlag(v) ==
    /\ at[v] = "flag"
    /\ cameraOk' = IF got[v] = "camera" THEN "yes" ELSE "no"
    /\ got' = [got EXCEPT ![v] = "none"]
    /\ Move(v, "return")
    /\ UNCHANGED <<holderVars, cached, fresh, opening, last, shown, since, pumpVars,
                   closing, worldVars>>

\* Mutant: wait_newer() gives the newest sequence number with every picture.
ShowFetchedAsNewest(v) ==
    /\ at[v] = "return"
    /\ Show(v)
    /\ last' = IF v \in Streams THEN [last EXCEPT ![v] = seq] ELSE last
    /\ UNCHANGED <<holderVars, cacheVars, got, since, pumpVars, closing, worldVars>>

ShowFetched(v) ==
    /\ at[v] = "return"
    /\ Show(v)
    /\ UNCHANGED <<holderVars, cacheVars, got, last, since, pumpVars,
                   closing, worldVars>>

View(v) ==
    \/ SendAnnotated(v) \/ WaitOrLook(v) \/ KeepAlive(v) \/ Dismiss(v)
    \/ ShowCached(v) \/ Fetch(v) \/ FetchEnds(v)
    \/ WritePicture(v) \/ WriteFlag(v) \/ ShowFetched(v)
-----------------------------------------------------------------------------
(* /camera *)

PumpTo(p, place) == pump' = [pump EXCEPT ![p] = place]

\* Mutant: the limit is looked at without its own viewer.
AcquireOneMore(p) ==
    /\ p \in visitors /\ pump[p] = "idle" /\ ~closing
    /\ proxied <= ProxyViewers
    /\ proxied' = proxied + 1
    /\ PumpTo(p, "connect")
    /\ UNCHANGED <<holderVars, cacheVars, viewerVars, closing, worldVars>>

\* proxy_acquire(): beyond the limit the browser is told to do without.
Acquire(p) ==
    /\ p \in visitors /\ pump[p] = "idle" /\ ~closing
    /\ proxied < ProxyViewers
    /\ proxied' = proxied + 1
    /\ PumpTo(p, "connect")
    /\ UNCHANGED <<holderVars, cacheVars, viewerVars, closing, worldVars>>

\* proxy_release(), however the thread comes to leave.
Release(p) ==
    /\ proxied' = IF proxied > 0 THEN proxied - 1 ELSE 0
    /\ PumpTo(p, "idle")

ConnectPump(p) ==
    /\ pump[p] = "connect" /\ camera = "up"
    /\ PumpTo(p, "pumping")
    /\ UNCHANGED <<proxied, holderVars, cacheVars, viewerVars, closing, worldVars>>

PumpUnreachable(p) ==
    /\ pump[p] = "connect" /\ camera = "down"
    /\ Release(p)
    /\ UNCHANGED <<holderVars, cacheVars, viewerVars, closing, worldVars>>

CloseTab(p) ==
    /\ pump[p] = "pumping"
    /\ PumpTo(p, "orphan")
    /\ UNCHANGED <<proxied, holderVars, cacheVars, viewerVars, closing, worldVars>>

\* Mutant: only a closed tab ends the pumping.
PumpChunkUntilClosed(p) ==
    /\ camera = "up" /\ pump[p] = "orphan"
    /\ Release(p)
    /\ UNCHANGED <<holderVars, cacheVars, viewerVars, closing, worldVars>>

\* With each chunk the thread looks whether to stop, and writes to the browser.
PumpChunk(p) ==
    /\ camera = "up"
    /\ pump[p] = "orphan" \/ (pump[p] = "pumping" /\ closing)
    /\ Release(p)
    /\ UNCHANGED <<holderVars, cacheVars, viewerVars, closing, worldVars>>

\* Mutant: a silent camera is given up only while the browser is there.
PumpSilentWhileWatched(p) ==
    /\ camera = "down" /\ pump[p] = "pumping"
    /\ Release(p)
    /\ UNCHANGED <<holderVars, cacheVars, viewerVars, closing, worldVars>>

\* The camera sends nothing for the read time-out, or ends the response.
PumpSilent(p) ==
    /\ camera = "down"
    /\ pump[p] \in {"pumping", "orphan"}
    /\ Release(p)
    /\ UNCHANGED <<holderVars, cacheVars, viewerVars, closing, worldVars>>

Forward(p) == ConnectPump(p) \/ PumpUnreachable(p) \/ PumpChunk(p) \/ PumpSilent(p)
-----------------------------------------------------------------------------
Stop ==
    /\ ~closing /\ closing' = TRUE
    /\ UNCHANGED <<holderVars, cacheVars, viewerVars, pumpVars, worldVars>>

ViewNext ==
    \/ Publish \/ GoQuiet \/ GrowOld \/ CameraChanges \/ Stop
    \/ \E v \in Viewers : Ask(v) \/ Leave(v) \/ View(v)
    \/ \E p \in Pumps : Acquire(p) \/ CloseTab(p) \/ Forward(p)

ViewSpec == ViewInit /\ [][ViewNext]_pageVars

\* Time passes and the request threads run, each call to the camera within its
\* time-out.  Nobody has to publish, to ask for a picture or to leave.
ViewFairSpec ==
    /\ ViewSpec
    /\ WF_pageVars(GoQuiet) /\ WF_pageVars(GrowOld)
    /\ \A v \in Viewers : WF_pageVars(View(v))
    /\ \A p \in Pumps : WF_pageVars(Forward(p))
-----------------------------------------------------------------------------
Places == {"idle", "loop", "wait", "look", "fetch", "picture", "flag", "return"}

ViewTypeOK ==
    /\ seq \in Nat /\ publishing \in BOOLEAN
    /\ cached \in Pictures \cup {"none"} /\ fresh \in BOOLEAN
    /\ cameraOk \in {"unknown", "yes", "no"}
    /\ at \in [Viewers -> Places]
    /\ opening \in [Viewers -> BOOLEAN]
    /\ got \in [Viewers -> Pictures \cup {"none"}]
    /\ last \in [Streams -> Nat]
    /\ shown \in [Streams -> Pictures \cup {"none", "annotated"}]
    /\ since \in [Streams -> Nat]
    /\ pump \in [Pumps -> {"idle", "connect", "pumping", "orphan"}]
    /\ proxied \in 0..ProxyViewers
    /\ closing \in BOOLEAN /\ camera \in {"up", "down"} /\ visitors \in Visits

Open(v) == at[v] # "idle"

\* An annotated picture, the one that shows a failure, reaches every stream that was
\* open when it was published and stays open: one published while a stream is busy
\* with the camera's picture is not skipped (wait_newer keeps "the caller's sequence,
\* so it asks again next tick"), unless a newer one takes its place.  Nothing is asked
\* of pictures from before the stream was opened, which wait_newer sends all the same.
NewestIsSent ==
    \A v \in Streams, n \in 1..MaxPublished :
        (Open(v) /\ since[v] < n /\ last[v] < n /\ n <= seq)
            ~> (~Open(v) \/ (shown[v] = "annotated" /\ last[v] >= n))

\* What a camera that stays up, or down, comes to look like on a stream and on the
\* page, however the threads that fetched before write over each other: not the
\* last picture of a print that is over, and not a word about the camera that
\* contradicts the picture (web.py 72-76, 86-93, 759-766).
Settled(v, picture, ok) == shown[v] = picture /\ cached = picture /\ cameraOk = ok

ViewSettles ==
    \A v \in Streams :
        LET stays(c) == <>[](camera = c /\ Open(v) /\ ~publishing)
        IN  /\ stays("up") => <>[]Settled(v, "camera", "yes")
            /\ stays("down") => <>[]Settled(v, "no signal", "no")

\* The few slots of /camera are not used up: the slot of a browser that is gone
\* comes back even if the camera hangs (web.py 474-476), and the ones in use are
\* those of the threads that are at it.
SlotsComeBack ==
    /\ [](proxied = Cardinality({p \in Pumps : pump[p] # "idle"}))
    /\ \A p \in Pumps : pump[p] = "orphan" ~> pump[p] = "idle"

\* After stop() no request thread goes on sending.
ServerComesToRest ==
    closing ~> [](/\ \A v \in Viewers : ~Open(v)
                   /\ \A p \in Pumps : pump[p] = "idle")
=============================================================================
