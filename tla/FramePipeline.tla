----------------------------- MODULE FramePipeline -----------------------------
(***************************************************************************)
(* detector.py: the camera reader, the sampler thread and the detection    *)
(* loop around the candidate buffer, while settings are being saved.       *)
(*                                                                         *)
(* Three threads share what this module keeps apart:                       *)
(*   - the frame source's reader publishes into a capacity-one slot        *)
(*     (framesource.py),                                                   *)
(*   - the sampler takes the slot's frame, reads self._buffer and its      *)
(*     epoch, decodes, and offers the candidate to THAT buffer,            *)
(*   - the detection loop applies saved settings (which may replace        *)
(*     self._buffer, or bump its epoch), takes a candidate and scores it.  *)
(*                                                                         *)
(* A frame carries no picture, only which version of the detection         *)
(* criteria the detector was applying when the sampler started on it.      *)
(* Score order, ageing and capacity are FrameBuffer's; here the consumer   *)
(* takes any candidate, and candidates of one version are one.             *)
(***************************************************************************)
EXTENDS Integers, FiniteSets

CONSTANTS
    Capacities,    \* values frame_buffer_capacity may be saved with
    MaxSaves       \* bound: how often the settings are saved

ASSUME PipelineAssumption ==
    /\ Capacities \subseteq Nat \ {0} /\ Capacities # {}
    /\ MaxSaves \in Nat

VARIABLES
    saved,       \* the Config object: generation, criteria, capacity, enabled
    applied,     \* the values the detector has cached from it
    slot,        \* whether the source has a frame that was not read yet
    sampler,     \* the sampler thread
    bufs, cur,   \* every buffer object made so far; self._buffer
    loop,        \* the detection loop: where it is, what it holds, the criteria read
    scored       \* history: the last candidate scored

pipelineVars == <<saved, applied, slot, sampler, bufs, cur, loop, scored>>

Versions == 0..MaxSaves
Buffers == 1..(MaxSaves + 1)
Settings == [generation : Versions, criteria : Versions,
             capacity : Capacities, enabled : BOOLEAN]
EmptyBuffer == [epoch |-> 0, items |-> {}]
--------------------------------------------------------------------------------
PipelineInit ==
    /\ \E k \in Capacities :
          saved = [generation |-> 0, criteria |-> 0, capacity |-> k,
                   enabled |-> TRUE]
    /\ applied = saved
    /\ slot = FALSE
    /\ sampler = [pc |-> "wait", begun |-> 0, buf |-> 1, epoch |-> 0]
    /\ bufs = [b \in Buffers |-> EmptyBuffer]
    /\ cur = 1
    /\ loop = [pc |-> "top", candidate |-> 0, criteria |-> 0]
    /\ scored = [begun |-> 0, criteria |-> 0]

(* _publish: overwrites whatever was there, read or not.  *)
Publish ==
    /\ slot' = TRUE
    /\ UNCHANGED <<saved, applied, sampler, bufs, cur, loop, scored>>

(* A stream error or failed fetch clears the slot. *)
SourceError ==
    /\ slot
    /\ slot' = FALSE
    /\ UNCHANGED <<saved, applied, sampler, bufs, cur, loop, scored>>

(* wait_next returns a frame newer than the last one read. *)
WaitNext ==
    /\ sampler.pc = "wait"
    /\ slot
    /\ slot' = FALSE
    /\ sampler' = [sampler EXCEPT !.pc = "got"]
    /\ UNCHANGED <<saved, applied, bufs, cur, loop, scored>>

(* Mutant: the sampler keeps the buffer it found when it began. *)
PinBufferOnce ==
    /\ sampler.pc = "got"
    /\ sampler' = [sampler EXCEPT !.pc = "pinned"]
    /\ UNCHANGED <<saved, applied, slot, bufs, cur, loop, scored>>

(* buf = self._buffer *)
PinBuffer ==
    /\ sampler.pc = "got"
    /\ sampler' = [sampler EXCEPT !.pc = "pinned", !.buf = cur]
    /\ UNCHANGED <<saved, applied, slot, bufs, cur, loop, scored>>

(* epoch = buf.epoch, and the decoding starts *)
ReadEpoch ==
    /\ sampler.pc = "pinned"
    /\ sampler' = [sampler EXCEPT !.pc = "grab",
                                  !.epoch = bufs[sampler.buf].epoch,
                                  !.begun = applied.criteria]
    /\ UNCHANGED <<saved, applied, slot, bufs, cur, loop, scored>>

(* Mutant: self._buffer is read again for put(), as the comment in _sample   *)
(* warns.                                                                    *)
OfferToCurrent(usable) ==
    /\ sampler.pc = "grab"
    /\ sampler' = [sampler EXCEPT !.pc = "wait"]
    /\ bufs' = IF usable /\ bufs[cur].epoch = sampler.epoch
               THEN [bufs EXCEPT ![cur].items = @ \cup {sampler.begun}]
               ELSE bufs
    /\ UNCHANGED <<saved, applied, slot, cur, loop, scored>>

(* buf.put(image, score, captured_at, epoch); or the frame did not decode, or *)
(* the buffer is deep and the sample interval not over                        *)
Offer(usable) ==
    /\ sampler.pc = "grab"
    /\ sampler' = [sampler EXCEPT !.pc = "wait"]
    /\ bufs' = IF usable /\ bufs[sampler.buf].epoch = sampler.epoch
               THEN [bufs EXCEPT ![sampler.buf].items = @ \cup {sampler.begun}]
               ELSE bufs
    /\ UNCHANGED <<saved, applied, slot, cur, loop, scored>>

(* The settings page or the configuration file: every save is a generation. *)
Save(newCriteria, k, e) ==
    /\ saved.generation < MaxSaves
    /\ saved' = [generation |-> saved.generation + 1,
                 criteria |-> IF newCriteria THEN saved.generation + 1
                              ELSE saved.criteria,
                 capacity |-> k, enabled |-> e]
    /\ UNCHANGED <<applied, slot, sampler, bufs, cur, loop, scored>>

(* Mutant: the capacity the buffer was rebuilt for is not remembered. *)
RefreshBufferEveryTime ==
    /\ loop.pc = "top"
    /\ applied.generation # saved.generation \/ saved.capacity # applied.capacity
    /\ applied' = [saved EXCEPT !.criteria = applied.criteria,
                                !.capacity = applied.capacity]
    /\ cur' = IF saved.capacity # applied.capacity THEN cur + 1 ELSE cur
    /\ loop' = [loop EXCEPT !.pc = IF saved.criteria # applied.criteria
                                   THEN "criteria" ELSE "take",
                            !.criteria = saved.criteria]
    /\ UNCHANGED <<saved, slot, sampler, bufs, scored>>

(* _refresh, first half: the switch, and a buffer of the new size. *)
RefreshBuffer ==
    /\ loop.pc = "top"
    /\ applied.generation # saved.generation
    /\ applied' = [saved EXCEPT !.criteria = applied.criteria]
    /\ cur' = IF saved.capacity # applied.capacity THEN cur + 1 ELSE cur
    /\ loop' = [loop EXCEPT !.pc = IF saved.criteria # applied.criteria
                                   THEN "criteria" ELSE "take",
                            !.criteria = saved.criteria]
    /\ UNCHANGED <<saved, slot, sampler, bufs, scored>>

(* _refresh, second half: criteria changed, so the window, the latch and     *)
(* everything buffered or in flight start again.  The new criteria are those *)
(* read in the first half.                                                   *)
RefreshCriteria ==
    /\ loop.pc = "criteria"
    /\ applied' = [applied EXCEPT !.criteria = loop.criteria]
    /\ bufs' = [bufs EXCEPT ![cur] = [epoch |-> @.epoch + 1, items |-> {}]]
    /\ loop' = [loop EXCEPT !.pc = "take"]
    /\ UNCHANGED <<saved, slot, sampler, cur, scored>>

NothingToRefresh ==
    /\ loop.pc = "top"
    /\ applied.generation = saved.generation
    /\ loop' = [loop EXCEPT !.pc = "take"]
    /\ UNCHANGED <<saved, applied, slot, sampler, bufs, cur, scored>>

(* enable_ai is off: analyse nothing. *)
Disabled ==
    /\ loop.pc = "take"
    /\ ~applied.enabled
    /\ loop' = [loop EXCEPT !.pc = "top"]
    /\ UNCHANGED <<saved, applied, slot, sampler, bufs, cur, scored>>

(* take() gives up after its timeout on an empty buffer. *)
Starve ==
    /\ loop.pc = "take"
    /\ applied.enabled
    /\ bufs[cur].items = {}
    /\ loop' = [loop EXCEPT !.pc = "top"]
    /\ UNCHANGED <<saved, applied, slot, sampler, bufs, cur, scored>>

TakeCandidate ==
    /\ loop.pc = "take"
    /\ applied.enabled
    /\ \E c \in bufs[cur].items :
          /\ bufs' = [bufs EXCEPT ![cur].items = @ \ {c}]
          /\ loop' = [loop EXCEPT !.pc = "score", !.candidate = c]
    /\ UNCHANGED <<saved, applied, slot, sampler, cur, scored>>

(* _score: inference, then window.add under the criteria applied *)
Score ==
    /\ loop.pc = "score"
    /\ scored' = [begun |-> loop.candidate, criteria |-> applied.criteria]
    /\ loop' = [loop EXCEPT !.pc = "top", !.candidate = 0]
    /\ UNCHANGED <<saved, applied, slot, sampler, bufs, cur>>

Sample == WaitNext \/ PinBuffer \/ ReadEpoch \/ \E u \in BOOLEAN : Offer(u)
Consume == RefreshBuffer \/ RefreshCriteria \/ NothingToRefresh
           \/ Disabled \/ Starve \/ TakeCandidate \/ Score

PipelineNext ==
    \/ Publish \/ SourceError
    \/ Sample
    \/ \E n \in BOOLEAN, k \in Capacities, e \in BOOLEAN : Save(n, k, e)
    \/ Consume

PipelineSpec == PipelineInit /\ [][PipelineNext]_pipelineVars

(* The threads keep running.  The camera keeps delivering, often enough that *)
(* the sampler gets a frame, and it is not true that every frame it gets is  *)
(* undecodable.                                                              *)
PipelineFairness ==
    /\ WF_pipelineVars(Consume)
    /\ WF_pipelineVars(Publish) /\ SF_pipelineVars(WaitNext)
    /\ WF_pipelineVars(PinBuffer) /\ WF_pipelineVars(ReadEpoch)
    /\ WF_pipelineVars(\E u \in BOOLEAN : Offer(u)) /\ SF_pipelineVars(Offer(TRUE))
    /\ SF_pipelineVars(TakeCandidate)

PipelineFairSpec == PipelineSpec /\ PipelineFairness
--------------------------------------------------------------------------------
(* Types; buffers and settings are numbered within the bounds. *)
PipelineTypeOK ==
    /\ saved \in Settings /\ applied \in Settings
    /\ slot \in BOOLEAN
    /\ sampler \in [pc : {"wait", "got", "pinned", "grab"}, begun : Versions,
                    buf : Buffers, epoch : Versions]
    /\ bufs \in [Buffers -> [epoch : Versions, items : SUBSET Versions]]
    /\ cur \in Buffers
    /\ loop \in [pc : {"top", "criteria", "take", "score"}, candidate : Versions,
                 criteria : Versions]
    /\ scored \in [begun : Versions, criteria : Versions]

(* Whatever the order of save, buffer swap, epoch bump, and the sampler's    *)
(* reads of the buffer and its epoch: a candidate whose decoding began       *)
(* before the detection criteria changed is never scored under the new ones. *)
ScoredBegunUnderCriteria == scored.begun = scored.criteria

(* Saving settings never cuts the sampler off from the loop: frames go on    *)
(* being scored unless analysis is switched off for good.                    *)
ScoringContinues == <>[](~applied.enabled) \/ []<>(loop.pc = "score")
================================================================================
