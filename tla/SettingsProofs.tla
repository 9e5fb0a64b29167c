-------------------------- MODULE SettingsProofs --------------------------
(***************************************************************************)
(* What ConfigFile's runs check on a small file, proved for every set of   *)
(* options, values, readers and writers and every number of saves; and     *)
(* that the page, the zone and the detector use the settings file in no    *)
(* other way than ConfigFile describes, so that all that is proved of the  *)
(* file holds of the composition.                                          *)
(***************************************************************************)
EXTENDS UndetectZone, TLAPS

\* A writer is at work exactly while it holds the lock.
LockHeld == \A w \in Writers : (wAt[w] # "idle") <=> (lock = w)

\* No time remembered is later than the file's, and a writer that has replaced
\* the file has made it later than what is loaded.
Times ==
    /\ mtime <= stamp
    /\ \A r \in Readers : rStamp[r] <= stamp
    /\ \A w \in Writers : wAt[w] \in {"reopen", "reread"} => mtime < stamp
    /\ seen <= generation

\* What a reader has parsed is the file, if the file is still as old as it was.
ParsedIsDisk ==
    \A r \in Readers :
        rAt[r] = "install" /\ rStamp[r] = stamp /\ ~torn => rValues[r] = disk

\* What a writer has read back is the file, but for an edit since.
RereadIsDisk ==
    \A w \in Writers : wAt[w] = "stamp" /\ ~torn /\ ~blind => loaded = disk

\* The lines about to be written are all that was asked for.
LinesAreAsked ==
    /\ ~crossed => \A w \in Writers : wAt[w] = "replace" => wLines[w] = asked
    /\ ~crossed /\ (\A w \in Writers : wAt[w] # "replace") => disk = asked

\* A detector that works with other values than the loaded ones, of the options it takes
\* over during a run, has a reason to look again, or will be given one.
WillApply ==
    \/ seen < generation
    \/ rAt[Consumer] = "apply"
    \/ \A o \in Live : applied[o] = loaded[o]
    \/ mtime < stamp
    \/ \E w \in Writers : wAt[w] = "stamp"

IInv ==
    /\ TypeOK
    /\ LockHeld
    /\ Times
    /\ ParsedIsDisk
    /\ RereadIsDisk
    /\ StampTellsTruth
    /\ LinesAreAsked
    /\ WillApply

LEMMA OverType ==
    ASSUME NEW u \in Updates, NEW f \in Contents
    PROVE  Over(u, f) \in Contents
  BY DEF Over, Updates, Contents

LEMMA ReadableType ==
    ASSUME TypeOK, NEW f \in Readable
    PROVE  f \in Contents /\ (~torn => f = disk)
  BY FileAssumption DEF Readable, Part, Contents, TypeOK

LEMMA NothingType == Nothing \in Contents
  BY FileAssumption DEF Nothing, Contents

LEMMA InitInv == Init => IInv
  <1> SUFFICES ASSUME Init PROVE IInv
    OBVIOUS
  <1>1. TypeOK
    BY FileAssumption, NothingType DEF Init, TypeOK, Contents
  <1>2. QED
    BY <1>1, FileAssumption DEF Init, IInv, LockHeld, Times, ParsedIsDisk, RereadIsDisk,
       StampTellsTruth, LinesAreAsked, WillApply

-----------------------------------------------------------------------------
(* Types *)

LEMMA TypeStep ==
    ASSUME TypeOK, [Next]_configFileVars
    PROVE  TypeOK'
  <1> USE FileAssumption, NothingType
  <1> USE DEF TypeOK, fileVars, configVars, writerVars, readerVars, consumerVars, historyVars
  <1>1. ASSUME NEW r \in Readers, Poll(r) PROVE TypeOK'
    BY <1>1 DEF Poll, After
  <1>2. ASSUME NEW r \in Readers, Parse(r) PROVE TypeOK'
    BY <1>2, ReadableType DEF Parse
  <1>3. ASSUME NEW r \in Readers, ParseFails(r) PROVE TypeOK'
    BY <1>3 DEF ParseFails, After
  <1>4. ASSUME NEW r \in Readers, Install(r) PROVE TypeOK'
    BY <1>4 DEF Install, After
  <1>5. CASE Compare
    BY <1>5 DEF Compare
  <1>6. CASE Apply \/ SetUp
    <2>1. Taking(Live) \in Contents /\ Taking(PerRun) \in Contents
      BY DEF Taking, Contents
    <2>2. QED
      BY <1>6, <2>1 DEF Apply, SetUp
  <1>7. ASSUME NEW w \in Writers, NEW u \in Updates, BeginSave(w, u) PROVE TypeOK'
    <2>1. PICK f \in Readable : wLines' = [wLines EXCEPT ![w] = Over(u, f)]
      BY <1>7 DEF BeginSave
    <2>2. Over(u, f) \in Contents /\ Over(u, asked) \in Contents
      BY <2>1, OverType, ReadableType
    <2>3. QED
      BY <1>7, <2>1, <2>2 DEF BeginSave
  <1>8. ASSUME NEW w \in Writers, Replace(w) PROVE TypeOK'
    <2>1. disk' \in Contents
      BY <1>8 DEF Replace
    <2>2. wLines' \in [Writers -> Contents]
      BY <1>8 DEF Replace
    <2>3. torn' \in BOOLEAN
      BY <1>8 DEF Replace
    <2>4. wAt' \in [Writers -> {"idle", "replace", "reopen", "reread", "stamp"}]
      BY <1>8 DEF Replace
    <2>5. QED
      BY <1>8, <2>1, <2>2, <2>3, <2>4 DEF Replace
  <1>9. ASSUME NEW w \in Writers, ReplaceFails(w) PROVE TypeOK'
    BY <1>9 DEF ReplaceFails
  <1>10. ASSUME NEW w \in Writers, Reopen(w) PROVE TypeOK'
    BY <1>10 DEF Reopen
  <1>11. ASSUME NEW w \in Writers, Reread(w) PROVE TypeOK'
    BY <1>11, ReadableType DEF Reread
  <1>12. ASSUME NEW w \in Writers, RereadFails(w) PROVE TypeOK'
    BY <1>12, ReadableType DEF RereadFails
  <1>13. ASSUME NEW w \in Writers, Stamp(w) PROVE TypeOK'
    BY <1>13 DEF Stamp
  <1>14. ASSUME NEW u \in Updates, BeginEdit(u) PROVE TypeOK'
    <2>1. Over(u, disk) \in Contents /\ Over(u, asked) \in Contents
      BY OverType
    <2>2. crossed' \in BOOLEAN /\ blind' \in BOOLEAN
      BY <1>14 DEF BeginEdit, Rewriting, Stamping
    <2>3. QED
      BY <1>14, <2>1, <2>2 DEF BeginEdit
  <1>15. CASE EndEdit
    <2>1. blind' \in BOOLEAN
      <3>1. blind' = (blind \/ Stamping)
        BY <1>15 DEF EndEdit
      <3>2. Stamping \in BOOLEAN
        BY DEF Stamping
      <3>3. QED
        BY <3>1, <3>2
    <2>2. stamp' \in Nat
      BY <1>15 DEF EndEdit
    <2>3. torn' \in BOOLEAN
      BY <1>15 DEF EndEdit
    <2>4. UNCHANGED <<disk, configVars, writerVars, readerVars, consumerVars, saves, asked,
                      crossed>>
      BY <1>15 DEF EndEdit
    <2>5. QED
      BY <2>1, <2>2, <2>3, <2>4
  <1>16. CASE UNCHANGED configFileVars
    BY <1>16 DEF configFileVars
  <1>17. QED
    BY <1>1, <1>2, <1>3, <1>4, <1>5, <1>6, <1>7, <1>8, <1>9, <1>10, <1>11, <1>12, <1>13,
       <1>14, <1>15, <1>16 DEF Next, Reload, FinishSave, FailSave

-----------------------------------------------------------------------------
(* The lock and the times *)

LEMMA LockTimesStep ==
    ASSUME TypeOK, LockHeld, Times, [Next]_configFileVars
    PROVE  LockHeld' /\ Times'
  <1> USE FileAssumption
  <1> USE DEF TypeOK, LockHeld, Times, fileVars, configVars, writerVars, readerVars,
          consumerVars, historyVars
  <1>1. ASSUME NEW r \in Readers, Poll(r) PROVE LockHeld' /\ Times'
    BY <1>1 DEF Poll, After
  <1>2. ASSUME NEW r \in Readers, Parse(r) PROVE LockHeld' /\ Times'
    BY <1>2 DEF Parse
  <1>3. ASSUME NEW r \in Readers, ParseFails(r) PROVE LockHeld' /\ Times'
    BY <1>3 DEF ParseFails, After
  <1>4. ASSUME NEW r \in Readers, Install(r) PROVE LockHeld' /\ Times'
    BY <1>4 DEF Install, After
  <1>5. CASE Compare
    BY <1>5 DEF Compare
  <1>6. CASE Apply \/ SetUp
    BY <1>6 DEF Apply, SetUp, Taking
  <1>7. ASSUME NEW w \in Writers, NEW u \in Updates, BeginSave(w, u) PROVE LockHeld' /\ Times'
    BY <1>7 DEF BeginSave
  <1>8. ASSUME NEW w \in Writers, Replace(w) PROVE LockHeld' /\ Times'
    BY <1>8 DEF Replace
  <1>9. ASSUME NEW w \in Writers, ReplaceFails(w) PROVE LockHeld' /\ Times'
    BY <1>9 DEF ReplaceFails
  <1>10. ASSUME NEW w \in Writers, Reopen(w) PROVE LockHeld' /\ Times'
    BY <1>10 DEF Reopen
  <1>11. ASSUME NEW w \in Writers, Reread(w) PROVE LockHeld' /\ Times'
    BY <1>11 DEF Reread
  <1>12. ASSUME NEW w \in Writers, RereadFails(w) PROVE LockHeld' /\ Times'
    BY <1>12 DEF RereadFails
  <1>13. ASSUME NEW w \in Writers, Stamp(w) PROVE LockHeld' /\ Times'
    BY <1>13 DEF Stamp
  <1>14. ASSUME NEW u \in Updates, BeginEdit(u) PROVE LockHeld' /\ Times'
    BY <1>14 DEF BeginEdit, Rewriting, Stamping
  <1>15. CASE EndEdit
    BY <1>15 DEF EndEdit, Stamping
  <1>16. CASE UNCHANGED configFileVars
    BY <1>16 DEF configFileVars
  <1>17. QED
    BY <1>1, <1>2, <1>3, <1>4, <1>5, <1>6, <1>7, <1>8, <1>9, <1>10, <1>11, <1>12, <1>13, <1>14, <1>15, <1>16
       DEF Next, Reload, FinishSave, FailSave

-----------------------------------------------------------------------------
(* What was read is what the file says *)

LEMMA ParsedStep ==
    ASSUME TypeOK, LockHeld, Times, ParsedIsDisk, [Next]_configFileVars
    PROVE  ParsedIsDisk'
  <1> USE FileAssumption
  <1> USE DEF TypeOK, LockHeld, Times, ParsedIsDisk, fileVars, configVars, writerVars, readerVars,
          consumerVars, historyVars
  <1>1. ASSUME NEW r \in Readers, Poll(r) PROVE ParsedIsDisk'
    BY <1>1 DEF Poll, After
  <1>2. ASSUME NEW r \in Readers, Parse(r) PROVE ParsedIsDisk'
    BY <1>2, ReadableType DEF Parse
  <1>3. ASSUME NEW r \in Readers, ParseFails(r) PROVE ParsedIsDisk'
    BY <1>3 DEF ParseFails, After
  <1>4. ASSUME NEW r \in Readers, Install(r) PROVE ParsedIsDisk'
    BY <1>4 DEF Install, After
  <1>5. CASE Compare
    BY <1>5 DEF Compare
  <1>6. CASE Apply \/ SetUp
    BY <1>6 DEF Apply, SetUp, Taking
  <1>7. ASSUME NEW w \in Writers, NEW u \in Updates, BeginSave(w, u) PROVE ParsedIsDisk'
    BY <1>7, ReadableType DEF BeginSave
  <1>8. ASSUME NEW w \in Writers, Replace(w) PROVE ParsedIsDisk'
    BY <1>8 DEF Replace
  <1>9. ASSUME NEW w \in Writers, ReplaceFails(w) PROVE ParsedIsDisk'
    BY <1>9 DEF ReplaceFails
  <1>10. ASSUME NEW w \in Writers, Reopen(w) PROVE ParsedIsDisk'
    BY <1>10 DEF Reopen
  <1>11. ASSUME NEW w \in Writers, Reread(w) PROVE ParsedIsDisk'
    BY <1>11, ReadableType DEF Reread
  <1>12. ASSUME NEW w \in Writers, RereadFails(w) PROVE ParsedIsDisk'
    BY <1>12, ReadableType DEF RereadFails
  <1>13. ASSUME NEW w \in Writers, Stamp(w) PROVE ParsedIsDisk'
    BY <1>13 DEF Stamp
  <1>14. ASSUME NEW u \in Updates, BeginEdit(u) PROVE ParsedIsDisk'
    BY <1>14 DEF BeginEdit, Rewriting, Stamping
  <1>15. CASE EndEdit
    BY <1>15 DEF EndEdit, Stamping
  <1>16. CASE UNCHANGED configFileVars
    BY <1>16 DEF configFileVars
  <1>17. QED
    BY <1>1, <1>2, <1>3, <1>4, <1>5, <1>6, <1>7, <1>8, <1>9, <1>10, <1>11, <1>12, <1>13, <1>14, <1>15, <1>16
       DEF Next, Reload, FinishSave, FailSave

LEMMA RereadStep ==
    ASSUME TypeOK, LockHeld, RereadIsDisk, [Next]_configFileVars
    PROVE  RereadIsDisk'
  <1> USE FileAssumption
  <1> USE DEF TypeOK, LockHeld, RereadIsDisk, fileVars, configVars, writerVars, readerVars,
          consumerVars, historyVars
  <1>1. ASSUME NEW r \in Readers, Poll(r) PROVE RereadIsDisk'
    BY <1>1 DEF Poll, After
  <1>2. ASSUME NEW r \in Readers, Parse(r) PROVE RereadIsDisk'
    BY <1>2, ReadableType DEF Parse
  <1>3. ASSUME NEW r \in Readers, ParseFails(r) PROVE RereadIsDisk'
    BY <1>3 DEF ParseFails, After
  <1>4. ASSUME NEW r \in Readers, Install(r) PROVE RereadIsDisk'
    BY <1>4 DEF Install, After
  <1>5. CASE Compare
    BY <1>5 DEF Compare
  <1>6. CASE Apply \/ SetUp
    BY <1>6 DEF Apply, SetUp, Taking
  <1>7. ASSUME NEW w \in Writers, NEW u \in Updates, BeginSave(w, u) PROVE RereadIsDisk'
    BY <1>7, ReadableType DEF BeginSave
  <1>8. ASSUME NEW w \in Writers, Replace(w) PROVE RereadIsDisk'
    BY <1>8 DEF Replace
  <1>9. ASSUME NEW w \in Writers, ReplaceFails(w) PROVE RereadIsDisk'
    BY <1>9 DEF ReplaceFails
  <1>10. ASSUME NEW w \in Writers, Reopen(w) PROVE RereadIsDisk'
    BY <1>10 DEF Reopen
  <1>11. ASSUME NEW w \in Writers, Reread(w) PROVE RereadIsDisk'
    BY <1>11, ReadableType DEF Reread
  <1>12. ASSUME NEW w \in Writers, RereadFails(w) PROVE RereadIsDisk'
    BY <1>12, ReadableType DEF RereadFails
  <1>13. ASSUME NEW w \in Writers, Stamp(w) PROVE RereadIsDisk'
    BY <1>13 DEF Stamp
  <1>14. ASSUME NEW u \in Updates, BeginEdit(u) PROVE RereadIsDisk'
    BY <1>14 DEF BeginEdit, Rewriting, Stamping
  <1>15. CASE EndEdit
    BY <1>15 DEF EndEdit, Stamping
  <1>16. CASE UNCHANGED configFileVars
    BY <1>16 DEF configFileVars
  <1>17. QED
    BY <1>1, <1>2, <1>3, <1>4, <1>5, <1>6, <1>7, <1>8, <1>9, <1>10, <1>11, <1>12, <1>13, <1>14, <1>15, <1>16
       DEF Next, Reload, FinishSave, FailSave

LEMMA TruthStep ==
    ASSUME TypeOK, LockHeld, Times, ParsedIsDisk, RereadIsDisk, StampTellsTruth, [Next]_configFileVars
    PROVE  StampTellsTruth'
  <1> USE FileAssumption
  <1> USE DEF TypeOK, LockHeld, Times, ParsedIsDisk,
          RereadIsDisk, StampTellsTruth, fileVars, configVars, writerVars, readerVars,
          consumerVars, historyVars
  <1>1. ASSUME NEW r \in Readers, Poll(r) PROVE StampTellsTruth'
    BY <1>1 DEF Poll, After
  <1>2. ASSUME NEW r \in Readers, Parse(r) PROVE StampTellsTruth'
    BY <1>2, ReadableType DEF Parse
  <1>3. ASSUME NEW r \in Readers, ParseFails(r) PROVE StampTellsTruth'
    BY <1>3 DEF ParseFails, After
  <1>4. ASSUME NEW r \in Readers, Install(r) PROVE StampTellsTruth'
    BY <1>4 DEF Install, After
  <1>5. CASE Compare
    BY <1>5 DEF Compare
  <1>6. CASE Apply \/ SetUp
    BY <1>6 DEF Apply, SetUp, Taking
  <1>7. ASSUME NEW w \in Writers, NEW u \in Updates, BeginSave(w, u) PROVE StampTellsTruth'
    BY <1>7, ReadableType DEF BeginSave
  <1>8. ASSUME NEW w \in Writers, Replace(w) PROVE StampTellsTruth'
    BY <1>8 DEF Replace
  <1>9. ASSUME NEW w \in Writers, ReplaceFails(w) PROVE StampTellsTruth'
    BY <1>9 DEF ReplaceFails
  <1>10. ASSUME NEW w \in Writers, Reopen(w) PROVE StampTellsTruth'
    BY <1>10 DEF Reopen
  <1>11. ASSUME NEW w \in Writers, Reread(w) PROVE StampTellsTruth'
    BY <1>11, ReadableType DEF Reread
  <1>12. ASSUME NEW w \in Writers, RereadFails(w) PROVE StampTellsTruth'
    BY <1>12, ReadableType DEF RereadFails
  <1>13. ASSUME NEW w \in Writers, Stamp(w) PROVE StampTellsTruth'
    BY <1>13 DEF Stamp
  <1>14. ASSUME NEW u \in Updates, BeginEdit(u) PROVE StampTellsTruth'
    BY <1>14 DEF BeginEdit, Rewriting, Stamping
  <1>15. CASE EndEdit
    BY <1>15 DEF EndEdit, Stamping
  <1>16. CASE UNCHANGED configFileVars
    BY <1>16 DEF configFileVars
  <1>17. QED
    BY <1>1, <1>2, <1>3, <1>4, <1>5, <1>6, <1>7, <1>8, <1>9, <1>10, <1>11, <1>12, <1>13, <1>14, <1>15, <1>16
       DEF Next, Reload, FinishSave, FailSave

-----------------------------------------------------------------------------
(* Nobody's save is written over *)

LEMMA AskedStep ==
    ASSUME TypeOK, LockHeld, LinesAreAsked, [Next]_configFileVars
    PROVE  LinesAreAsked'
  <1> USE FileAssumption
  <1> USE DEF TypeOK, LockHeld, LinesAreAsked, fileVars, configVars, writerVars, readerVars,
          consumerVars, historyVars
  <1>1. ASSUME NEW r \in Readers, Poll(r) PROVE LinesAreAsked'
    BY <1>1 DEF Poll, After
  <1>2. ASSUME NEW r \in Readers, Parse(r) PROVE LinesAreAsked'
    BY <1>2, ReadableType DEF Parse
  <1>3. ASSUME NEW r \in Readers, ParseFails(r) PROVE LinesAreAsked'
    BY <1>3 DEF ParseFails, After
  <1>4. ASSUME NEW r \in Readers, Install(r) PROVE LinesAreAsked'
    BY <1>4 DEF Install, After
  <1>5. CASE Compare
    BY <1>5 DEF Compare
  <1>6. CASE Apply \/ SetUp
    BY <1>6 DEF Apply, SetUp, Taking
  <1>7. ASSUME NEW w \in Writers, NEW u \in Updates, BeginSave(w, u) PROVE LinesAreAsked'
    BY <1>7, ReadableType DEF BeginSave
  <1>8. ASSUME NEW w \in Writers, Replace(w) PROVE LinesAreAsked'
    BY <1>8 DEF Replace
  <1>9. ASSUME NEW w \in Writers, ReplaceFails(w) PROVE LinesAreAsked'
    BY <1>9 DEF ReplaceFails
  <1>10. ASSUME NEW w \in Writers, Reopen(w) PROVE LinesAreAsked'
    BY <1>10 DEF Reopen
  <1>11. ASSUME NEW w \in Writers, Reread(w) PROVE LinesAreAsked'
    BY <1>11, ReadableType DEF Reread
  <1>12. ASSUME NEW w \in Writers, RereadFails(w) PROVE LinesAreAsked'
    BY <1>12, ReadableType DEF RereadFails
  <1>13. ASSUME NEW w \in Writers, Stamp(w) PROVE LinesAreAsked'
    BY <1>13 DEF Stamp
  <1>14. ASSUME NEW u \in Updates, BeginEdit(u) PROVE LinesAreAsked'
    BY <1>14 DEF BeginEdit, Rewriting, Stamping
  <1>15. CASE EndEdit
    BY <1>15 DEF EndEdit, Stamping
  <1>16. CASE UNCHANGED configFileVars
    BY <1>16 DEF configFileVars
  <1>17. QED
    BY <1>1, <1>2, <1>3, <1>4, <1>5, <1>6, <1>7, <1>8, <1>9, <1>10, <1>11, <1>12, <1>13, <1>14, <1>15, <1>16
       DEF Next, Reload, FinishSave, FailSave

-----------------------------------------------------------------------------
(* The detector catches up *)

LEMMA ApplyStep ==
    ASSUME TypeOK, LockHeld, Times, WillApply, [Next]_configFileVars
    PROVE  WillApply'
  <1> USE FileAssumption
  <1> USE DEF TypeOK, LockHeld, Times, WillApply, fileVars, configVars, writerVars, readerVars,
          consumerVars, historyVars
  <1>1. ASSUME NEW r \in Readers, Poll(r) PROVE WillApply'
    BY <1>1 DEF Poll, After
  <1>2. ASSUME NEW r \in Readers, Parse(r) PROVE WillApply'
    BY <1>2, ReadableType DEF Parse
  <1>3. ASSUME NEW r \in Readers, ParseFails(r) PROVE WillApply'
    BY <1>3 DEF ParseFails, After
  <1>4. ASSUME NEW r \in Readers, Install(r) PROVE WillApply'
    BY <1>4 DEF Install, After
  <1>5. CASE Compare
    BY <1>5 DEF Compare
  <1>6. CASE Apply \/ SetUp
    BY <1>6 DEF Apply, SetUp, Taking
  <1>7. ASSUME NEW w \in Writers, NEW u \in Updates, BeginSave(w, u) PROVE WillApply'
    BY <1>7, ReadableType DEF BeginSave
  <1>8. ASSUME NEW w \in Writers, Replace(w) PROVE WillApply'
    BY <1>8 DEF Replace
  <1>9. ASSUME NEW w \in Writers, ReplaceFails(w) PROVE WillApply'
    BY <1>9 DEF ReplaceFails
  <1>10. ASSUME NEW w \in Writers, Reopen(w) PROVE WillApply'
    BY <1>10 DEF Reopen
  <1>11. ASSUME NEW w \in Writers, Reread(w) PROVE WillApply'
    BY <1>11, ReadableType DEF Reread
  <1>12. ASSUME NEW w \in Writers, RereadFails(w) PROVE WillApply'
    BY <1>12, ReadableType DEF RereadFails
  <1>13. ASSUME NEW w \in Writers, Stamp(w) PROVE WillApply'
    BY <1>13 DEF Stamp
  <1>14. ASSUME NEW u \in Updates, BeginEdit(u) PROVE WillApply'
    BY <1>14 DEF BeginEdit, Rewriting, Stamping
  <1>15. CASE EndEdit
    BY <1>15 DEF EndEdit, Stamping
  <1>16. CASE UNCHANGED configFileVars
    BY <1>16 DEF configFileVars
  <1>17. QED
    BY <1>1, <1>2, <1>3, <1>4, <1>5, <1>6, <1>7, <1>8, <1>9, <1>10, <1>11, <1>12, <1>13, <1>14, <1>15, <1>16
       DEF Next, Reload, FinishSave, FailSave

-----------------------------------------------------------------------------
(* The theorems *)

LEMMA InvStep ==
    ASSUME IInv, [Next]_configFileVars
    PROVE  IInv'
  BY TypeStep, LockTimesStep, ParsedStep, RereadStep, TruthStep, AskedStep, ApplyStep DEF IInv

\* The inductive invariant holds of every behaviour of the settings file.
THEOREM FileInvariant == Spec => []IInv
  <1>1. Init => IInv
    BY InitInv
  <1>2. IInv /\ [Next]_configFileVars => IInv'
    BY InvStep
  <1>3. QED
    BY <1>1, <1>2, PTL DEF Spec

\* The settings, times, locks and threads keep their types.
THEOREM FileTypeCorrect == Spec => []TypeOK
  <1>1. IInv => TypeOK
    BY DEF IInv
  <1>2. QED
    BY <1>1, FileInvariant, PTL

\* Whatever the threads of the service and the editor outside do and in whatever
\* order, a time that agrees with the file's means that the file is loaded -- unless
\* an outside save fell between a writer's read and its stamp (config.py 210-218).
THEOREM StampIsTrue == Spec => []StampTellsTruth
  <1>1. IInv => StampTellsTruth
    BY DEF IInv
  <1>2. QED
    BY <1>1, FileInvariant, PTL

\* Any number of requests and editors can save: no change is written over by a
\* request that had read the file before it (config.py 135-146), provided the
\* outside save does not fall while a request holds lines it has read.
THEOREM NoSaveIsLost == Spec => []SavesAreKept
  <1>1. IInv => SavesAreKept
    BY DEF IInv, LinesAreAsked, SavesAreKept, Rewriting
  <1>2. QED
    BY <1>1, FileInvariant, PTL

\* A detector that has seen the current generation works with what is loaded, as far as it
\* takes options over during a run: there is no route by which a change arrives and leaves
\* the generation alone (config.py 27-33 and detector.py 512-521), and no beginning of a run
\* that takes one back.
THEOREM GenerationTellsAll == Spec => []AppliedIsLoaded
  <1>1. IInv => AppliedIsLoaded
    <2> SUFFICES ASSUME IInv, seen = generation, mtime = stamp, lock = Free,
                        rAt[Consumer] # "apply"
                 PROVE  \A o \in Live : applied[o] = loaded[o]
      BY DEF AppliedIsLoaded
    <2>1. \A w \in Writers : wAt[w] # "stamp"
      BY FileAssumption DEF IInv, LockHeld
    <2>2. ~(seen < generation) /\ ~(mtime < stamp)
      BY DEF IInv, TypeOK
    <2>3. QED
      BY <2>1, <2>2 DEF IInv, WillApply
  <1>2. QED
    BY <1>1, FileInvariant, PTL

\* A detector that has caught up with a file nobody is changing works with what the file
\* says of the options it takes over during a run, for any options and any number of threads.
THEOREM AppliedIsDisk ==
    Spec => [](seen = generation /\ mtime = stamp /\ lock = Free /\ ~torn /\ ~blind
                   /\ rAt[Consumer] # "apply" => \A o \in Live : applied[o] = disk[o])
  <1>1. AppliedIsLoaded /\ StampTellsTruth =>
            (seen = generation /\ mtime = stamp /\ lock = Free /\ ~torn /\ ~blind
                   /\ rAt[Consumer] # "apply" => \A o \in Live : applied[o] = disk[o])
    BY DEF AppliedIsLoaded, StampTellsTruth
  <1>2. QED
    BY <1>1, GenerationTellsAll, StampIsTrue, PTL

-----------------------------------------------------------------------------
(* The settings page, the undetect zone and the detector *)

LEMMA MaskUpdateIsUpdate ==
    ASSUME NEW zone \in Scenes \cup {Default}, NEW sig \in Scenes \cup {Default}
    PROVE  MaskUpdate(zone, sig) \in Updates
  <1>1. Scenes \cup {Default} \subseteq Values /\ {Zone, Signature} \subseteq Options
    BY ZoneAssumption, FileAssumption
  <1>2. CASE sig = Default
    <2>1. MaskUpdate(zone, sig) \in [{Zone} -> Values] /\ {Zone} \in SUBSET Options
      BY <1>1, <1>2 DEF MaskUpdate
    <2>2. QED
      BY <2>1 DEF Updates
  <1>3. CASE sig # Default
    <2>1. MaskUpdate(zone, sig) \in [{Zone, Signature} -> Values]
      BY <1>1, <1>3 DEF MaskUpdate
    <2>2. {Zone, Signature} \in SUBSET Options
      BY <1>1
    <2>3. QED
      BY <2>1, <2>2 DEF Updates
  <1>4. QED
    BY <1>2, <1>3

LEMMA OneUpdate ==
    ASSUME NEW o \in Options, NEW v \in Values
    PROVE  [p \in {o} |-> v] \in Updates
  <1>1. [p \in {o} |-> v] \in [{o} -> Values] /\ {o} \in SUBSET Options
    OBVIOUS
  <1>2. QED
    BY <1>1 DEF Updates

\* The sections still to be written are options, and the scenes delivered scenes.
PageInv ==
    /\ saving \in Seq(Options)
    /\ scene \in Scenes
    /\ delivered \subseteq Scenes
    /\ fits \in BOOLEAN /\ warned \in BOOLEAN

LEMMA PageInit == ZoneInit => PageInv
  <1> SUFFICES ASSUME ZoneInit PROVE PageInv
    OBVIOUS
  <1>1. saving \in Seq(Options)
    BY DEF ZoneInit
  <1>2. scene \in Scenes /\ delivered \subseteq Scenes
    BY ZoneAssumption DEF ZoneInit
  <1>3. fits \in BOOLEAN /\ warned \in BOOLEAN
    BY Zenon DEF ZoneInit
  <1>4. QED
    BY <1>1, <1>2, <1>3 DEF PageInv

LEMMA PageStep == PageInv /\ [ZoneNext]_vars => PageInv'
  <1> SUFFICES ASSUME PageInv, [ZoneNext]_vars PROVE PageInv'
    OBVIOUS
  <1> USE ZoneAssumption
  <1> USE DEF PageInv, sceneVars, zoneVars
  <1>0. Sections \in Seq(Options) /\ Sections # <<>>
    <2>1. Seq(Options \ {Zone, Signature}) \subseteq Seq(Options)
      OBVIOUS
    <2>2. QED
      BY <2>1
  <1>1. CASE FileStep
    BY <1>1 DEF FileStep
  <1>2. CASE SaveMask
    BY <1>2 DEF SaveMask
  <1>3. CASE SaveSection
    <2>1. Unsaved \in Seq(Options) /\ Unsaved # <<>>
      BY <1>0 DEF Unsaved
    <2>2. Tail(Unsaved) \in Seq(Options)
      BY <2>1
    <2>3. QED
      BY <1>3, <2>2 DEF SaveSection
  <1>4. CASE RejectSection
    BY <1>4 DEF RejectSection
  <1>5. CASE ChangeScene
    BY <1>5 DEF ChangeScene
  <1>6. CASE DecodeFrame
    <2>1. Matches(loaded[Signature], scene) \in BOOLEAN
      BY DEF Matches
    <2>2. fits' \in BOOLEAN /\ warned' \in BOOLEAN
      BY <1>6, <2>1, Zenon DEF DecodeFrame, CheckMaskFits
    <2>3. QED
      BY <1>6, <2>2 DEF DecodeFrame
  <1>7. CASE \E w \in Writers : SaveFails(w)
    BY <1>7 DEF SaveFails
  <1>8. CASE UNCHANGED vars
    BY <1>8 DEF vars
  <1>9. QED
    BY <1>1, <1>2, <1>3, <1>4, <1>5, <1>6, <1>7, <1>8 DEF ZoneNext

\* A step of the page, the camera or the detector is a step of the settings file
\* or leaves it as it is.
LEMMA FileStepOfZoneStep ==
    ASSUME PageInv, [ZoneNext]_vars
    PROVE  [Next]_configFileVars
  <1> USE ZoneAssumption
  <1>1. CASE FileStep
    <2>1. ASSUME NEW v \in EditorValues, NEW o \in Options \ {Zone, Signature},
                 BeginEdit([p \in {o} |-> v])
          PROVE  Next
      <3>1. [p \in {o} |-> v] \in Updates
        BY OneUpdate
      <3>2. QED
        BY <2>1, <3>1 DEF Next
    <2>2. QED
      BY <1>1, <2>1 DEF FileStep, Next
  <1>2. CASE SaveMask
    <2>1. PICK zone \in {scene, Default}, sig \in PageSignatures :
              BeginSave("mask", MaskUpdate(zone, sig))
      BY <1>2 DEF SaveMask
    <2>2. MaskUpdate(zone, sig) \in Updates
      BY MaskUpdateIsUpdate DEF PageInv, PageSignatures
    <2>3. QED
      BY <2>1, <2>2 DEF Next
  <1>3. CASE SaveSection
    <2>1. Sections \in Seq(Options) /\ Sections # <<>>
      <3>1. Seq(Options \ {Zone, Signature}) \subseteq Seq(Options)
        OBVIOUS
      <3>2. QED
        BY <3>1
    <2>2. Head(Unsaved) \in Options
      <3>1. Unsaved \in Seq(Options) /\ Unsaved # <<>>
        BY <2>1 DEF Unsaved, PageInv
      <3>2. QED
        BY <3>1
    <2>3. PICK v \in PageValues : BeginSave("settings", [o \in {Head(Unsaved)} |-> v])
      BY <1>3 DEF SaveSection
    <2>4. [o \in {Head(Unsaved)} |-> v] \in Updates
      BY <2>2, OneUpdate
    <2>5. QED
      BY <2>3, <2>4 DEF Next
  <1>4. CASE RejectSection \/ ChangeScene \/ DecodeFrame \/ UNCHANGED vars
    BY <1>4 DEF RejectSection, ChangeScene, DecodeFrame, vars
  <1>5. CASE \E w \in Writers : SaveFails(w)
    BY <1>5 DEF SaveFails, Next
  <1>6. QED
    BY <1>1, <1>2, <1>3, <1>4, <1>5 DEF ZoneNext

\* However the settings page, the editor, the camera and the detector are used, the
\* settings file goes through nothing but what ConfigFile describes.
THEOREM ZoneUsesFile == ZoneSpec => Spec
  <1>1. ZoneInit => Init /\ PageInv
    BY PageInit DEF ZoneInit
  <1>2. PageInv /\ [ZoneNext]_vars => [Next]_configFileVars
    BY FileStepOfZoneStep
  <1>3. QED
    BY <1>1, <1>2, PageStep, PTL DEF ZoneSpec, Spec

\* Every variable of the composition keeps its type.
THEOREM ZoneTypeCorrect == ZoneSpec => []ZoneTypeOK
  <1>1. ZoneInit => PageInv
    BY PageInit
  <1>2. TypeOK /\ PageInv => ZoneTypeOK
    BY DEF PageInv, ZoneTypeOK
  <1>3. QED
    BY <1>1, <1>2, PageStep, ZoneUsesFile, FileTypeCorrect, PTL DEF ZoneSpec

\* However zones, settings and edits interleave, the file is loaded as it is, no save is
\* lost, and a detector that has caught up blacks out the zone that is loaded.
THEOREM ZoneFileIsTrue ==
    ZoneSpec =>
        [](/\ StampTellsTruth /\ SavesAreKept
           /\ seen = generation /\ mtime = stamp /\ lock = Free /\ rAt[Consumer] # "apply"
                => applied[Zone] = loaded[Zone])
  <1>1. AppliedIsLoaded =>
            (seen = generation /\ mtime = stamp /\ lock = Free /\ rAt[Consumer] # "apply"
                => applied[Zone] = loaded[Zone])
    BY ZoneAssumption DEF AppliedIsLoaded
  <1>2. QED
    BY <1>1, ZoneUsesFile, StampIsTrue, NoSaveIsLost, GenerationTellsAll, PTL
=============================================================================
