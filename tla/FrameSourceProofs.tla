------------------------- MODULE FrameSourceProofs -------------------------
(***************************************************************************)
(* Every camera source keeps what FrameFeed promises, for any number of    *)
(* waiters and frames, and counts what it drops.                           *)
(***************************************************************************)
EXTENDS FrameSource, TLAPS, FiniteSetTheorems

\* The thread of a file is the clock, and a file does not fail.
KindInv ==
    /\ kind = "file" => failed = 0 /\ reader \in {"none", "clock"}
    /\ reader = "clock" => kind = "file"
    /\ reader = "none" => sequence = 0
    /\ \A w \in Waiters : wAt[w] = "numbering" => kind = "file"

\* What is in the slot is the newest frame and younger than the last failure.
SlotInv ==
    /\ failed <= sequence
    /\ slot = 0 \/ (slot = sequence /\ slot > failed)

\* The last frame yielded tells whether the one in the slot was taken.
TakenInv ==
    /\ lastYielded <= sequence
    /\ \A n \in taken \cup unread : n <= sequence
    /\ Threaded /\ slot # 0 => (slot > lastYielded <=> slot \notin taken)
    /\ {0, slot} \cap unread = {}
    /\ IsFiniteSet(unread)
    /\ dropped = Cardinality(unread)

LEMMA TypeInit == Init => TypeOK
  <1> SUFFICES ASSUME Init PROVE TypeOK
    OBVIOUS
  <1>1. kind \in {"stream", "snapshot", "file"}
    BY DEF Init, KindOf
  <1>2. QED
    BY <1>1 DEF Init, TypeOK

LEMMA TypeStep ==
    ASSUME TypeOK, [Next]_vars
    PROVE  TypeOK'
  <1> USE SourceAssumption
  <1> USE DEF TypeOK,
          slotVars, readerVars, waiterVars, closeVars, historyVars
  <1>1. CASE StartReader
    BY <1>1 DEF StartReader
  <1>2. CASE StartFile
    BY <1>2 DEF StartFile
  <1>3. CASE Tick
    BY <1>3 DEF Tick
  <1>4. CASE Connect
    BY <1>4 DEF Connect
  <1>29. CASE Connected
    BY <1>29 DEF Connected
  <1>5. CASE ConnectFails
    BY <1>5 DEF ConnectFails, Clear, Fault
  <1>6. CASE Chunk
    BY <1>6 DEF Chunk
  <1>7. CASE EndChunk
    BY <1>7 DEF EndChunk
  <1>8. CASE EndOfStream
    BY <1>8 DEF EndOfStream, Fault
  <1>9. CASE ReadFails
    BY <1>9 DEF ReadFails, Clear, Fault
  <1>10. CASE Receive
    BY <1>10 DEF Receive
  <1>11. CASE Publish
    BY <1>11 DEF Publish, AfterPublish
  <1>12. CASE PublishClosed
    BY <1>12 DEF PublishClosed, AfterPublish
  <1>13. CASE InvalidPart
    BY <1>13 DEF InvalidPart, Fault
  <1>14. CASE FetchFails
    BY <1>14 DEF FetchFails, Clear, Fault
  <1>15. CASE Resume
    BY <1>15 DEF Resume
  <1>16. CASE ReaderEnds
    BY <1>16 DEF ReaderEnds
  <1>17. ASSUME NEW w \in Waiters, Call(w) PROVE TypeOK'
    BY <1>17 DEF Call
  <1>18. ASSUME NEW w \in Waiters, TakeSlot(w) PROVE TypeOK'
    BY <1>18 DEF TakeSlot, Return
  <1>19. ASSUME NEW w \in Waiters, LookAtFile(w) PROVE TypeOK'
    BY <1>19 DEF LookAtFile
  <1>20. ASSUME NEW w \in Waiters, NumberFile(w) PROVE TypeOK'
    BY <1>20 DEF NumberFile, Return
  <1>21. ASSUME NEW w \in Waiters, NotDue(w) PROVE TypeOK'
    BY <1>21 DEF NotDue
  <1>22. ASSUME NEW w \in Waiters, GiveUp(w) PROVE TypeOK'
    BY <1>22 DEF GiveUp
  <1>23. CASE CloseSlot
    BY <1>23 DEF CloseSlot
  <1>24. CASE SetStop
    BY <1>24 DEF SetStop
  <1>25. CASE Interrupt
    BY <1>25 DEF Interrupt
  <1>26. CASE Join
    BY <1>26 DEF Join
  <1>27. CASE UNCHANGED vars
    BY <1>27 DEF vars
  <1>28. QED
    BY <1>1, <1>2, <1>3, <1>4, <1>5, <1>6, <1>7, <1>8, <1>9, <1>10, <1>11, <1>12, <1>13, <1>14,
       <1>15, <1>16, <1>17, <1>18, <1>19, <1>20, <1>21, <1>22, <1>23, <1>24, <1>25, <1>26, <1>27, <1>29
       DEF Next, Read, Wait, Close

LEMMA KindStep ==
    ASSUME TypeOK, KindInv, [Next]_vars
    PROVE  KindInv'
  <1> USE SourceAssumption
  <1> USE DEF TypeOK, KindInv, Threaded,
          slotVars, readerVars, waiterVars, closeVars, historyVars
  <1>1. CASE StartReader
    BY <1>1 DEF StartReader
  <1>2. CASE StartFile
    BY <1>2 DEF StartFile
  <1>3. CASE Tick
    BY <1>3 DEF Tick
  <1>4. CASE Connect
    BY <1>4 DEF Connect
  <1>29. CASE Connected
    BY <1>29 DEF Connected
  <1>5. CASE ConnectFails
    BY <1>5 DEF ConnectFails, Clear, Fault
  <1>6. CASE Chunk
    BY <1>6 DEF Chunk
  <1>7. CASE EndChunk
    BY <1>7 DEF EndChunk
  <1>8. CASE EndOfStream
    BY <1>8 DEF EndOfStream, Fault
  <1>9. CASE ReadFails
    BY <1>9 DEF ReadFails, Clear, Fault
  <1>10. CASE Receive
    BY <1>10 DEF Receive
  <1>11. CASE Publish
    BY <1>11 DEF Publish, AfterPublish
  <1>12. CASE PublishClosed
    BY <1>12 DEF PublishClosed, AfterPublish
  <1>13. CASE InvalidPart
    BY <1>13 DEF InvalidPart, Fault
  <1>14. CASE FetchFails
    BY <1>14 DEF FetchFails, Clear, Fault
  <1>15. CASE Resume
    BY <1>15 DEF Resume
  <1>16. CASE ReaderEnds
    BY <1>16 DEF ReaderEnds
  <1>17. ASSUME NEW w \in Waiters, Call(w) PROVE KindInv'
    BY <1>17 DEF Call
  <1>18. ASSUME NEW w \in Waiters, TakeSlot(w) PROVE KindInv'
    BY <1>18 DEF TakeSlot, Return
  <1>19. ASSUME NEW w \in Waiters, LookAtFile(w) PROVE KindInv'
    BY <1>19 DEF LookAtFile
  <1>20. ASSUME NEW w \in Waiters, NumberFile(w) PROVE KindInv'
    BY <1>20 DEF NumberFile, Return
  <1>21. ASSUME NEW w \in Waiters, NotDue(w) PROVE KindInv'
    BY <1>21 DEF NotDue
  <1>22. ASSUME NEW w \in Waiters, GiveUp(w) PROVE KindInv'
    BY <1>22 DEF GiveUp
  <1>23. CASE CloseSlot
    BY <1>23 DEF CloseSlot
  <1>24. CASE SetStop
    BY <1>24 DEF SetStop
  <1>25. CASE Interrupt
    BY <1>25 DEF Interrupt
  <1>26. CASE Join
    BY <1>26 DEF Join
  <1>27. CASE UNCHANGED vars
    BY <1>27 DEF vars
  <1>28. QED
    BY <1>1, <1>2, <1>3, <1>4, <1>5, <1>6, <1>7, <1>8, <1>9, <1>10, <1>11, <1>12, <1>13, <1>14,
       <1>15, <1>16, <1>17, <1>18, <1>19, <1>20, <1>21, <1>22, <1>23, <1>24, <1>25, <1>26, <1>27, <1>29
       DEF Next, Read, Wait, Close

LEMMA SlotStep ==
    ASSUME TypeOK, KindInv, SlotInv, [Next]_vars
    PROVE  SlotInv'
  <1> USE SourceAssumption
  <1> USE DEF TypeOK, KindInv, SlotInv, Threaded,
          slotVars, readerVars, waiterVars, closeVars, historyVars
  <1>1. CASE StartReader
    BY <1>1 DEF StartReader
  <1>2. CASE StartFile
    BY <1>2 DEF StartFile
  <1>3. CASE Tick
    BY <1>3 DEF Tick
  <1>4. CASE Connect
    BY <1>4 DEF Connect
  <1>29. CASE Connected
    BY <1>29 DEF Connected
  <1>5. CASE ConnectFails
    BY <1>5 DEF ConnectFails, Clear, Fault
  <1>6. CASE Chunk
    BY <1>6 DEF Chunk
  <1>7. CASE EndChunk
    BY <1>7 DEF EndChunk
  <1>8. CASE EndOfStream
    BY <1>8 DEF EndOfStream, Fault
  <1>9. CASE ReadFails
    BY <1>9 DEF ReadFails, Clear, Fault
  <1>10. CASE Receive
    BY <1>10 DEF Receive
  <1>11. CASE Publish
    BY <1>11 DEF Publish, AfterPublish
  <1>12. CASE PublishClosed
    BY <1>12 DEF PublishClosed, AfterPublish
  <1>13. CASE InvalidPart
    BY <1>13 DEF InvalidPart, Fault
  <1>14. CASE FetchFails
    BY <1>14 DEF FetchFails, Clear, Fault
  <1>15. CASE Resume
    BY <1>15 DEF Resume
  <1>16. CASE ReaderEnds
    BY <1>16 DEF ReaderEnds
  <1>17. ASSUME NEW w \in Waiters, Call(w) PROVE SlotInv'
    BY <1>17 DEF Call
  <1>18. ASSUME NEW w \in Waiters, TakeSlot(w) PROVE SlotInv'
    BY <1>18 DEF TakeSlot, Return
  <1>19. ASSUME NEW w \in Waiters, LookAtFile(w) PROVE SlotInv'
    BY <1>19 DEF LookAtFile
  <1>20. ASSUME NEW w \in Waiters, NumberFile(w) PROVE SlotInv'
    BY <1>20 DEF NumberFile, Return
  <1>21. ASSUME NEW w \in Waiters, NotDue(w) PROVE SlotInv'
    BY <1>21 DEF NotDue
  <1>22. ASSUME NEW w \in Waiters, GiveUp(w) PROVE SlotInv'
    BY <1>22 DEF GiveUp
  <1>23. CASE CloseSlot
    BY <1>23 DEF CloseSlot
  <1>24. CASE SetStop
    BY <1>24 DEF SetStop
  <1>25. CASE Interrupt
    BY <1>25 DEF Interrupt
  <1>26. CASE Join
    BY <1>26 DEF Join
  <1>27. CASE UNCHANGED vars
    BY <1>27 DEF vars
  <1>28. QED
    BY <1>1, <1>2, <1>3, <1>4, <1>5, <1>6, <1>7, <1>8, <1>9, <1>10, <1>11, <1>12, <1>13, <1>14,
       <1>15, <1>16, <1>17, <1>18, <1>19, <1>20, <1>21, <1>22, <1>23, <1>24, <1>25, <1>26, <1>27, <1>29
       DEF Next, Read, Wait, Close

-----------------------------------------------------------------------------
(* The frames nobody has taken *)

LEMMA TakenStep ==
    ASSUME TypeOK, KindInv, SlotInv, TakenInv, [Next]_vars
    PROVE  TakenInv'
  <1> USE SourceAssumption
  <1> USE DEF TypeOK, KindInv, SlotInv, TakenInv, Threaded,
          slotVars, readerVars, waiterVars, closeVars, historyVars
  <1>1. CASE StartReader
    BY <1>1 DEF StartReader
  <1>2. CASE StartFile
    BY <1>2 DEF StartFile
  <1>3. CASE Tick
    BY <1>3 DEF Tick
  <1>4. CASE Connect
    BY <1>4 DEF Connect
  <1>29. CASE Connected
    BY <1>29 DEF Connected
  <1>5. CASE ConnectFails
    BY <1>5 DEF ConnectFails, Clear, Fault
  <1>6. CASE Chunk
    BY <1>6 DEF Chunk
  <1>7. CASE EndChunk
    BY <1>7 DEF EndChunk
  <1>8. CASE EndOfStream
    BY <1>8 DEF EndOfStream, Fault
  <1>9. CASE ReadFails
    BY <1>9 DEF ReadFails, Clear, Fault
  <1>10. CASE Receive
    BY <1>10 DEF Receive
  <1>11. CASE Publish
    <2>1. slot' = sequence + 1 /\ slot' \notin taken \cup unread /\ slot' > lastYielded
      BY <1>11 DEF Publish
    <2>2. CASE slot \in taken \cup {0}
      <3>1. unread' = unread /\ dropped' = dropped
        BY <1>11, <2>2 DEF Publish
      <3>2. QED
        BY <1>11, <2>1, <3>1 DEF Publish, AfterPublish
    <2>3. CASE slot \notin taken \cup {0}
      <3>1. unread' = unread \cup {slot} /\ dropped' = dropped + 1
        BY <1>11, <2>3 DEF Publish
      <3>2. IsFiniteSet(unread') /\ Cardinality(unread') = Cardinality(unread) + 1
        BY <3>1, FS_AddElement
      <3>3. QED
        BY <1>11, <2>1, <3>1, <3>2 DEF Publish, AfterPublish
    <2>4. QED
      BY <2>2, <2>3
  <1>12. CASE PublishClosed
    BY <1>12 DEF PublishClosed, AfterPublish
  <1>13. CASE InvalidPart
    BY <1>13 DEF InvalidPart, Fault
  <1>14. CASE FetchFails
    BY <1>14 DEF FetchFails, Clear, Fault
  <1>15. CASE Resume
    BY <1>15 DEF Resume
  <1>16. CASE ReaderEnds
    BY <1>16 DEF ReaderEnds
  <1>17. ASSUME NEW w \in Waiters, Call(w) PROVE TakenInv'
    BY <1>17 DEF Call
  <1>18. ASSUME NEW w \in Waiters, TakeSlot(w) PROVE TakenInv'
    BY <1>18 DEF TakeSlot, Return
  <1>19. ASSUME NEW w \in Waiters, LookAtFile(w) PROVE TakenInv'
    BY <1>19 DEF LookAtFile
  <1>20. ASSUME NEW w \in Waiters, NumberFile(w) PROVE TakenInv'
    BY <1>20 DEF NumberFile, Return
  <1>21. ASSUME NEW w \in Waiters, NotDue(w) PROVE TakenInv'
    BY <1>21 DEF NotDue
  <1>22. ASSUME NEW w \in Waiters, GiveUp(w) PROVE TakenInv'
    BY <1>22 DEF GiveUp
  <1>23. CASE CloseSlot
    BY <1>23 DEF CloseSlot
  <1>24. CASE SetStop
    BY <1>24 DEF SetStop
  <1>25. CASE Interrupt
    BY <1>25 DEF Interrupt
  <1>26. CASE Join
    BY <1>26 DEF Join
  <1>27. CASE UNCHANGED vars
    BY <1>27 DEF vars
  <1>28. QED
    BY <1>1, <1>2, <1>3, <1>4, <1>5, <1>6, <1>7, <1>8, <1>9, <1>10, <1>11, <1>12, <1>13, <1>14,
       <1>15, <1>16, <1>17, <1>18, <1>19, <1>20, <1>21, <1>22, <1>23, <1>24, <1>25, <1>26, <1>27, <1>29
       DEF Next, Read, Wait, Close

-----------------------------------------------------------------------------
(* The theorems *)

IInv == TypeOK /\ KindInv /\ SlotInv /\ TakenInv

LEMMA InitInv == Init => IInv
  <1> SUFFICES ASSUME Init PROVE IInv
    OBVIOUS
  <1>1. KindInv /\ SlotInv
    BY DEF Init, KindInv, SlotInv
  <1>2. TakenInv
    BY FS_EmptySet DEF Init, TakenInv
  <1>3. QED
    BY <1>1, <1>2, TypeInit DEF IInv

\* The inductive invariant holds of every behaviour of a source.
THEOREM SourceInvariant == Spec => []IInv
  <1>1. Init => IInv
    BY InitInv
  <1>2. IInv /\ [Next]_vars => IInv'
    BY TypeStep, KindStep, SlotStep, TakenStep DEF IInv
  <1>3. QED
    BY <1>1, <1>2, PTL DEF Spec

\* The slot, the counters, the threads and the connection keep their types.
THEOREM SourceTypeCorrect == Spec => []TypeOK
  <1>1. IInv => TypeOK
    BY DEF IInv
  <1>2. QED
    BY <1>1, SourceInvariant, PTL

\* Whatever overtakes what, the counter of dropped frames is the number of frames
\* overwritten before anybody had them, and no frame is counted twice.
THEOREM DropsCounted == Spec => []DropsAreCounted
  <1>1. IInv => DropsAreCounted
    BY DEF IInv, TakenInv, DropsAreCounted
  <1>2. QED
    BY <1>1, SourceInvariant, PTL

Numbering == {w \in Waiters : wAt[w] = "numbering"}
feedVars == <<sequence, failed, cursor, Numbering, closed>>

LEMMA FeedInit == Init => Feed!Init
  BY DEF Init, Feed!Init

LEMMA FeedStep ==
    ASSUME IInv, [Next]_vars
    PROVE  [Feed!Next]_feedVars
  <1> USE SourceAssumption
  <1> USE DEF IInv, TypeOK, KindInv, SlotInv, Threaded, Feed!Next,
          slotVars, readerVars, waiterVars, closeVars, historyVars, feedVars, Numbering
  <1>1. CASE StartReader
    BY <1>1 DEF StartReader
  <1>2. CASE StartFile
    BY <1>2 DEF StartFile, Feed!Appear
  <1>3. CASE Tick
    BY <1>3 DEF Tick, Feed!Appear
  <1>4. CASE Connect
    BY <1>4 DEF Connect
  <1>29. CASE Connected
    BY <1>29 DEF Connected
  <1>5. CASE ConnectFails
    BY <1>5 DEF ConnectFails, Clear, Fault, Feed!Fail
  <1>6. CASE Chunk
    BY <1>6 DEF Chunk
  <1>7. CASE EndChunk
    BY <1>7 DEF EndChunk
  <1>8. CASE EndOfStream
    BY <1>8 DEF EndOfStream, Fault
  <1>9. CASE ReadFails
    BY <1>9 DEF ReadFails, Clear, Fault, Feed!Fail
  <1>10. CASE Receive
    BY <1>10 DEF Receive
  <1>11. CASE Publish
    BY <1>11 DEF Publish, AfterPublish, Feed!Appear
  <1>12. CASE PublishClosed
    BY <1>12 DEF PublishClosed, AfterPublish
  <1>13. CASE InvalidPart
    BY <1>13 DEF InvalidPart, Fault
  <1>14. CASE FetchFails
    BY <1>14 DEF FetchFails, Clear, Fault, Feed!Fail
  <1>15. CASE Resume
    BY <1>15 DEF Resume
  <1>16. CASE ReaderEnds
    BY <1>16 DEF ReaderEnds
  <1>17. ASSUME NEW w \in Waiters, Call(w) PROVE [Feed!Next]_feedVars
    BY <1>17 DEF Call
  <1>18. ASSUME NEW w \in Waiters, TakeSlot(w) PROVE [Feed!Next]_feedVars
    BY <1>18 DEF TakeSlot, Return, Feed!Get
  <1>19. ASSUME NEW w \in Waiters, LookAtFile(w) PROVE [Feed!Next]_feedVars
    BY <1>19 DEF LookAtFile, Feed!Enter
  <1>20. ASSUME NEW w \in Waiters, NumberFile(w) PROVE [Feed!Next]_feedVars
    <2>1. sequence > cursor[w] /\ sequence > failed
      BY <1>20 DEF NumberFile
    <2>2. Feed!Get(w)
      BY <1>20, <2>1 DEF NumberFile, Return, Feed!Get
    <2>3. QED
      BY <2>2
  <1>21. ASSUME NEW w \in Waiters, NotDue(w) PROVE [Feed!Next]_feedVars
    BY <1>21 DEF NotDue, Feed!Leave
  <1>22. ASSUME NEW w \in Waiters, GiveUp(w) PROVE [Feed!Next]_feedVars
    BY <1>22 DEF GiveUp
  <1>23. CASE CloseSlot
    BY <1>23 DEF CloseSlot, Feed!Shut
  <1>24. CASE SetStop
    BY <1>24 DEF SetStop
  <1>25. CASE Interrupt
    BY <1>25 DEF Interrupt
  <1>26. CASE Join
    BY <1>26 DEF Join
  <1>27. CASE UNCHANGED vars
    BY <1>27 DEF vars
  <1>28. QED
    BY <1>1, <1>2, <1>3, <1>4, <1>5, <1>6, <1>7, <1>8, <1>9, <1>10, <1>11, <1>12, <1>13, <1>14,
       <1>15, <1>16, <1>17, <1>18, <1>19, <1>20, <1>21, <1>22, <1>23, <1>24, <1>25, <1>26, <1>27, <1>29
       DEF Next, Read, Wait, Close

\* Streams, snapshots and files give their waiters what FrameFeed promises: the newest
\* frame, no frame twice, none older than the last failure, none from after the close but
\* for the one picture of a file whose waiter had got past the closed check before it.
THEOREM SourceImplementsFeed == Spec => ImplementsFeed
  <1>1. Init => Feed!Init
    BY FeedInit
  <1>2. IInv /\ [Next]_vars => [Feed!Next]_feedVars
    BY FeedStep
  <1>3. QED
    BY <1>1, <1>2, SourceInvariant, PTL DEF Spec, Feed!Spec, ImplementsFeed, feedVars, Numbering
=============================================================================
