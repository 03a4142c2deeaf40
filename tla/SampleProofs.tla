-------------------------- MODULE SampleProofs --------------------------
(***************************************************************************)
(* What the search of the counters and the two samples promise, for any    *)
(* number of counters, sessions, recordings and rounds.  In this order: a  *)
(* search is right about the counters that did not change while it read; a *)
(* recording that lives has a counter of its own; the publishing sample    *)
(* continues the recording it extends where that ends, and says that it    *)
(* stopped unexpectedly only if it did; when the measuring sample gets to a *)
(* stop or to its end, every round it timed is on the archive's disk.      *)
(***************************************************************************)
EXTENDS RecordingsProofs

\* A search is under way.
InSearch == reader.op \in Searches /\ reader.field # "done"

IsReader ==
    reader = [op |-> reader.op, sought |-> reader.sought, counterId |-> reader.counterId,
              field |-> reader.field, result |-> reader.result]

\* The counters before the one that is being read are not what is sought, and
\* of that one it is known what was read already; unless they were touched.
ReadSoFar ==
    /\ reader.counterId \in CounterIds
    /\ \A i \in CounterIds \ touched :
          i < reader.counterId => ~Matches(i, reader.op, reader.sought)
    /\ reader.counterId \notin touched =>
          /\ reader.field \in {"typeId", "key"} => counters[reader.counterId].state = "allocated"
          /\ reader.field = "key" => counters[reader.counterId].typeId = "recordingPos"

SearchInv == IsReader /\ (InSearch => ReadSoFar)

\* What a step of SearchIsRight is.
RightResult ==
    IF reader'.result = None
    THEN \A i \in CounterIds \ touched : ~Matches(i, reader.op, reader.sought)
    ELSE reader'.result \in touched \/ Matches(reader'.result, reader.op, reader.sought)

-----------------------------------------------------------------------------
\* A thread begins a search or a reading, or leaves the reader alone; it never
\* changes a counter.
Begins ==
    \/ \E op \in Searches : \E sought : Search(op, sought)
    \/ \E i : GetRecordingId(i)
    \/ UNCHANGED readerVars

LEMMA PublisherReads ==
    ASSUME PublisherStep
    PROVE  Begins /\ UNCHANGED counters
BY DEF PublisherStep, ListRecordings, Latest, AddExclusivePublication, AddPublication, StartOrExtend,
       FindCounter, FindAgain, Interrupted, Found, Show, Offer, AllOffered, AllRecorded, NotRecorded,
       AwaitAgain, ReportStopped, StopRecordingChannel, Finish, Fail, Begins, Searches, outside,
       recordingsVars, driverVars

LEMMA OperationReads ==
    ASSUME NEW t \in Threads, OperationStep(t)
    PROVE  Begins /\ UNCHANGED counters
BY DEF OperationStep, AddPublicationFor, AddExclusivePublicationFor, StartRecordingFor,
       ReturnPublication, NoPublicationFor, StopRecordingFor, StoppedFor, StartReplay, ReplayStarted,
       ReturnSubscription, NoSubscription, Begins, outside

LEMMA MainReads ==
    ASSUME MainStep
    PROVE  Begins /\ UNCHANGED counters
BY DEF MainStep, AskToRecord, Recording, AddRoundPublication, StoreIsRecording, StoreNoStop, Publish,
       StoreStopPosition, EndOfRound, Repeat, Quit, MainThrows, Join, Destroyed, Begins, outside,
       driverVars

LEMMA PollerReads ==
    ASSUME PollerStep
    PROVE  Begins /\ UNCHANGED counters
BY DEF PollerStep, Subscribe, SubscribeFails, PollEvents, EndOfThread, Started, Progress, Stopped,
       Rate, ClearIsRecording, UnknownEvent, EndOfPoll, TakeEvent, Begins, outside, driverVars

LEMMA StepReads ==
    ASSUME [Next]_vars
    PROVE  \/ Begins /\ UNCHANGED counters
           \/ ReadStep
           \/ Watch
<1>1. ASSUME Publishing \/ MeasuringMain \/ MeasuringPoller
      PROVE  Begins /\ UNCHANGED counters
    BY <1>1, PublisherReads, MainReads, PollerReads DEF Publishing, MeasuringMain, MeasuringPoller
<1>2. ASSUME NEW t \in Threads, Operating(t)
      PROVE  Begins /\ UNCHANGED counters
    BY <1>2, OperationReads DEF Operating
<1>3. ASSUME NEW t \in Threads, Searching(t)
      PROVE  Begins /\ UNCHANGED counters
    BY <1>3 DEF Searching, FindCounterByRecording, Begins, Searches, recordingsVars, driverVars
<1>4. ASSUME UNCHANGED vars
      PROVE  Begins /\ UNCHANGED counters
    BY <1>4 DEF vars, Begins, recordingsVars, driverVars
<1>5. ASSUME Reading
      PROVE  ReadStep
    BY <1>5 DEF Reading
<1>6. ASSUME Others
      PROVE  Watch
    BY <1>6 DEF Others, Seen
<1> QED
    BY <1>1, <1>2, <1>3, <1>4, <1>5, <1>6 DEF Next

-----------------------------------------------------------------------------
LEMMA CounterZero == 0 \in CounterIds
BY SizeAssumption DEF CounterIds

LEMMA BeginsKeeps ==
    ASSUME SearchInv, Begins, UNCHANGED counters
    PROVE  SearchInv' /\ (reader' # reader => reader'.field # "done")
<1>1. CASE \E op \in Searches : \E sought : Search(op, sought)
    BY <1>1, CounterZero DEF Search, SearchInv, IsReader, InSearch, ReadSoFar, CounterIds
<1>2. CASE \E i : GetRecordingId(i)
    BY <1>2 DEF GetRecordingId, SearchInv, IsReader, InSearch, Searches
<1>3. CASE UNCHANGED readerVars
    BY <1>3 DEF readerVars, SearchInv, IsReader, InSearch, ReadSoFar, Matches
<1> QED
    BY <1>1, <1>2, <1>3 DEF Begins

LEMMA WatchKeeps ==
    ASSUME SearchInv, Watch
    PROVE  SearchInv' /\ reader' = reader
<1>1. reader' = reader
    BY DEF Watch
<1>2. ASSUME InSearch, NEW i \in CounterIds \ touched'
      PROVE  /\ i \notin touched
             /\ counters'[i].state = counters[i].state /\ counters'[i].typeId = counters[i].typeId
             /\ counters'[i].recordingId = counters[i].recordingId
             /\ counters'[i].sessionId = counters[i].sessionId
    BY <1>2 DEF Watch, InSearch
<1>3. ASSUME InSearch
      PROVE  ReadSoFar'
    BY <1>1, <1>2, <1>3 DEF SearchInv, ReadSoFar, Matches, KeyOf
<1> QED
    BY <1>1, <1>3 DEF SearchInv, IsReader, InSearch

\* Where the counter that is being read is not the one that is sought.
LEMMA MissKeeps ==
    ASSUME SearchInv, Miss, UNCHANGED <<counters, touched>>, reader.field # "done",
           InSearch =>
             reader.counterId \in touched \/ ~Matches(reader.counterId, reader.op, reader.sought)
    PROVE  SearchInv' /\ (InSearch /\ reader'.field = "done" => RightResult)
<1>1. CASE reader.op = "getRecordingId" \/ IsLast(reader.counterId)
    <2>1. reader' = [op |-> reader.op, sought |-> reader.sought, counterId |-> reader.counterId,
                     field |-> "done", result |-> None]
        BY <1>1 DEF Miss, ReadReturns, SearchInv, IsReader
    <2>2. ASSUME InSearch, NEW i \in CounterIds \ touched
          PROVE  ~Matches(i, reader.op, reader.sought)
        <3>1. reader.counterId = LastCounterId
            BY <1>1, <2>2 DEF InSearch, Searches, IsLast
        <3>2. i < reader.counterId \/ i = reader.counterId
            BY <3>1, SizeAssumption DEF CounterIds
        <3> QED
            BY <2>2, <3>2 DEF SearchInv, ReadSoFar
    <2>3. InSearch => RightResult
        BY <2>1, <2>2 DEF RightResult
    <2> QED
        BY <2>1, <2>3 DEF SearchInv, IsReader, InSearch
<1>2. CASE ~(reader.op = "getRecordingId" \/ IsLast(reader.counterId))
    <2>1. reader' = [op |-> reader.op, sought |-> reader.sought, counterId |-> reader.counterId + 1,
                     field |-> "state", result |-> reader.result]
        BY <1>2 DEF Miss, SearchInv, IsReader
    <2>2. ASSUME reader.op \in Searches
          PROVE  ReadSoFar'
        <3>1. reader.counterId \in CounterIds /\ reader.counterId + 1 \in CounterIds
            BY <1>2, <2>2, SizeAssumption DEF SearchInv, InSearch, ReadSoFar, CounterIds, IsLast
        <3>2. ASSUME NEW i \in CounterIds \ touched, i < reader.counterId + 1
              PROVE  ~Matches(i, reader.op, reader.sought)
            <4>1. i < reader.counterId \/ i = reader.counterId
                BY <3>1, <3>2 DEF CounterIds
            <4> QED
                BY <2>2, <4>1 DEF SearchInv, InSearch, ReadSoFar
        <3> QED
            BY <2>1, <3>1, <3>2 DEF ReadSoFar, Matches
    <2> QED
        BY <2>1, <2>2 DEF SearchInv, IsReader, InSearch
<1> QED
    BY <1>1, <1>2

LEMMA FieldKeeps ==
    ASSUME SearchInv, NEW field \in {"typeId", "key"}, ReadField(field), UNCHANGED <<counters, touched>>,
           reader.field # "done",
           InSearch => \/ reader.counterId \in touched
                       \/ /\ counters[reader.counterId].state = "allocated"
                          /\ field = "key" => counters[reader.counterId].typeId = "recordingPos"
    PROVE  SearchInv' /\ reader'.field # "done"
<1>1. reader' = [op |-> reader.op, sought |-> reader.sought, counterId |-> reader.counterId,
                 field |-> field, result |-> reader.result]
    BY DEF ReadField, SearchInv, IsReader
<1> QED
    BY <1>1 DEF SearchInv, IsReader, InSearch, ReadSoFar, Matches

LEMMA ReadStepKeeps ==
    ASSUME SearchInv, ReadStep
    PROVE  SearchInv' /\ (InSearch /\ reader'.field = "done" => RightResult)
<1> DEFINE c == counters[reader.counterId]
<1>1. UNCHANGED <<counters, touched>>
    BY DEF ReadStep, recordingsVars, driverVars
<1>2. ASSUME ReadState
      PROVE  SearchInv' /\ (InSearch /\ reader'.field = "done" => RightResult)
    <2>1. CASE c.state = "allocated"
        BY <1>1, <1>2, <2>1, FieldKeeps DEF ReadState
    <2>2. CASE c.state # "allocated"
        BY <1>1, <1>2, <2>2, MissKeeps DEF ReadState, Matches
    <2> QED
        BY <2>1, <2>2
<1>3. ASSUME ReadTypeId
      PROVE  SearchInv' /\ (InSearch /\ reader'.field = "done" => RightResult)
    <2>1. CASE c.typeId = "recordingPos"
        BY <1>1, <1>3, <2>1, FieldKeeps DEF ReadTypeId, SearchInv, InSearch, ReadSoFar
    <2>2. CASE c.typeId # "recordingPos"
        BY <1>1, <1>3, <2>2, MissKeeps DEF ReadTypeId, Matches
    <2> QED
        BY <2>1, <2>2
<1>4. ASSUME ReadKey
      PROVE  SearchInv' /\ (InSearch /\ reader'.field = "done" => RightResult)
    <2>1. CASE reader.op # "getRecordingId" /\ KeyOf(c, reader.op) # reader.sought
        BY <1>1, <1>4, <2>1, MissKeeps DEF ReadKey, Matches
    <2>2. CASE reader.op = "getRecordingId"
        BY <1>4, <2>2 DEF ReadKey, ReadReturns, SearchInv, IsReader, InSearch, Searches
    <2>3. CASE reader.op # "getRecordingId" /\ KeyOf(c, reader.op) = reader.sought
        <3>1. reader' = [op |-> reader.op, sought |-> reader.sought, counterId |-> reader.counterId,
                         field |-> "done", result |-> reader.counterId]
            BY <1>4, <2>3 DEF ReadKey, ReadReturns, SearchInv, IsReader
        <3>2. InSearch => RightResult
            BY <1>4, <2>3, <3>1 DEF ReadKey, SearchInv, ReadSoFar, RightResult, Matches, CounterIds, None
        <3> QED
            BY <3>1, <3>2 DEF SearchInv, IsReader, InSearch
    <2> QED
        BY <2>1, <2>2, <2>3
<1> QED
    BY <1>2, <1>3, <1>4 DEF ReadStep

LEMMA StepIsRight ==
    ASSUME SearchInv, [Next]_vars
    PROVE  SearchInv' /\ (InSearch /\ reader'.field = "done" => RightResult)
<1>1. CASE Begins /\ UNCHANGED counters
    BY <1>1, BeginsKeeps DEF InSearch
<1>2. CASE ReadStep
    BY <1>2, ReadStepKeeps
<1>3. CASE Watch
    BY <1>3, WatchKeeps DEF InSearch
<1> QED
    BY <1>1, <1>2, <1>3, StepReads

\* findCounterIdBySession and findCounterIdByRecording, with the driver at work
\* between any two of their reads: a counter that is found was right if it did
\* not change meanwhile, and none that was there all the time is overlooked.
THEOREM SearchIsRightHolds == Spec => SearchIsRight
<1>1. Init => SearchInv
    BY DEF Init, NoReader, SearchInv, IsReader, InSearch
<1>2. SearchInv /\ [Next]_vars => SearchInv'
    BY StepIsRight
<1>3. SearchInv /\ [Next]_vars =>
        [ reader.op \in Searches /\ reader.field # "done" /\ reader'.field = "done" =>
            IF reader'.result = None
            THEN \A i \in CounterIds \ touched : ~Matches(i, reader.op, reader.sought)
            ELSE reader'.result \in touched \/ Matches(reader'.result, reader.op, reader.sought)
        ]_<<reader, touched, counters>>
    BY StepIsRight DEF InSearch, RightResult
<1> QED
    BY <1>1, <1>2, <1>3, PTL DEF Spec, SearchIsRight
-----------------------------------------------------------------------------
(***************************************************************************)
(* Recordings and their counters.  A recording that is live has a counter  *)
(* of its own, and a counter that counts a recording is of an active one.  *)
(***************************************************************************)
HasCounter(r) ==
    LET i == recordings[r].counter IN
    /\ i \in CounterIds
    /\ counters[i].typeId = "recordingPos" /\ counters[i].recordingId = r
    /\ counters[i].sessionId = recordings[r].session
    /\ counters[i].state = "allocated" <=> recordings[r].state = "active"

IsCounted(i) == \E r \in RecordingIds : recordings[r].state = "active" /\ recordings[r].counter = i

CounterInv ==
    /\ \A r \in RecordingIds : Live(r) => HasCounter(r)
    /\ \A i \in CounterIds :
          counters[i].state = "allocated" /\ counters[i].typeId = "recordingPos" => IsCounted(i)

\* What a step that is not of the archive's recordings leaves alone.
LEMMA RecordingKinds ==
    ASSUME TypeInv, [Next]_vars
    PROVE  UNCHANGED <<recordings, counters>> \/ RecordingStep \/ CounterStep(Sessions)
<1>1. ASSUME OwnChange
      PROVE  UNCHANGED <<recordings, counters>>
    BY <1>1 DEF OwnChange
<1>2. ASSUME Publishing \/ MeasuringMain \/ MeasuringPoller \/ \E t \in Threads : Operating(t) \/ Searching(t)
      PROVE  UNCHANGED <<recordings, counters>>
    BY <1>1, <1>2, PublisherChange, OperationsChange, SearchingKeepsType, MainChange, PollerChange
       DEF Publishing, MeasuringMain, MeasuringPoller, Operating, Searching
<1>3. ASSUME Reading \/ UNCHANGED vars
      PROVE  UNCHANGED <<recordings, counters>>
    BY <1>3 DEF Reading, ReadStep, vars, recordingsVars, archiveVars, driverVars
<1>4. ASSUME Others
      PROVE  UNCHANGED <<recordings, counters>> \/ RecordingStep \/ CounterStep(Sessions)
    <2>1. CASE CallStep
        BY <2>1 DEF CallStep, GiveUp, Serve, Refuse, ServeLate, OthersStop, archiveVars, driverVars
    <2>2. CASE EventStep \/ Interrupt
        BY <2>2 DEF EventStep, UnknownEventSent, OthersPublish, Interrupt, archiveVars, driverVars
    <2>3. CASE CounterStep(OwnSessions) \/ CounterStep({OtherSession})
        BY <2>3, ConstantFacts DEF CounterStep
    <2> QED
        BY <1>4, <2>1, <2>2, <2>3 DEF Others
<1> QED
    BY <1>2, <1>3, <1>4 DEF Next

LEMMA NewCounter ==
    ASSUME TypeInv, CounterInv, NEW s \in Sessions, StartRecording(s)
    PROVE  CounterInv'
<1>1. PICK r \in RecordingIds, i \in CounterIds :
        /\ MayRecordIn(r, s)
        /\ IsNext(i)
        /\ counters' = [counters EXCEPT ![i].typeId = "recordingPos", ![i].recordingId = r,
                                        ![i].sessionId = s, ![i].value = 0]
        /\ recordings' = [recordings EXCEPT ![r] =
                            [state |-> "starting", session |-> s, counter |-> i,
                             position |-> publications[s].position]]
    BY DEF StartRecording, WriteMetadata
<1>2. recordings \in [RecordingIds -> RecordingTypes] /\ counters \in [CounterIds -> CounterTypes]
    BY OutsideTypes
<1>3. recordings[r].state \in {"none", "stopped"}
    BY <1>1 DEF MayRecordIn, IsNew, IsExtendedBy
<1>4. counters[i].state # "allocated" /\ \A q \in RecordingIds : Live(q) => recordings[q].counter # i
    BY <1>1 DEF IsNext, InUse
<1>5. /\ recordings'[r].state = "starting" /\ recordings'[r].session = s /\ recordings'[r].counter = i
      /\ \A q \in RecordingIds \ {r} : recordings'[q] = recordings[q]
    BY <1>1, <1>2
<1>6. /\ counters'[i].typeId = "recordingPos" /\ counters'[i].recordingId = r /\ counters'[i].sessionId = s
      /\ counters'[i].state = counters[i].state
      /\ \A j \in CounterIds \ {i} : counters'[j] = counters[j]
    BY <1>1, <1>2 DEF CounterTypes
<1>7. ASSUME NEW q \in RecordingIds, Live(q)'
      PROVE  HasCounter(q)'
    <2>1. CASE q = r
        BY <1>4, <1>5, <1>6, <2>1 DEF HasCounter
    <2>2. CASE q # r
        BY <1>4, <1>5, <1>6, <1>7, <2>2 DEF CounterInv, HasCounter, Live
    <2> QED
        BY <2>1, <2>2
<1>8. ASSUME NEW j \in CounterIds, counters'[j].state = "allocated", counters'[j].typeId = "recordingPos"
      PROVE  IsCounted(j)'
    <2>1. j # i
        BY <1>4, <1>6, <1>8
    <2>2. IsCounted(j)
        BY <1>6, <1>8, <2>1 DEF CounterInv
    <2> QED
        BY <1>3, <1>5, <2>2 DEF IsCounted
<1> QED
    BY <1>7, <1>8 DEF CounterInv

LEMMA ArchivingKeepsCounters ==
    ASSUME TypeInv, CounterInv, NEW r \in RecordingIds, AllocateCounter(r) \/ Record(r) \/ StopRecording(r)
    PROVE  CounterInv'
<1> DEFINE i == recordings[r].counter
<1>1. recordings \in [RecordingIds -> RecordingTypes] /\ counters \in [CounterIds -> CounterTypes]
    BY OutsideTypes
<1>2. Live(r) /\ HasCounter(r)
    BY DEF AllocateCounter, Record, StopRecording, Live, CounterInv
<1>3. i \in CounterIds
    BY <1>2 DEF HasCounter
<1>4. /\ recordings'[r].session = recordings[r].session /\ recordings'[r].counter = i
      /\ \A q \in RecordingIds \ {r} : recordings'[q] = recordings[q]
    BY <1>1 DEF AllocateCounter, Record, StopRecording, RecordingTypes
<1>5. /\ counters'[i].typeId = counters[i].typeId /\ counters'[i].recordingId = counters[i].recordingId
      /\ counters'[i].sessionId = counters[i].sessionId
      /\ \A j \in CounterIds \ {i} : counters'[j] = counters[j]
    <2>1. CASE AllocateCounter(r)
        BY <1>1, <1>3, <2>1 DEF AllocateCounter, CounterTypes
    <2>2. CASE Record(r)
        BY <1>1, <1>3, <2>2 DEF Record, CounterTypes
    <2>3. CASE StopRecording(r)
        BY <1>1, <1>3, <2>3 DEF StopRecording, CounterTypes
    <2> QED
        BY <2>1, <2>2, <2>3
<1>6. /\ recordings'[r].state \in {"active", "stopped"}
      /\ counters'[i].state = "allocated" <=> recordings'[r].state = "active"
    <2>1. CASE AllocateCounter(r)
        BY <1>1, <1>3, <2>1 DEF AllocateCounter, CounterTypes, RecordingTypes
    <2>2. CASE Record(r)
        BY <1>1, <1>2, <1>3, <2>2 DEF Record, CounterTypes, RecordingTypes, HasCounter
    <2>3. CASE StopRecording(r)
        BY <1>1, <1>3, <2>3 DEF StopRecording, CounterTypes, RecordingTypes
    <2> QED
        BY <2>1, <2>2, <2>3
<1> HIDE DEF i
<1>7. i = recordings[r].counter
    BY DEF i
<1>8. ASSUME NEW q \in RecordingIds, Live(q)'
      PROVE  HasCounter(q)'
    <2>1. CASE q = r
        BY <1>2, <1>3, <1>4, <1>5, <1>6, <1>7, <2>1 DEF HasCounter
    <2>2. CASE q # r
        <3>1. Live(q) /\ HasCounter(q)
            BY <1>4, <1>8, <2>2 DEF CounterInv, Live
        <3>2. recordings[q].counter \in CounterIds \ {i}
            BY <1>2, <1>7, <2>2, <3>1 DEF HasCounter
        <3> QED
            BY <1>4, <1>5, <2>2, <3>1, <3>2 DEF HasCounter
    <2> QED
        BY <2>1, <2>2
<1>9. ASSUME NEW j \in CounterIds, counters'[j].state = "allocated", counters'[j].typeId = "recordingPos"
      PROVE  IsCounted(j)'
    <2>1. CASE j = i
        BY <1>4, <1>6, <1>9, <2>1 DEF IsCounted
    <2>2. CASE j # i
        <3>1. IsCounted(j)
            BY <1>5, <1>9, <2>2 DEF CounterInv
        <3> QED
            BY <1>4, <1>7, <2>2, <3>1 DEF IsCounted
    <2> QED
        BY <2>1, <2>2
<1> QED
    BY <1>8, <1>9 DEF CounterInv

LEMMA CountersStep ==
    ASSUME TypeInv, CounterInv, [Next]_vars
    PROVE  CounterInv'
<1>1. CASE UNCHANGED <<recordings, counters>>
    BY <1>1 DEF CounterInv, Live, HasCounter, IsCounted
<1>2. CASE RecordingStep
    BY <1>2, NewCounter, ArchivingKeepsCounters DEF RecordingStep
<1>3. ASSUME NEW i \in CounterIds, NEW s \in Sessions, OtherCounter(i, s)
      PROVE  CounterInv'
    <2>1. /\ recordings' = recordings
          /\ counters'[i].typeId = "other"
          /\ \A j \in CounterIds \ {i} : counters'[j] = counters[j]
        BY <1>3, OutsideTypes DEF OtherCounter, archiveVars
    <2>2. \A r \in RecordingIds : Live(r) => recordings[r].counter # i
        BY <1>3 DEF OtherCounter, IsNext, InUse
    <2> QED
        BY <2>1, <2>2 DEF CounterInv, Live, HasCounter, IsCounted
<1> QED
    BY <1>1, <1>2, <1>3, RecordingKinds DEF CounterStep

LEMMA CounterInit == Init => CounterInv
BY DEF Init, RecordingsInit, CounterInv, Live, NoRecording, UnusedCounter

\* What a step of the archive does to a recording.
LEMMA RecordingMoves ==
    ASSUME TypeInv, RecordingStep, NEW r \in RecordingIds
    PROVE  LET q == recordings[r]
               same == recordings'[r].session = q.session /\ recordings'[r].counter = q.counter
           IN
           \/ recordings'[r] = q
           \/ \E s \in Sessions :
                 /\ publications[s].state = "open" /\ MayRecordIn(r, s)
                 /\ recordings'[r].state = "starting" /\ recordings'[r].session = s
                 /\ recordings'[r].position = publications[s].position
           \/ /\ q.state = "starting" /\ recordings'[r].state = "active"
              /\ same /\ recordings'[r].position = q.position
           \/ /\ q.state = "active" /\ recordings'[r].state = "active"
              /\ same /\ q.position < publications[q.session].position
              /\ recordings'[r].position = q.position + 1
           \/ /\ q.state = "active" /\ recordings'[r].state = "stopped"
              /\ same /\ recordings'[r].position = q.position
              /\ ~Wanted(q.session) \/ publications[q.session].state = "closed"
<1> DEFINE q == recordings[r]
           same == recordings'[r].session = q.session /\ recordings'[r].counter = q.counter
<1>1. recordings \in [RecordingIds -> RecordingTypes]
    BY OutsideTypes
<1>2. ASSUME NEW s \in Sessions, StartRecording(s)
      PROVE  \/ recordings'[r] = q
             \/ /\ publications[s].state = "open" /\ MayRecordIn(r, s)
                /\ recordings'[r].state = "starting" /\ recordings'[r].session = s
                /\ recordings'[r].position = publications[s].position
    <2>1. PICK p \in RecordingIds, i \in CounterIds :
            /\ MayRecordIn(p, s)
            /\ recordings' = [recordings EXCEPT ![p] =
                                [state |-> "starting", session |-> s, counter |-> i,
                                 position |-> publications[s].position]]
        BY <1>2 DEF StartRecording
    <2>2. publications[s].state = "open"
        BY <1>2 DEF StartRecording
    <2> QED
        BY <1>1, <2>1, <2>2
<1>3. ASSUME NEW p \in RecordingIds, AllocateCounter(p)
      PROVE  \/ recordings'[r] = q
             \/ /\ q.state = "starting" /\ recordings'[r].state = "active"
                /\ same /\ recordings'[r].position = q.position
    BY <1>1, <1>3 DEF AllocateCounter, RecordingTypes
<1>4. ASSUME NEW p \in RecordingIds, Record(p)
      PROVE  \/ recordings'[r] = q
             \/ /\ q.state = "active" /\ recordings'[r].state = "active"
                /\ same /\ q.position < publications[q.session].position
                /\ recordings'[r].position = q.position + 1
    BY <1>1, <1>4 DEF Record, RecordingTypes
<1>5. ASSUME NEW p \in RecordingIds, StopRecording(p)
      PROVE  \/ recordings'[r] = q
             \/ /\ q.state = "active" /\ recordings'[r].state = "stopped"
                /\ same /\ recordings'[r].position = q.position
                /\ ~Wanted(q.session) \/ publications[q.session].state = "closed"
    BY <1>1, <1>5 DEF StopRecording, RecordingTypes
<1> QED
    BY <1>2, <1>3, <1>4, <1>5 DEF RecordingStep

-----------------------------------------------------------------------------
(***************************************************************************)
(* RecordedBasicPublisher.                                                 *)
(***************************************************************************)
\* The positions of a stream whose terms are numbered with std::int32_t.
Fits == 0..(2^TermBits * Half - 1)

ExtendInv ==
    /\ program # "publisher" => ~extendRecording
    /\ program = "publisher" =>
         /\ pc[Main] \in {"list", "listed", "add"} =>
              /\ \A s \in OwnSessions : publications[s].state = "none"
              /\ publications[OtherSession].position = 0
              /\ \A r \in RecordingIds :
                    /\ recordings[r].position \in Fits
                    /\ Live(r) => recordings[r].session = OtherSession
         /\ pc[Main] = "listed" =>
              \A n \in 1..Len(calls[Main].listing) :
                 calls[Main].listing[n].stopPosition \in Fits \cup {None}
         /\ pc[Main] = "add" => recording.stopPosition \in Fits \cup {None}
         /\ ExtensionContinues

Before == {"list", "listed", "add", "start"}
Working == {"started", "find", "recordingId", "offer", "await", "isActive", "reported"}
Publishes == {"start", "started", "find", "recordingId", "offer", "await", "isActive"}

\* The calls of main(): one at a time, and what was given up is over.
CallsInv ==
    /\ \A t \in Threads \ {Main} : calls[t].status = "none"
    /\ calls[Main].status # "none" =>
         \/ pc[Main] = "listed" /\ calls[Main].op = "list"
         \/ /\ pc[Main] = "started"
            /\ Extends => calls[Main].op = "extend" /\ calls[Main].key = AnySession
                          /\ (calls[Main].status = "asked" => calls[Main].id = recording.recordingId)
         \/ pc[Main] = "stopping"
    /\ \/ late = {} \/ pc[Main] = "done"
       \/ calls[Main].status = "failed" /\ \A c \in late : c.op = calls[Main].op

\* When the sample extends a recording its session is recorded nowhere else.
OnlyExtension ==
    /\ pc[Main] \in Before =>
         /\ AnySession \notin subscribed /\ subscribed \cap OwnSessions = {}
         /\ \A r \in RecordingIds : recordings[r].session \notin OwnSessions
    /\ pc[Main] \in Working /\ Extends /\ calls[Main].status # "failed" =>
         /\ subscribed \cap OwnSessions = {}
         /\ AnySession \in subscribed => extending = recording.recordingId
         /\ \A r \in RecordingIds : recordings[r].session \in OwnSessions => r = recording.recordingId

\* The counter that was found is the recording's until somebody stops it, and
\* then it stays stopped.
IsCountedBy(i) ==
    LET r == recordings[recording.recordingId] IN
    r.state = "active" /\ r.session = session /\ r.counter = i
IsStopped == recordings[recording.recordingId].state = "stopped" /\ AnySession \notin subscribed

FoundInv ==
    /\ pc[Main] \in Publishes \cup {"reported"} => session \in OwnSessions
    /\ pc[Main] \in Publishes => publications[session].state = "open"
    /\ pc[Main] = "find" => reader.op = "bySession" /\ reader.sought = session
    /\ Extends =>
         /\ pc[Main] = "find" /\ reader.field = "done" /\ reader.result \notin touched \cup {None} =>
              IsCountedBy(reader.result) \/ IsStopped
         /\ pc[Main] \in {"recordingId", "offer", "await", "isActive"} /\ counterId \notin touched =>
              IsCountedBy(counterId) \/ IsStopped
         /\ pc[Main] = "isActive" /\ counterId \notin touched /\ IsCountedBy(counterId) =>
              /\ reader.op = "getRecordingId" /\ reader.counterId = counterId
              /\ reader.field = "done" => reader.result = recording.recordingId
         /\ pc[Main] = "reported" /\ counterId \notin touched => IsStopped

StopReportInv ==
    IF program = "publisher" THEN CallsInv /\ OnlyExtension /\ FoundInv ELSE ~extendRecording

\* The step that leads main() to a place.
LEMMA PublisherMoves ==
    ASSUME TypeInv, PublisherStep
    PROVE  /\ pc'[Main] # "list"
           /\ pc'[Main] = "listed" => ListRecordings
           /\ pc'[Main] = "add" => Latest
           /\ pc'[Main] = "start" => AddExclusivePublication \/ AddPublication
           /\ pc'[Main] = "started" => StartOrExtend
           /\ pc'[Main] = "find" => FindCounter \/ FindAgain
           /\ pc'[Main] = "recordingId" => Found
           /\ pc'[Main] = "offer" => Show \/ Offer
           /\ pc'[Main] = "await" => AllOffered \/ AwaitAgain
           /\ pc'[Main] = "isActive" => NotRecorded
           /\ pc'[Main] = "reported" => ReportStopped
<1>1. Main \in Threads /\ pc = [t \in Threads |-> pc[t]]
    BY ConstantFacts DEF TypeInv
<1>2. CASE ListRecordings \/ Latest \/ AddExclusivePublication \/ AddPublication \/ StartOrExtend \/ FindCounter
    BY <1>1, <1>2 DEF ListRecordings, Latest, AddExclusivePublication, AddPublication, StartOrExtend, FindCounter,
       Step, Go
<1>3. CASE FindAgain \/ Interrupted \/ Found \/ Show \/ Offer
    BY <1>1, <1>3 DEF FindAgain, Interrupted, Found, Show, Offer, Reads, LeaveBlock, Go, recordingsVars, processVars
<1>4. CASE AllOffered \/ AllRecorded \/ NotRecorded \/ AwaitAgain \/ ReportStopped
    BY <1>1, <1>4 DEF AllOffered, AllRecorded, NotRecorded, AwaitAgain, ReportStopped, Reads, LeaveBlock, Step, Go
<1>5. CASE StopRecordingChannel \/ Finish \/ Fail
    BY <1>1, <1>5 DEF StopRecordingChannel, Finish, Fail, Step, Go
<1> QED
    BY <1>2, <1>3, <1>4, <1>5 DEF PublisherStep

\* What happens while the sample publishes: its own steps, a read of a counter,
\* or something outside, and then main() stays where it is.
OutsideStep ==
    /\ Watch /\ UNCHANGED <<pc, publications, publisherVars>>
    /\ Alive
    /\ \/ CallStep /\ UNCHANGED <<recordings, counters>>
       \/ RecordingStep /\ UNCHANGED <<calls, late, subscribed, extending>>
       \/ UNCHANGED <<calls, late, subscribed, extending, recordings>>

LEMMA PublisherKinds ==
    ASSUME program = "publisher", [Next]_vars
    PROVE  /\ program' = program
           /\ \/ PublisherStep
              \/ (ReadStep \/ UNCHANGED readerVars) /\ UNCHANGED <<recordingsVars, publisherVars>>
              \/ OutsideStep
<1>1. program' = program
    BY DEF Next, vars, Publishing, MeasuringMain, MeasuringPoller, Operating, Searching, Reading, Others, Seen
<1>2. CASE UNCHANGED vars \/ Reading
    BY <1>1, <1>2 DEF vars, Reading, ReadStep
<1>3. CASE Others
    <2>1. Watch /\ Alive /\ UNCHANGED publisherVars
        BY <1>3 DEF Others, Seen
    <2>2. CASE CallStep
        BY <1>1, <2>1, <2>2 DEF CallStep, GiveUp, Serve, Refuse, ServeLate, OthersStop, processVars, archiveVars,
           driverVars, OutsideStep
    <2>3. CASE RecordingStep
        BY <1>1, <2>1, <2>3 DEF RecordingStep, StartRecording, AllocateCounter, Record, StopRecording, processVars,
           OutsideStep
    <2>4. CASE CounterStep(OwnSessions) \/ Interrupt
        BY <1>1, <2>1, <2>4 DEF CounterStep, OtherCounter, Interrupt, processVars, archiveVars, driverVars,
           OutsideStep
    <2> QED
        BY <1>3, <2>2, <2>3, <2>4 DEF Others
<1> QED
    BY <1>1, <1>2, <1>3 DEF Next, Publishing, MeasuringMain, MeasuringPoller, Operating, Searching

-----------------------------------------------------------------------------
\* The term arithmetic is undone by the driver's, for every position whose term
\* number fits.
LEMMA TermsAreUndone ==
    ASSUME NEW position \in Fits \cup {None}
    PROVE  StartPosition(TermId(position), TermOffset(position)) = position
<1> DEFINE b == 2^TermBits
           n == position \div b
<1>1. b \in Nat \ {0} /\ InitialTermId \in Int
    BY PublisherAssumption, PowerOfTwo DEF PublisherAssumption
<1>2. Half \in Nat \ {0} /\ position \in Int
    <2>1. b * Half \in Nat
        BY <1>1, Bits
    <2> QED
        BY <2>1, Bits DEF Fits, None
<1>3. n \in Int /\ position % b \in 0..(b - 1) /\ position = b * n + (position % b)
    BY <1>1, <1>2, Division
<1> HIDE DEF n
<1>4. n \in -Half..(Half - 1)
    <2>1. position < b * Half /\ position >= -1
        BY <1>1, <1>2 DEF Fits, None
    <2>2. ASSUME n >= Half
          PROVE  FALSE
        <3>1. b * n >= b * Half
            BY <1>1, <1>2, <1>3, <2>2
        <3> QED
            BY <1>1, <1>2, <1>3, <2>1, <3>1
    <2>3. ASSUME n < -1
          PROVE  FALSE
        <3>1. b * n <= b * (-2)
            BY <1>1, <1>3, <2>3
        <3> QED
            BY <1>1, <1>2, <1>3, <2>1, <3>1
    <2> QED
        BY <1>2, <1>3, <2>2, <2>3
<1>5. Int32(Int32(n + InitialTermId) - InitialTermId) = n
    BY <1>1, <1>3, <1>4, Int32Undone, Int32Keeps
<1>6. StartPosition(TermId(position), TermOffset(position)) = n * b + (position % b)
    BY <1>5 DEF StartPosition, TermId, TermOffset, n
<1> HIDE DEF b
<1> QED
    BY <1>1, <1>2, <1>3, <1>6

\* A descriptor tells where its recording ended.
LEMMA ListingFits ==
    ASSUME TypeInv, \A r \in RecordingIds : recordings[r].position \in Fits, NEW n \in 1..Len(Listing)
    PROVE  Listing[n].stopPosition \in Fits \cup {None}
<1>1. PICK r \in Known : Listing[n] = Descriptor(r)
    BY ListingFacts DEF TypeInv, OutsideOK
<1> QED
    BY <1>1 DEF Descriptor, Known

ExtendPlaces == {"list", "listed", "add"}

LEMMA ExtendOwnStep ==
    ASSUME TypeInv, ExtendInv, program = "publisher", PublisherStep, program' = program
    PROVE  ExtendInv'
<1>1. pc = [t \in Threads |-> pc[t]] /\ Main \in Threads /\ publications \in Publications
      /\ calls \in [Threads -> Calls]
    BY ConstantFacts, OutsideTypes DEF TypeInv, CallsOK
<1>2. recordings' = recordings
    BY PublisherChange DEF OwnChange
<1>3. CASE ListRecordings
    <2>1. pc[Main] = "list" /\ pc'[Main] = "listed" /\ publications' = publications
          /\ calls'[Main].listing = <<>>
        BY <1>1, <1>3 DEF ListRecordings, Step, Go, Ask
    <2> QED
        BY <1>2, <2>1 DEF ExtendInv, Live, ExtensionContinues
<1>4. CASE Latest
    <2>1. pc[Main] = "listed" /\ pc'[Main] = "add" /\ publications' = publications
          /\ recording' = LatestRecordingData(calls[Main].listing)
        BY <1>1, <1>4 DEF Latest, Step, Go
    <2>2. recording'.stopPosition \in Fits \cup {None}
        <3>1. CASE calls[Main].listing = <<>>
            BY <2>1, <3>1 DEF LatestRecordingData, NoRecordingData
        <3>2. CASE calls[Main].listing # <<>>
            <4>1. Len(calls[Main].listing) \in 1..Len(calls[Main].listing)
                BY <1>1, <3>2, LenProperties, EmptySeq DEF Calls
            <4> QED
                BY <2>1, <3>2, <4>1 DEF LatestRecordingData, ExtendInv
        <3> QED
            BY <3>1, <3>2
    <2> QED
        BY <1>2, <2>1, <2>2 DEF ExtendInv, Live, ExtensionContinues
<1>5. CASE AddExclusivePublication
    <2>1. pc[Main] = "add" /\ pc'[Main] = "start" /\ UNCHANGED <<extendRecording, recording>>
        BY <1>1, <1>5 DEF AddExclusivePublication, Step, Go
    <2>2. StartPosition(TermId(recording.stopPosition), TermOffset(recording.stopPosition))
             = recording.stopPosition
        BY <2>1, TermsAreUndone DEF ExtendInv
    <2>3. PICK s \in OwnSessions : OpenPublication(Main, s, FALSE, recording.stopPosition) /\ session' = s
        BY <1>5, <2>2 DEF AddExclusivePublication
    <2>4. publications'[s].position = recording.stopPosition
        BY <1>1, <2>3, ConstantFacts DEF OpenPublication, Publications
    <2> QED
        BY <2>1, <2>3, <2>4 DEF ExtendInv, ExtensionContinues
<1>6. CASE AddPublication
    <2>1. pc'[Main] = "start" /\ ~Extends /\ UNCHANGED <<extendRecording, recording>>
        BY <1>1, <1>6 DEF AddPublication, Step, Go
    <2> QED
        BY <2>1 DEF ExtendInv, ExtensionContinues, Extends
<1>7. CASE ~(ListRecordings \/ Latest \/ AddExclusivePublication \/ AddPublication)
    BY <1>7, PublisherMoves DEF ExtendInv, ExtensionContinues
<1> QED
    BY <1>3, <1>4, <1>5, <1>6, <1>7

LEMMA ExtendOutsideStep ==
    ASSUME TypeInv, ExtendInv, program = "publisher", OutsideStep, program' = program
    PROVE  ExtendInv'
<1>1. UNCHANGED <<pc, publications, publisherVars>> /\ Main \in Threads
    BY ConstantFacts DEF OutsideStep
<1>2. ExtensionContinues'
    BY <1>1 DEF ExtendInv, ExtensionContinues, Extends, publisherVars
<1>3. recordings \in [RecordingIds -> RecordingTypes] /\ calls \in [Threads -> Calls]
    BY OutsideTypes DEF TypeInv, CallsOK
<1>4. ASSUME pc[Main] \in ExtendPlaces, RecordingStep, NEW r \in RecordingIds
      PROVE  /\ recordings'[r].position \in Fits
             /\ Live(r)' => recordings'[r].session = OtherSession
    <2>1. ASSUME NEW s \in Sessions, StartRecording(s)
          PROVE  /\ recordings'[r].position \in Fits
                 /\ Live(r)' => recordings'[r].session = OtherSession
        <3>1. s = OtherSession
            BY <1>4, <2>1 DEF ExtendInv, ExtendPlaces, StartRecording, Sessions
        <3>2. publications[OtherSession].position \in Fits
            <4>1. 2^TermBits * Half \in Nat \ {0}
                BY Bits, PowerOfTwo, PublisherAssumption DEF PublisherAssumption
            <4> QED
                BY <1>4, <4>1 DEF ExtendInv, ExtendPlaces, Fits
        <3>3. PICK q \in RecordingIds, i \in CounterIds :
                recordings' = [recordings EXCEPT ![q] =
                                 [state |-> "starting", session |-> s, counter |-> i,
                                  position |-> publications[s].position]]
            BY <2>1 DEF StartRecording
        <3> QED
            BY <1>3, <1>4, <3>1, <3>2, <3>3 DEF ExtendInv, ExtendPlaces, Live
    <2>2. ASSUME NEW q \in RecordingIds, Record(q)
          PROVE  FALSE
        <3>1. recordings[q].session = OtherSession /\ recordings[q].position \in Fits
              /\ recordings[q].position < 0
            BY <1>4, <2>2 DEF Record, Live, ExtendInv, ExtendPlaces
        <3> QED
            BY <3>1, Bits DEF Fits
    <2>3. ASSUME NEW q \in RecordingIds, AllocateCounter(q) \/ StopRecording(q)
          PROVE  /\ recordings'[r].position \in Fits
                 /\ Live(r)' => recordings'[r].session = OtherSession
        <3>1. /\ recordings'[r].position = recordings[r].position
              /\ recordings'[r].session = recordings[r].session
              /\ Live(r)' => Live(r)
            BY <1>3, <2>3 DEF AllocateCounter, StopRecording, Live, RecordingTypes
        <3> QED
            BY <1>4, <3>1 DEF ExtendInv, ExtendPlaces
    <2> QED
        BY <1>4, <2>1, <2>2, <2>3 DEF RecordingStep
<1>5. ASSUME pc[Main] \in ExtendPlaces, NEW r \in RecordingIds
      PROVE  /\ recordings'[r].position \in Fits
             /\ Live(r)' => recordings'[r].session = OtherSession
    BY <1>4, <1>5 DEF OutsideStep, ExtendInv, ExtendPlaces, Live
<1>6. ASSUME pc[Main] = "listed", NEW n \in 1..Len(calls'[Main].listing)
      PROVE  calls'[Main].listing[n].stopPosition \in Fits \cup {None}
    <2>1. CASE calls'[Main].listing = calls[Main].listing
        BY <1>6, <2>1 DEF ExtendInv
    <2>2. CASE calls'[Main].listing # calls[Main].listing
        <3>1. PICK t \in Threads : Serve(t) \/ GiveUp(t) \/ Refuse(t)
            BY <2>2 DEF OutsideStep, RecordingStep, CallStep, ServeLate, OthersStop, processVars
        <3>2. Serve(t)
            <4>1. ASSUME calls' = [calls EXCEPT ![t].status = "failed"]
                  PROVE  calls'[Main].listing = calls[Main].listing
                BY <1>1, <1>3, <4>1 DEF Calls
            <4> QED
                BY <2>2, <3>1, <4>1 DEF GiveUp, Refuse
        <3>3. PICK id \in {None} \cup {ReplayId(s) : s \in ReplaySessions}, listing \in {<<>>, Listing} :
                Answer(t, id, listing)
            BY <3>2 DEF Serve
        <3>4. calls'[Main].listing = listing
            BY <1>1, <1>3, <2>2, <3>3 DEF Answer, Calls
        <3>5. listing # <<>>
            BY <1>6, <3>4
        <3> QED
            BY <1>6, <3>3, <3>4, <3>5, ListingFits DEF ExtendInv
    <2> QED
        BY <2>1, <2>2
<1> QED
    BY <1>1, <1>2, <1>5, <1>6 DEF ExtendInv, ExtendPlaces, publisherVars

LEMMA ExtendStep ==
    ASSUME TypeInv, ExtendInv, [Next]_vars
    PROVE  ExtendInv'
<1>1. program' = program
    BY DEF Next, vars, Publishing, MeasuringMain, MeasuringPoller, Operating, Searching, Reading, Others, Seen
<1>2. CASE program # "publisher"
    <2>1. extendRecording' = extendRecording
        BY <1>2 DEF Next, vars, Publishing, MeasuringMain, MeasuringPoller, Operating, Searching, Reading, Others,
           Seen, publisherVars
    <2> QED
        BY <1>1, <1>2, <2>1 DEF ExtendInv
<1>3. CASE program = "publisher"
    <2>1. CASE UNCHANGED <<recordingsVars, publisherVars>>
        BY <1>1, <1>3, <2>1 DEF ExtendInv, Live, ExtensionContinues, Extends, recordingsVars, publisherVars,
           processVars, archiveVars, driverVars
    <2> QED
        BY <1>3, <2>1, PublisherKinds, ExtendOwnStep, ExtendOutsideStep
<1> QED
    BY <1>2, <1>3

LEMMA ExtendInit ==
    ASSUME OldPosition < 2^TermBits * 2^(IntBits - 1), Init
    PROVE  ExtendInv
<1>1. 0 \in Fits /\ OldPosition \in Fits
    BY Bits, PowerOfTwo, PublisherAssumption, ProgramAssumption DEF Fits, Half, PublisherAssumption, ProgramAssumption
<1>2. \A r \in RecordingIds : recordings[r].position \in Fits /\ ~Live(r)
    BY <1>1 DEF Init, RecordingsInit, NoRecording, Live
<1>3. /\ \A s \in OwnSessions : publications[s].state = "none"
      /\ publications[OtherSession].position = 0
    BY ConstantFacts DEF Init, RecordingsInit, NoPublication
<1>4. program = "publisher" => pc[Main] = "list"
    BY ConstantFacts DEF Init, Entry
<1>5. program # "publisher" => ~extendRecording
    BY DEF Init
<1> QED
    BY <1>2, <1>3, <1>4, <1>5 DEF ExtendInv, ExtensionContinues

\* The parameters that RecordedBasicPublisher gives the driver when it extends a
\* recording make the publication begin where the recording ended, though the
\* term id wraps: for every term length, initial term id and position that a
\* stream can reach, and whatever the archive and the other process record
\* before the sample looks for the latest recording.
THEOREM ExtensionContinuesHolds ==
    ASSUME OldPosition < 2^TermBits * 2^(IntBits - 1)
    PROVE  Spec => []ExtensionContinues
<1>1. Init => TypeInv /\ ExtendInv
    BY TypeInit, ExtendInit
<1>2. TypeInv /\ ExtendInv /\ [Next]_vars => TypeInv' /\ ExtendInv'
    BY TypeStep, ExtendStep
<1>3. ExtendInv => ExtensionContinues
    <2>1. CASE program = "publisher"
        BY <2>1 DEF ExtendInv
    <2>2. CASE program # "publisher"
        BY <2>2 DEF ExtendInv, ExtensionContinues, Extends
    <2> QED
        BY <2>1, <2>2
<1> QED
    BY <1>1, <1>2, <1>3, PTL DEF Spec

-----------------------------------------------------------------------------
LEMMA CallsOwnStep ==
    ASSUME TypeInv, CallsInv, program = "publisher", PublisherStep
    PROVE  CallsInv'
<1>1. pc = [t \in Threads |-> pc[t]] /\ Main \in Threads /\ calls \in [Threads -> Calls]
    BY ConstantFacts DEF TypeInv, CallsOK
<1>2. late' = late
    BY PublisherChange DEF OwnChange
<1>3. CASE ListRecordings
    <2>1. pc[Main] = "list" /\ pc'[Main] = "listed" /\ calls'[Main].op = "list"
          /\ \A t \in Threads \ {Main} : calls'[t] = calls[t]
        BY <1>1, <1>3 DEF ListRecordings, Step, Go, Ask
    <2> QED
        BY <1>2, <2>1 DEF CallsInv
<1>4. CASE StartOrExtend
    <2>1. pc[Main] = "start" /\ pc'[Main] = "started" /\ Extends' = Extends /\ recording' = recording
          /\ \A t \in Threads \ {Main} : calls'[t] = calls[t]
        BY <1>1, <1>4 DEF StartOrExtend, Step, Go, Ask, publisherVars, Extends
    <2>2. Extends => /\ calls'[Main].op = "extend" /\ calls'[Main].key = AnySession
                     /\ calls'[Main].id = recording.recordingId
        BY <1>1, <1>4 DEF StartOrExtend, Ask
    <2> QED
        BY <1>2, <2>1, <2>2 DEF CallsInv
<1>5. CASE StopRecordingChannel
    <2>1. pc[Main] \in {"stop", "reported"} /\ pc'[Main] = "stopping"
          /\ \A t \in Threads \ {Main} : calls'[t] = calls[t]
        BY <1>1, <1>5 DEF StopRecordingChannel, Go, Ask
    <2> QED
        BY <1>2, <2>1 DEF CallsInv
<1>6. CASE Latest \/ FindCounter \/ Finish
    <2>1. calls[Main].status = "done" /\ calls' = [calls EXCEPT ![Main] = NoCall]
          /\ pc[Main] # "done"
        BY <1>1, <1>6 DEF Latest, FindCounter, Finish, Returned, Step
    <2>2. calls'[Main].status = "none" /\ \A t \in Threads \ {Main} : calls'[t] = calls[t]
        BY <1>1, <2>1 DEF NoCall
    <2> QED
        BY <1>2, <2>1, <2>2 DEF CallsInv
<1>7. CASE Fail
    <2>1. pc'[Main] = "done"
        BY <1>1, <1>7 DEF Fail, Go
    <2>2. calls'[Main].status = "none" /\ \A t \in Threads \ {Main} : calls'[t] = calls[t]
        BY <1>1, <1>7 DEF Fail, Threw, NoCall, CallsInv
    <2> QED
        BY <2>1, <2>2 DEF CallsInv
<1>8. CASE \/ AddExclusivePublication \/ AddPublication \/ FindAgain \/ Interrupted \/ Found \/ Show
           \/ Offer \/ AllOffered \/ AllRecorded \/ NotRecorded \/ AwaitAgain \/ ReportStopped
    <2>1. calls' = calls /\ pc[Main] \notin {"listed", "started", "stopping", "done"}
        BY <1>8 DEF AddExclusivePublication, AddPublication, FindAgain, Interrupted, Found, Show, Offer,
           AllOffered, AllRecorded, NotRecorded, AwaitAgain, ReportStopped, Step, Reads, recordingsVars, processVars
    <2> QED
        BY <1>2, <2>1 DEF CallsInv
<1> QED
    BY <1>3, <1>4, <1>5, <1>6, <1>7, <1>8 DEF PublisherStep

LEMMA CallsOutsideStep ==
    ASSUME TypeInv, CallsInv, OutsideStep
    PROVE  CallsInv'
<1>1. calls \in [Threads -> Calls] /\ Main \in Threads
    BY ConstantFacts DEF TypeInv, CallsOK
<1>2. UNCHANGED <<pc, publisherVars>> /\ Extends' = Extends /\ recording' = recording /\ pc[Main] # "done"
    BY DEF OutsideStep, publisherVars, Extends, Alive
<1>3. ASSUME NEW t \in Threads, NEW status \in {"done", "failed"}, calls[t].status = "asked",
             calls'[Main].status = status,
             calls'[Main].op = calls[Main].op, calls'[Main].key = calls[Main].key,
             \A u \in Threads \ {t} : calls'[u] = calls[u],
             late' = late \/ (status = "failed" /\ late' = late \cup {calls[t]})
      PROVE  CallsInv'
    <2>1. t = Main /\ late = {}
        BY <1>1, <1>2, <1>3 DEF CallsInv
    <2> QED
        BY <1>2, <1>3, <2>1 DEF CallsInv
<1>4. ASSUME NEW t \in Threads, GiveUp(t) \/ Refuse(t)
      PROVE  CallsInv'
    <2>1. calls[t].status = "asked" /\ t = Main
        BY <1>1, <1>4 DEF GiveUp, Refuse, CallsInv
    <2>2. calls' = [calls EXCEPT ![t].status = "failed"]
        BY <1>4 DEF GiveUp, Refuse
    <2>3. /\ calls'[Main].status = "failed"
          /\ calls'[Main].op = calls[Main].op /\ calls'[Main].key = calls[Main].key
          /\ \A u \in Threads \ {t} : calls'[u] = calls[u]
        BY <1>1, <2>1, <2>2 DEF Calls
    <2>4. late' = late \/ late' = late \cup {calls[t]}
        BY <1>4 DEF GiveUp, Refuse, archiveVars
    <2> QED
        BY <1>3, <2>1, <2>3, <2>4
<1>5. ASSUME NEW t \in Threads, Serve(t)
      PROVE  CallsInv'
    <2>1. calls[t].status = "asked" /\ t = Main /\ late' = late
        BY <1>1, <1>5 DEF Serve, CallsInv
    <2>2. PICK id \in {None} \cup {ReplayId(s) : s \in ReplaySessions}, listing \in {<<>>, Listing} :
            Answer(t, id, listing)
        BY <1>5 DEF Serve
    <2>3. PICK status \in {"done", "failed"} :
            calls' = [calls EXCEPT ![t].status = status, ![t].id = id, ![t].listing = listing]
        BY <2>2 DEF Answer
    <2>4. /\ calls'[Main].status = status
          /\ calls'[Main].op = calls[Main].op /\ calls'[Main].key = calls[Main].key
          /\ \A u \in Threads \ {t} : calls'[u] = calls[u]
        BY <1>1, <2>1, <2>3 DEF Calls
    <2> QED
        BY <1>3, <2>1, <2>4
<1>6. CASE calls' = calls /\ late' \subseteq late
    BY <1>2, <1>6 DEF CallsInv
<1>7. CASE ServeLate \/ OthersStop
    BY <1>6, <1>7 DEF ServeLate, OthersStop, processVars
<1> QED
    BY <1>4, <1>5, <1>6, <1>7 DEF OutsideStep, CallStep

\* While no call is under way and none was given up, nobody asks the archive to record.
NoCalls == pc[Main] \in Before \cup Working /\ pc[Main] \notin {"listed", "started"}

LEMMA NothingAsked ==
    ASSUME CallsInv, NoCalls
    PROVE  /\ late = {} /\ \A t \in Threads : calls[t].status = "none"
BY DEF CallsInv, NoCalls, Before, Working

LEMMA OnlyOwnStep ==
    ASSUME TypeInv, CallsInv, OnlyExtension, program = "publisher", PublisherStep
    PROVE  OnlyExtension'
<1>1. UNCHANGED <<subscribed, extending, recordings>>
    BY PublisherChange DEF OwnChange
<1>2. pc = [t \in Threads |-> pc[t]] /\ Main \in Threads /\ calls \in [Threads -> Calls]
    BY ConstantFacts DEF TypeInv, CallsOK
<1>3. CASE pc'[Main] \in Before
    <2>1. pc[Main] \in Before
        BY <1>3, PublisherMoves DEF Before, ListRecordings, Latest, AddExclusivePublication, AddPublication, Step
    <2> QED
        BY <1>1, <1>3, <2>1 DEF OnlyExtension, Before, Working
<1>4. CASE StartOrExtend
    <2>1. pc[Main] = "start" /\ pc'[Main] = "started"
        BY <1>2, <1>4 DEF StartOrExtend, Step, Go
    <2> QED
        BY <1>1, <2>1 DEF OnlyExtension, Before
<1>5. CASE pc'[Main] \in Working /\ ~StartOrExtend
    <2>1. pc[Main] \in Working /\ (Extends' => Extends) /\ recording' = recording
          /\ calls[Main].status # "failed"
        <3>1. CASE FindCounter
            BY <3>1 DEF FindCounter, Step, Working, publisherVars, Extends, Returned
        <3>2. CASE FindAgain \/ Found \/ Show \/ Offer
            <4>1. pc[Main] \in {"find", "recordingId", "offer"} /\ extendRecording' = extendRecording
                  /\ recording' = recording
                BY <3>2 DEF FindAgain, Found, Show, Offer, Reads, publisherVars
            <4> QED
                BY <4>1, NothingAsked DEF NoCalls, Before, Working, Extends, CallsInv
        <3>3. CASE AllOffered \/ AwaitAgain \/ NotRecorded \/ ReportStopped
            <4>1. pc[Main] \in {"offer", "await", "isActive"} /\ UNCHANGED publisherVars
                BY <3>3 DEF AllOffered, AwaitAgain, NotRecorded, ReportStopped, Reads, Step
            <4> QED
                BY <4>1, NothingAsked DEF NoCalls, Before, Working, Extends, publisherVars, CallsInv
        <3> QED
            BY <1>5, <3>1, <3>2, <3>3, PublisherMoves DEF Working
    <2> QED
        BY <1>1, <1>5, <2>1 DEF OnlyExtension, Working, Before
<1>6. CASE pc'[Main] \notin Before \cup Working
    BY <1>6 DEF OnlyExtension
<1> QED
    BY <1>3, <1>4, <1>5, <1>6

\* What an image of a session of the process's own would be recorded in.
LEMMA OnlyRecordingStep ==
    ASSUME TypeInv, OnlyExtension, RecordingStep, UNCHANGED <<pc, calls, subscribed, extending, publisherVars>>
    PROVE  OnlyExtension'
<1>1. OwnSessions \subseteq Sessions /\ AnySession \notin OwnSessions /\ Main \in Threads
    BY ConstantFacts
<1>2. Extends' = Extends /\ recording' = recording
    BY DEF publisherVars, Extends
<1>3. ASSUME NEW r \in RecordingIds, recordings'[r].session \in OwnSessions,
             subscribed \cap OwnSessions = {}
      PROVE  \/ recordings[r].session \in OwnSessions
             \/ AnySession \in subscribed /\ (extending # None => r = extending)
    BY <1>3, RecordingMoves DEF MayRecordIn
<1>4. CASE pc[Main] \in Before
    BY <1>3, <1>4 DEF OnlyExtension, Before, Working
<1>5. CASE pc[Main] \in Working /\ Extends /\ calls[Main].status # "failed"
    BY <1>2, <1>3, <1>5 DEF OnlyExtension, Before, Working, Extends
<1>6. CASE ~(pc[Main] \in Before) /\ ~(pc[Main] \in Working /\ Extends /\ calls[Main].status # "failed")
    BY <1>2, <1>6 DEF OnlyExtension
<1> QED
    BY <1>4, <1>5, <1>6

LEMMA OnlyCallStep ==
    ASSUME TypeInv, CallsInv, OnlyExtension, CallStep, UNCHANGED <<pc, recordings, publisherVars>>, Alive
    PROVE  OnlyExtension'
<1>1. calls \in [Threads -> Calls] /\ Main \in Threads /\ AnySession \notin OwnSessions
    BY ConstantFacts DEF TypeInv, CallsOK
<1>2. Extends' = Extends /\ recording' = recording
    BY DEF publisherVars, Extends
<1>3. ASSUME UNCHANGED <<subscribed, extending>>,
             calls[Main].status = "failed" => calls'[Main].status = "failed"
      PROVE  OnlyExtension'
    BY <1>2, <1>3 DEF OnlyExtension
<1>4. ASSUME NEW t \in Threads, GiveUp(t) \/ Refuse(t)
      PROVE  OnlyExtension'
    BY <1>1, <1>3, <1>4 DEF GiveUp, Refuse, archiveVars, Calls
<1>5. ASSUME NEW t \in Threads, Serve(t)
      PROVE  OnlyExtension'
    <2>1. t = Main /\ calls[Main].status = "asked"
        BY <1>5 DEF Serve, CallsInv
    <2>2. CASE pc[Main] = "listed" \/ pc[Main] \notin Before \cup Working
        <3>1. calls[Main].op = "list" => UNCHANGED <<subscribed, extending>>
            BY <1>5, <2>1 DEF Serve, StartRequested, ExtendRequested, StopRequested, ReplayRequested
        <3>2. pc[Main] = "listed" => calls[Main].op = "list"
            BY <2>1 DEF CallsInv
        <3> QED
            BY <2>2, <3>1, <3>2, <1>2 DEF OnlyExtension, Before, Working
    <2>3. CASE pc[Main] = "started"
        <3>1. CASE ~Extends
            BY <1>2, <2>3, <3>1 DEF OnlyExtension, Before
        <3>2. CASE Extends
            <4>1. calls[Main].op = "extend" /\ calls[Main].key = AnySession
                  /\ calls[Main].id = recording.recordingId
                BY <2>1, <2>3, <3>2 DEF CallsInv
            <4>2. subscribed' = subscribed \cup {AnySession} /\ extending' = recording.recordingId
                BY <1>5, <2>1, <4>1 DEF Serve, StartRequested, ExtendRequested, StopRequested, ReplayRequested
            <4> QED
                BY <1>1, <1>2, <2>1, <2>3, <3>2, <4>2 DEF OnlyExtension, Before, Working
        <3> QED
            BY <3>1, <3>2
    <2> QED
        BY <2>1, <2>2, <2>3 DEF CallsInv, Before, Working
<1>6. CASE ServeLate
    <2>1. calls' = calls /\ late # {}
        BY <1>6 DEF ServeLate
    <2>2. calls[Main].status = "failed" /\ \A c \in late : c.op = calls[Main].op
        BY <2>1 DEF CallsInv, Alive
    <2>3. CASE pc[Main] = "listed"
        <3>1. \A c \in late : c.op = "list"
            BY <2>2, <2>3 DEF CallsInv
        <3> QED
            BY <1>6, <3>1 DEF ServeLate, StartRequested, ExtendRequested, StopRequested, ReplayRequested
    <2>4. CASE pc[Main] # "listed"
        <3>1. pc[Main] \notin Before
            BY <2>2, <2>4 DEF CallsInv, Before
        <3> QED
            BY <2>1, <2>2, <3>1 DEF OnlyExtension
    <2> QED
        BY <2>3, <2>4
<1>7. CASE OthersStop
    <2>1. /\ subscribed' \subseteq subscribed /\ calls' = calls
          /\ AnySession \in subscribed' => extending' = extending
        BY <1>7 DEF OthersStop, Unsubscribe, processVars
    <2> QED
        BY <1>2, <2>1 DEF OnlyExtension
<1> QED
    BY <1>4, <1>5, <1>6, <1>7 DEF CallStep

LEMMA OnlyOutsideStep ==
    ASSUME TypeInv, CallsInv, OnlyExtension, OutsideStep
    PROVE  OnlyExtension'
<1>1. CASE UNCHANGED <<calls, late, subscribed, extending, recordings>>
    BY <1>1 DEF OutsideStep, OnlyExtension, Extends, publisherVars
<1> QED
    BY <1>1, OnlyCallStep, OnlyRecordingStep DEF OutsideStep

-----------------------------------------------------------------------------
Recorded == {"find", "recordingId", "offer", "await", "isActive", "reported"}

\* The recording that the sample extends is recorded with one counter until it
\* is stopped, and nobody starts it again.
LEMMA StaysRecorded ==
    ASSUME TypeInv, CallsInv, OutsideStep, Extends, pc[Main] \in Recorded,
           session \in OwnSessions, pc[Main] \in Publishes => publications[session].state = "open"
    PROVE  /\ IsStopped => IsStopped'
           /\ pc[Main] \in Publishes => \A i : IsCountedBy(i) => IsCountedBy(i)' \/ IsStopped'
<1> DEFINE r == recording.recordingId
<1>1. r \in RecordingIds /\ UNCHANGED <<pc, recording, session, publications>>
    BY DEF OutsideStep, publisherVars, Extends, TypeInv, PublisherOK, PublisherTypeOK
<1>2. CASE UNCHANGED <<subscribed, recordings>>
    BY <1>1, <1>2 DEF IsStopped, IsCountedBy
<1>3. CASE CallStep /\ UNCHANGED <<recordings, counters>>
    <2>1. late = {} /\ \A t \in Threads : calls[t].status = "none"
        BY NothingAsked DEF NoCalls, Recorded, Working
    <2>2. OthersStop
        BY <1>3, <2>1 DEF CallStep, GiveUp, Serve, Refuse, ServeLate
    <2>3. subscribed' \subseteq subscribed
        BY <2>2 DEF OthersStop, Unsubscribe
    <2> QED
        BY <1>1, <1>3, <2>3 DEF IsStopped, IsCountedBy
<1>4. CASE RecordingStep /\ subscribed' = subscribed
    <2>1. IsStopped => IsStopped'
        BY <1>1, <1>4, RecordingMoves DEF IsStopped, MayRecordIn, IsNew
    <2>2. ASSUME NEW i, IsCountedBy(i), pc[Main] \in Publishes
          PROVE  IsCountedBy(i)' \/ IsStopped'
        <3>1. publications[recordings[r].session].state = "open" /\ recordings[r].state = "active"
            BY <2>2 DEF IsCountedBy
        <3>2. \/ recordings'[r] = recordings[r]
              \/ /\ recordings'[r].state = "active"
                 /\ recordings'[r].session = session /\ recordings'[r].counter = i
              \/ recordings'[r].state = "stopped" /\ ~Wanted(session)
            BY <1>1, <1>4, <2>2, <3>1, RecordingMoves DEF MayRecordIn, IsNew, IsExtendedBy, IsCountedBy
        <3> QED
            BY <1>1, <1>4, <2>2, <3>2 DEF IsCountedBy, IsStopped, Wanted
    <2> QED
        BY <2>1, <2>2
<1> QED
    BY <1>2, <1>3, <1>4 DEF OutsideStep

LEMMA FoundOutsideStep ==
    ASSUME TypeInv, CallsInv, FoundInv, OutsideStep
    PROVE  FoundInv'
<1>1. UNCHANGED <<pc, publications, recording, session, counterId, reader>>
    BY DEF OutsideStep, publisherVars, Watch
<1>2. Extends' = Extends
    BY DEF OutsideStep, publisherVars, Extends
<1>3. touched \subseteq touched' /\ (reader.field = "done" => touched' = touched)
    BY DEF OutsideStep, Watch
<1>4. ASSUME Extends, pc[Main] \in Recorded
      PROVE  /\ IsStopped => IsStopped'
             /\ pc[Main] \in Publishes => \A i : IsCountedBy(i) => IsCountedBy(i)' \/ IsStopped'
    BY <1>4, StaysRecorded DEF FoundInv, Recorded, Publishes
<1>5. \A i : ~(IsCountedBy(i) /\ IsStopped) /\ ~(IsCountedBy(i)' /\ IsStopped')
    BY DEF IsCountedBy, IsStopped
<1>6. /\ pc'[Main] \in Publishes \cup {"reported"} => session' \in OwnSessions
      /\ pc'[Main] \in Publishes => publications'[session'].state = "open"
      /\ pc'[Main] = "find" => reader'.op = "bySession" /\ reader'.sought = session'
    BY <1>1 DEF FoundInv
<1>7. ASSUME Extends, pc[Main] = "find", reader.field = "done", reader.result \notin touched' \cup {None}
      PROVE  IsCountedBy(reader.result)' \/ IsStopped'
    BY <1>1, <1>3, <1>4, <1>7 DEF FoundInv, Recorded, Publishes
<1>8. ASSUME Extends, pc[Main] \in {"recordingId", "offer", "await", "isActive"}, counterId \notin touched'
      PROVE  /\ IsCountedBy(counterId)' \/ IsStopped'
             /\ IsCountedBy(counterId)' => IsCountedBy(counterId)
    BY <1>1, <1>3, <1>4, <1>5, <1>8 DEF FoundInv, Recorded, Publishes
<1>9. ASSUME Extends, pc[Main] = "reported", counterId \notin touched'
      PROVE  IsStopped'
    BY <1>3, <1>4, <1>9 DEF FoundInv, Recorded
<1>10. ASSUME Extends, pc[Main] = "isActive", counterId \notin touched', IsCountedBy(counterId)'
       PROVE  /\ reader.op = "getRecordingId" /\ reader.counterId = counterId
              /\ reader.field = "done" => reader.result = recording.recordingId
    BY <1>1, <1>3, <1>8, <1>10 DEF FoundInv
<1> QED
    BY <1>1, <1>2, <1>6, <1>7, <1>8, <1>9, <1>10 DEF FoundInv

\* The reads of a call of RecordingPos.
LEMMA ReadMoves ==
    ASSUME SearchInv, ReadStep
    PROVE  /\ reader.field # "done" /\ reader'.op = reader.op /\ reader'.sought = reader.sought
           /\ reader.op = "getRecordingId" => reader'.counterId = reader.counterId
           /\ touched' = touched
BY DEF ReadStep, ReadState, ReadTypeId, ReadKey, ReadField, ReadReturns, Miss, SearchInv, IsReader

\* getRecordingId tells of an active recording's counter which recording it is.
LEMMA ReadsActive ==
    ASSUME TypeInv, CounterInv, SearchInv, ReadStep, reader.op = "getRecordingId",
           NEW r \in RecordingIds, recordings[r].state = "active", recordings[r].counter = reader.counterId,
           reader'.field = "done"
    PROVE  reader'.result = r
<1>1. HasCounter(r)
    BY DEF CounterInv, Live
<1>2. /\ counters[reader.counterId].state = "allocated"
      /\ counters[reader.counterId].typeId = "recordingPos"
      /\ counters[reader.counterId].recordingId = r
    BY <1>1 DEF HasCounter
<1>3. ~ReadState /\ ~ReadTypeId
    BY <1>2 DEF ReadState, ReadTypeId, ReadField, SearchInv, IsReader
<1> QED
    BY <1>2, <1>3 DEF ReadStep, ReadKey, ReadReturns, KeyOf, SearchInv, IsReader

\* A search that ends finds the counter of the recording that is extended.
LEMMA FindsExtended ==
    ASSUME TypeInv, CounterInv, SearchInv, OnlyExtension, NEW i \in CounterIds, Matches(i, "bySession", session),
           session \in OwnSessions, pc[Main] = "find", Extends, calls[Main].status # "failed"
    PROVE  IsCountedBy(i)
<1>1. counters[i].state = "allocated" /\ counters[i].typeId = "recordingPos" /\ counters[i].sessionId = session
    BY DEF Matches, KeyOf
<1>2. PICK r \in RecordingIds : recordings[r].state = "active" /\ recordings[r].counter = i
    BY <1>1 DEF CounterInv, IsCounted
<1>3. recordings[r].session = session
    BY <1>1, <1>2 DEF CounterInv, Live, HasCounter
<1>4. r = recording.recordingId
    BY <1>3 DEF OnlyExtension, Working, Before
<1> QED
    BY <1>2, <1>3, <1>4 DEF IsCountedBy

LEMMA FoundReadStep ==
    ASSUME TypeInv, CounterInv, SearchInv, CallsInv, OnlyExtension, FoundInv, [Next]_vars, ReadStep,
           UNCHANGED <<recordingsVars, publisherVars>>
    PROVE  FoundInv'
<1>1. UNCHANGED <<pc, publications, recordings, subscribed, extendRecording, recording, session, counterId>>
    BY DEF recordingsVars, processVars, driverVars, archiveVars, publisherVars
<1>2. Extends' = Extends /\ IsStopped' = IsStopped /\ \A i : IsCountedBy(i)' = IsCountedBy(i)
    BY <1>1 DEF Extends, IsStopped, IsCountedBy
<1>3. ASSUME Extends, pc[Main] = "find", reader'.field = "done", reader'.result \notin touched \cup {None}
      PROVE  IsCountedBy(reader'.result)
    <2>1. reader.op = "bySession" /\ reader.sought = session /\ session \in OwnSessions
        BY <1>3 DEF FoundInv, Publishes
    <2>2. RightResult
        BY <1>3, <2>1, StepIsRight, ReadMoves DEF InSearch, Searches
    <2>3. Matches(reader'.result, "bySession", session)
        BY <1>3, <2>1, <2>2 DEF RightResult
    <2>4. reader'.result \in CounterIds
        BY <1>3, <2>1, ReadingKeepsType, ReadMoves DEF ReaderOK, Searches
    <2>5. calls[Main].status = "none"
        BY <1>3 DEF CallsInv
    <2> QED
        BY <1>3, <2>1, <2>3, <2>4, <2>5, FindsExtended
<1>4. ASSUME Extends, pc[Main] = "isActive", counterId \notin touched, IsCountedBy(counterId)
      PROVE  /\ reader'.op = "getRecordingId" /\ reader'.counterId = counterId
             /\ reader'.field = "done" => reader'.result = recording.recordingId
    <2>1. reader.op = "getRecordingId" /\ reader.counterId = counterId
        BY <1>4 DEF FoundInv
    <2>2. recording.recordingId \in RecordingIds
        BY <1>4 DEF Extends, TypeInv, PublisherOK, PublisherTypeOK
    <2> QED
        BY <1>4, <2>1, <2>2, ReadMoves, ReadsActive DEF IsCountedBy
<1> QED
    BY <1>1, <1>2, <1>3, <1>4, ReadMoves DEF FoundInv

LEMMA FoundOwnStep ==
    ASSUME TypeInv, FoundInv, program = "publisher", PublisherStep
    PROVE  FoundInv'
<1>1. pc = [t \in Threads |-> pc[t]] /\ Main \in Threads /\ publications \in Publications
    BY ConstantFacts, OutsideTypes DEF TypeInv
<1>2. UNCHANGED <<subscribed, recordings>>
    BY PublisherChange DEF OwnChange
<1>3. ASSUME UNCHANGED <<extendRecording, recording, session>>
      PROVE  Extends' = Extends /\ IsStopped' = IsStopped /\ \A i : IsCountedBy(i)' = IsCountedBy(i)
    BY <1>2, <1>3 DEF Extends, IsStopped, IsCountedBy
<1>4. CASE AddExclusivePublication \/ AddPublication
    <2>1. PICK s \in OwnSessions : session' = s /\ \E shared, start : OpenPublication(Main, s, shared, start)
        BY <1>4 DEF AddExclusivePublication, AddPublication
    <2>2. publications'[s].state = "open"
        BY <1>1, <2>1, ConstantFacts DEF OpenPublication, Publications
    <2>3. pc'[Main] = "start"
        BY <1>1, <1>4 DEF AddExclusivePublication, AddPublication, Step, Go
    <2> QED
        BY <2>1, <2>2, <2>3 DEF FoundInv, Publishes
<1>5. CASE StartOrExtend
    <2>1. pc[Main] = "start" /\ pc'[Main] = "started" /\ UNCHANGED <<session, publications>>
        BY <1>1, <1>5 DEF StartOrExtend, Step, Go, publisherVars
    <2> QED
        BY <2>1 DEF FoundInv, Publishes
<1>6. CASE FindCounter \/ FindAgain
    <2>1. pc[Main] \in {"started", "find"} /\ pc'[Main] = "find" /\ UNCHANGED <<session, publications>>
          /\ Search("bySession", session)
        BY <1>1, <1>6 DEF FindCounter, FindAgain, Step, Go, Reads, publisherVars, recordingsVars, processVars,
           driverVars
    <2> QED
        BY <2>1 DEF FoundInv, Publishes, Search
<1>7. CASE Found
    <2>1. pc[Main] = "find" /\ pc'[Main] = "recordingId" /\ reader.field = "done" /\ reader.result # None
          /\ counterId' = reader.result
          /\ UNCHANGED <<extendRecording, recording, session, publications, touched>>
        BY <1>1, <1>7 DEF Found, Reads, Go, GetRecordingId
    <2> QED
        BY <1>3, <2>1 DEF FoundInv, Publishes
<1>8. CASE Show
    <2>1. pc[Main] = "recordingId" /\ pc'[Main] = "offer" /\ counterId' = counterId
          /\ UNCHANGED <<extendRecording, recording, session, publications, touched>>
        BY <1>1, <1>8 DEF Show, Reads, Go, publisherVars, readerVars
    <2> QED
        BY <1>3, <2>1 DEF FoundInv, Publishes
<1>9. CASE Offer
    <2>1. pc[Main] = "offer" /\ pc'[Main] = "offer" /\ counterId' = counterId
          /\ UNCHANGED <<extendRecording, recording, session, touched>>
        BY <1>1, <1>9 DEF Offer, processVars, readerVars
    <2>2. publications'[session].state = publications[session].state
        <3>1. session \in Sessions
            BY <2>1, ConstantFacts DEF FoundInv, Publishes
        <3> QED
            BY <1>1, <1>9, <3>1 DEF Offer, Publications
    <2> QED
        BY <1>3, <2>1, <2>2 DEF FoundInv, Publishes
<1>10. CASE AllOffered \/ AwaitAgain
    <2>1. pc[Main] \in {"offer", "isActive"} /\ pc'[Main] = "await" /\ counterId' = counterId
          /\ UNCHANGED <<extendRecording, recording, session, publications, touched>>
        BY <1>1, <1>10 DEF AllOffered, AwaitAgain, Reads, Step, Go, publisherVars, readerVars
    <2> QED
        BY <1>3, <2>1 DEF FoundInv, Publishes
<1>11. CASE NotRecorded
    <2>1. pc[Main] = "await" /\ pc'[Main] = "isActive" /\ counterId' = counterId
          /\ UNCHANGED <<extendRecording, recording, session, publications, touched>>
          /\ reader'.op = "getRecordingId" /\ reader'.counterId = counterId /\ reader'.field = "state"
        BY <1>1, <1>11 DEF NotRecorded, Step, Go, GetRecordingId, publisherVars
    <2> QED
        BY <1>3, <2>1 DEF FoundInv, Publishes
<1>12. CASE ReportStopped
    <2>1. pc[Main] = "isActive" /\ pc'[Main] = "reported" /\ counterId' = counterId
          /\ UNCHANGED <<extendRecording, recording, session, touched>>
          /\ reader.field = "done" /\ reader.result # recording.recordingId
        BY <1>1, <1>12 DEF ReportStopped, Reads, IsActive, LeaveBlock, Go, publisherVars, readerVars
    <2> QED
        BY <1>3, <2>1 DEF FoundInv, Publishes
<1>13. CASE pc'[Main] \notin Publishes \cup {"reported"}
    BY <1>13 DEF FoundInv, Publishes
<1> QED
    BY <1>4, <1>5, <1>6, <1>7, <1>8, <1>9, <1>10, <1>11, <1>12, <1>13, PublisherMoves DEF Publishes

-----------------------------------------------------------------------------
LEMMA StopReportStep ==
    ASSUME TypeInv, CounterInv, SearchInv, StopReportInv, [Next]_vars
    PROVE  StopReportInv'
<1>1. CASE program # "publisher"
    BY <1>1 DEF StopReportInv, Next, vars, Publishing, MeasuringMain, MeasuringPoller, Operating, Searching,
       Reading, Others, Seen, publisherVars
<1>2. CASE program = "publisher"
    <2>1. CallsInv /\ OnlyExtension /\ FoundInv /\ program' = program
        BY <1>2, PublisherKinds DEF StopReportInv
    <2>2. CASE PublisherStep
        BY <1>2, <2>1, <2>2, CallsOwnStep, OnlyOwnStep, FoundOwnStep DEF StopReportInv
    <2>3. CASE OutsideStep
        BY <1>2, <2>1, <2>3, CallsOutsideStep, OnlyOutsideStep, FoundOutsideStep DEF StopReportInv
    <2>4. CASE (ReadStep \/ UNCHANGED readerVars) /\ UNCHANGED <<recordingsVars, publisherVars>>
        <3>1. UNCHANGED <<pc, calls, late, subscribed, extending, recordings, publications, publisherVars>>
            BY <2>4 DEF recordingsVars, processVars, archiveVars, driverVars
        <3>2. CallsInv' /\ OnlyExtension'
            BY <2>1, <3>1 DEF CallsInv, OnlyExtension, Extends, publisherVars
        <3>3. CASE ReadStep
            BY <1>2, <2>1, <2>4, <3>2, <3>3, FoundReadStep DEF StopReportInv
        <3>4. CASE UNCHANGED readerVars
            BY <1>2, <2>1, <3>1, <3>2, <3>4 DEF StopReportInv, FoundInv, Extends, IsStopped, IsCountedBy, publisherVars,
               readerVars
        <3> QED
            BY <2>4, <3>3, <3>4
    <2> QED
        BY <1>2, <2>2, <2>3, <2>4, PublisherKinds
<1> QED
    BY <1>1, <1>2

LEMMA StopReportInit == Init => StopReportInv
<1> SUFFICES ASSUME Init, program = "publisher"
             PROVE  StopReportInv
    BY DEF StopReportInv, Init
<1>1. /\ pc[Main] = "list" /\ late = {} /\ \A t \in Threads : calls[t].status = "none"
      /\ subscribed \subseteq {OtherSession}
      /\ \A r \in RecordingIds : recordings[r].session \in {AnySession, OtherSession}
    BY ConstantFacts DEF Init, Entry, RecordingsInit, NoCall, NoRecording
<1> QED
    BY <1>1, ConstantFacts DEF StopReportInv, CallsInv, OnlyExtension, FoundInv, Before, Working, Publishes,
       AnySession, Sessions

\* When RecordedBasicPublisher extends a recording and reports that it "has
\* stopped unexpectedly", the archive has stopped it: whoever stops it, whatever
\* the driver does with the counters, and however the calls end; unless the
\* counters changed under the search and it found a wrong one.
THEOREM ExtensionStopReportIsTrueHolds == Spec => []ExtensionStopReportIsTrue
<1>1. Init => TypeInv /\ CounterInv /\ SearchInv /\ StopReportInv
    <2>1. Init => SearchInv
        BY DEF Init, NoReader, SearchInv, IsReader, InSearch
    <2> QED
        BY <2>1, TypeInit, CounterInit, StopReportInit
<1>2. TypeInv /\ CounterInv /\ SearchInv /\ StopReportInv /\ [Next]_vars
        => TypeInv' /\ CounterInv' /\ SearchInv' /\ StopReportInv'
    BY TypeStep, CountersStep, StepIsRight, StopReportStep
<1>3. StopReportInv => ExtensionStopReportIsTrue
    <2> SUFFICES ASSUME StopReportInv, Extends, counterId \notin touched, pc[Main] = "reported",
                        NEW r \in RecordingIds, recordings[r].session = session
                 PROVE  recordings[r].state = "stopped"
        BY DEF ExtensionStopReportIsTrue, StopReportIsTrue
    <2>1. CallsInv /\ OnlyExtension /\ FoundInv
        BY DEF Extends, StopReportInv
    <2>2. session \in OwnSessions /\ IsStopped /\ calls[Main].status = "none"
        BY <2>1 DEF FoundInv, CallsInv, Publishes
    <2> QED
        BY <2>1, <2>2 DEF OnlyExtension, Working, Before, IsStopped
<1> QED
    BY <1>1, <1>2, <1>3, PTL DEF Spec

-----------------------------------------------------------------------------
(***************************************************************************)
(* RecordingThroughput.                                                    *)
(***************************************************************************)
\* Nothing is recorded twice, and events say what has happened.
EventIsTrue(e) ==
    LET r == recordings[e.recordingId] IN
    /\ e.kind = "progress" => r.state \in {"active", "stopped"} /\ e.position \in 1..r.position
    /\ e.kind = "stopped" => r.state = "stopped"

RecordedInv ==
    /\ extending = None
    /\ \A t \in Threads : calls[t].op # "extend"
    /\ \A c \in late : c.op # "extend"
    /\ \A r \in RecordingIds :
         recordings[r].state # "none" =>
            /\ recordings[r].session \in Sessions
            /\ publications[recordings[r].session].state # "none"
            /\ recordings[r].position \in 0..publications[recordings[r].session].position
    /\ \A n \in 1..Len(events) : EventIsTrue(events[n])
    /\ \A r \in clearedBy : recordings[r].state \in {"active", "stopped"}
    /\ pc[Poller] \in {"rate", "clear"} => clearedBy # {}

IsSeen(r) ==
    \/ recordings[r].session # published
    \/ recordings[r].state = "stopped"
    \/ pc[MainThread] \in {"await", "repeat"} /\ recordings[r].position = publications[published].position

FirstRound == round = 1 /\ pc[MainThread] \in {"stores", "storeFlag", "storePosition", "publish", "await", "repeat"}

FirstRoundInv ==
    FirstRound =>
      /\ published \in OwnSessions /\ publications[published].position = offered
      /\ pc[MainThread] \in {"stores", "storeFlag", "storePosition"} => offered = 0
      /\ pc[MainThread] \in {"storeFlag", "publish"} => stopPosition = NoStop
      /\ pc[MainThread] \in {"await", "repeat"} => offered = NumberOfMessages /\ stopPosition = NumberOfMessages
      /\ \A r \in clearedBy : IsSeen(r)
      /\ pc[MainThread] \in {"storePosition", "publish", "await"} => isRecording \/ clearedBy # {}
      /\ pc[MainThread] = "repeat" /\ ~disableRecording => clearedBy # {}

RoundInv == IF program = "throughput" THEN RecordedInv /\ FirstRoundInv ELSE round = 0

\* What happens while the sample measures: its own steps, or something outside,
\* and then its threads stay where they are.
AroundStep ==
    /\ UNCHANGED <<pc, throughputVars>>
    /\ \/ CallStep /\ UNCHANGED <<recordings, events, publications>>
       \/ RecordingStep /\ UNCHANGED <<calls, late, extending, publications>>
       \/ EventStep /\ UNCHANGED <<calls, late, extending, recordings>>
       \/ UNCHANGED <<calls, late, extending, recordings, publications, events>>

LEMMA ThroughputKinds ==
    ASSUME program = "throughput", [Next]_vars
    PROVE  program' = program /\ (MainStep \/ PollerStep \/ AroundStep)
<1>1. program' = program
    BY DEF Next, vars, Publishing, MeasuringMain, MeasuringPoller, Operating, Searching, Reading, Others, Seen
<1>2. CASE UNCHANGED vars \/ Reading
    BY <1>2 DEF vars, Reading, ReadStep, recordingsVars, processVars, archiveVars, driverVars, AroundStep
<1>3. CASE Others
    <2>1. UNCHANGED throughputVars /\ program' = program
        BY <1>1, <1>3 DEF Others, Seen
    <2>2. CASE CallStep
        BY <2>1, <2>2 DEF CallStep, GiveUp, Serve, Refuse, ServeLate, OthersStop, processVars, archiveVars,
           driverVars, AroundStep
    <2>3. CASE RecordingStep
        BY <2>1, <2>3 DEF RecordingStep, StartRecording, AllocateCounter, Record, StopRecording, processVars,
           AroundStep
    <2>4. CASE EventStep
        BY <2>1, <2>4 DEF EventStep, UnknownEventSent, OthersPublish, processVars, archiveVars, AroundStep
    <2>5. CASE Interrupt
        BY <2>1, <2>5 DEF Interrupt, archiveVars, driverVars, AroundStep
    <2> QED
        BY <1>3, <2>2, <2>3, <2>4, <2>5 DEF Others
<1> QED
    BY <1>1, <1>2, <1>3 DEF Next, Publishing, MeasuringMain, MeasuringPoller, Operating, Searching

\* Publications come and grow, and what was published is never taken back.
LEMMA PublicationsGrow ==
    ASSUME publications \in Publications, PublicationsChange, NEW s \in Sessions, publications[s].state # "none"
    PROVE  publications'[s].state # "none" /\ publications'[s].position >= publications[s].position
<1>1. CASE publications' = publications
    BY <1>1 DEF Publications
<1>2. CASE \E t \in Threads, q \in OwnSessions, shared \in BOOLEAN, position \in Nat :
             OpenPublication(t, q, shared, position)
    BY <1>2 DEF OpenPublication, Publications
<1>3. CASE \E t \in Threads, q \in OwnSessions : JoinPublication(t, q)
    BY <1>3 DEF JoinPublication, Publications
<1>4. CASE \E t \in Threads : \E q : Release(t, q)
    BY <1>4 DEF Release, Publications
<1>5. CASE \E q : publications' = [publications EXCEPT ![q].position = @ + 1]
    BY <1>5 DEF Publications
<1> QED
    BY <1>1, <1>2, <1>3, <1>4, <1>5 DEF PublicationsChange

\* A recording that has begun goes on in its session until it is stopped for good.
LEMMA RecordingsGrow ==
    ASSUME TypeInv, RecordedInv, RecordingStep, NEW r \in RecordingIds, recordings[r].state # "none"
    PROVE  /\ recordings'[r].state # "none" /\ recordings'[r].session = recordings[r].session
           /\ recordings'[r].position >= recordings[r].position
           /\ recordings'[r].position <= publications[recordings[r].session].position
           /\ recordings[r].state = "stopped" => recordings'[r].state = "stopped"
           /\ recordings[r].state \in {"active", "stopped"} => recordings'[r].state \in {"active", "stopped"}
<1>1. ~ \E s : MayRecordIn(r, s)
    BY DEF MayRecordIn, IsNew, RecordedInv
<1>2. /\ recordings[r].session \in Sessions
      /\ recordings[r].position \in 0..publications[recordings[r].session].position
      /\ publications[recordings[r].session].position \in Nat
    BY DEF RecordedInv, TypeInv, OutsideOK, Positions
<1> QED
    BY <1>1, <1>2, RecordingMoves

LEMMA EventsLeft ==
    ASSUME events \in Seq(Events), EventsChange, NEW n \in 1..Len(events')
    PROVE  \E m \in 1..Len(events) : events'[n] = events[m]
<1>1. CASE events # <<>> /\ events' = Tail(events)
    <2>1. Len(events') = Len(events) - 1 /\ \A k \in 1..Len(events') : events'[k] = events[k + 1]
        BY <1>1, HeadTailProperties
    <2>2. n + 1 \in 1..Len(events) /\ events'[n] = events[n + 1]
        BY <2>1, LenProperties
    <2> QED
        BY <2>2
<1>2. CASE events' = events \/ events' = <<>>
    BY <1>2
<1> QED
    BY <1>1, <1>2 DEF EventsChange

-----------------------------------------------------------------------------
LEMMA RecordedMainStep ==
    ASSUME TypeInv, RecordedInv, program = "throughput", MainStep
    PROVE  RecordedInv'
<1>1. pc = [t \in Threads |-> pc[t]] /\ MainThread \in Threads /\ Poller \in Threads /\ Poller # MainThread
      /\ calls \in [Threads -> Calls] /\ publications \in Publications
    BY ConstantFacts, OutsideTypes, ThroughputAssumption DEF TypeInv, CallsOK, ThroughputAssumption
<1>2. UNCHANGED <<late, extending, recordings>> /\ PublicationsChange
    BY MainChange DEF OwnChange
<1>3. UNCHANGED <<events, clearedBy>>
    BY DEF MainStep, AskToRecord, Recording, AddRoundPublication, StoreIsRecording, StoreNoStop, Publish,
       StoreStopPosition, EndOfRound, Repeat, Quit, MainThrows, Join, Destroyed, outside, archiveVars, throughputVars
<1>4. pc'[Poller] \in {pc[Poller], "crashed"}
    BY <1>1 DEF MainStep, AskToRecord, Recording, AddRoundPublication, StoreIsRecording, StoreNoStop, Publish,
       StoreStopPosition, EndOfRound, Repeat, Quit, MainThrows, Join, Destroyed, MainGoes, Go, Crash, processVars
<1>5. ASSUME NEW t \in Threads
      PROVE  calls'[t].op # "extend"
    <2>1. \/ calls' = calls
          \/ calls' = [calls EXCEPT ![MainThread] = NoCall]
          \/ Ask(MainThread, "start", AnySession, None)
          \/ Ask(MainThread, "stop", AnySession, None)
        BY DEF MainStep, AskToRecord, Recording, AddRoundPublication, StoreIsRecording, StoreNoStop, Publish,
           StoreStopPosition, EndOfRound, Repeat, Quit, MainThrows, Join, Destroyed, Returned, Threw, processVars
    <2> QED
        BY <1>1, <2>1 DEF RecordedInv, Ask, NoCall
<1>6. ASSUME NEW r \in RecordingIds, recordings[r].state # "none"
      PROVE  /\ publications'[recordings[r].session].state # "none"
             /\ recordings[r].position \in 0..publications'[recordings[r].session].position
    <2>1. recordings[r].session \in Sessions /\ publications[recordings[r].session].state # "none"
          /\ recordings[r].position \in 0..publications[recordings[r].session].position
          /\ publications'[recordings[r].session].position \in Nat
          /\ publications[recordings[r].session].position \in Nat
        BY <1>1, <1>2, <1>6, PublicationsKeepType DEF RecordedInv, Publications
    <2>2. publications'[recordings[r].session].position >= publications[recordings[r].session].position
          /\ publications'[recordings[r].session].state # "none"
        BY <1>1, <1>2, <2>1, PublicationsGrow
    <2> QED
        BY <2>1, <2>2
<1> QED
    BY <1>2, <1>3, <1>4, <1>5, <1>6 DEF RecordedInv, EventIsTrue

LEMMA RecordedPollerStep ==
    ASSUME TypeInv, RecordedInv, program = "throughput", PollerStep
    PROVE  RecordedInv'
<1>1. pc = [t \in Threads |-> pc[t]] /\ Poller \in Threads /\ events \in Seq(Events)
      /\ clearedBy \subseteq RecordingIds
    BY ConstantFacts, OutsideTypes DEF TypeInv, ThroughputOK, ThroughputTypeOK
<1>2. UNCHANGED <<late, extending, recordings>> /\ EventsChange
    BY PollerChange DEF OwnChange
<1>3. UNCHANGED <<calls, publications>>
    BY DEF PollerStep, Subscribe, SubscribeFails, PollEvents, EndOfThread, Started, Progress, Stopped, Rate,
       ClearIsRecording, UnknownEvent, EndOfPoll, TakeEvent, driverVars
<1>4. \A n \in 1..Len(events') : EventIsTrue(events'[n])
    BY <1>1, <1>2, EventsLeft DEF RecordedInv
<1>5. ASSUME NEW kind \in {"progress", "stopped"}, NEW to, TakeEvent(kind, to)
      PROVE  /\ \A r \in clearedBy' : recordings[r].state \in {"active", "stopped"}
             /\ clearedBy' = {} => to \notin {"rate", "clear"}
    <2>1. Head(events).kind = kind /\ events # <<>> /\ Head(events) = events[1] /\ 1 \in 1..Len(events)
        BY <1>1, <1>5, HeadTailProperties, LenProperties, EmptySeq DEF TakeEvent
    <2>2. recordings[Head(events).recordingId].state \in {"active", "stopped"}
        BY <1>5, <2>1 DEF RecordedInv, EventIsTrue
    <2> QED
        BY <1>5, <2>2 DEF TakeEvent, RecordedInv
<1>6. /\ \A r \in clearedBy' : recordings[r].state \in {"active", "stopped"}
      /\ pc'[Poller] \in {"rate", "clear"} => clearedBy' # {}
    <2>1. CASE Progress
        <3>1. PICK to \in {"rate", "handle"} : TakeEvent("progress", to)
            BY <2>1 DEF Progress
        <3>2. pc'[Poller] = to
            BY <1>1, <3>1 DEF TakeEvent, PollerGoes, Go
        <3> QED
            BY <1>5, <3>1, <3>2
    <2>2. CASE Stopped
        <3>1. pc'[Poller] = "clear" /\ TakeEvent("stopped", "clear")
            BY <1>1, <2>2 DEF Stopped, TakeEvent, PollerGoes, Go
        <3> QED
            BY <1>5, <3>1
    <2>3. CASE Rate
        <3>1. clearedBy' = clearedBy /\ pc[Poller] = "rate"
            BY <2>3 DEF Rate, throughputVars
        <3> QED
            BY <3>1 DEF RecordedInv
    <2>4. CASE \/ Subscribe \/ SubscribeFails \/ PollEvents \/ EndOfThread \/ Started \/ ClearIsRecording
               \/ UnknownEvent \/ EndOfPoll
        <3>1. clearedBy' = clearedBy /\ pc'[Poller] \notin {"rate", "clear"}
            BY <1>1, <2>4 DEF Subscribe, SubscribeFails, PollEvents, EndOfThread, Started, ClearIsRecording,
               UnknownEvent, EndOfPoll, TakeEvent, PollerGoes, Go, throughputVars
        <3> QED
            BY <3>1 DEF RecordedInv
    <2> QED
        BY <2>1, <2>2, <2>3, <2>4 DEF PollerStep
<1> QED
    BY <1>2, <1>3, <1>4, <1>6 DEF RecordedInv, EventIsTrue

LEMMA RecordedAroundStep ==
    ASSUME TypeInv, RecordedInv, AroundStep
    PROVE  RecordedInv'
<1>1. UNCHANGED <<pc, clearedBy>> /\ calls \in [Threads -> Calls] /\ events \in Seq(Events)
      /\ recordings \in [RecordingIds -> RecordingTypes] /\ publications \in Publications
      /\ clearedBy \subseteq RecordingIds
    BY OutsideTypes DEF AroundStep, throughputVars, TypeInv, CallsOK, ThroughputOK, ThroughputTypeOK
<1>2. CASE UNCHANGED <<calls, late, extending, recordings, publications, events>>
    BY <1>1, <1>2 DEF RecordedInv, EventIsTrue
<1>3. ASSUME CallStep, UNCHANGED <<recordings, events, publications>>
      PROVE  RecordedInv'
    <2>1. ASSUME extending' = None, \A t \in Threads : calls'[t].op = calls[t].op,
                 \A c \in late' : c \in late \/ \E t \in Threads : c = calls[t]
          PROVE  RecordedInv'
        BY <1>1, <1>3, <2>1 DEF RecordedInv, EventIsTrue
    <2>2. ASSUME NEW t \in Threads, GiveUp(t) \/ Refuse(t)
          PROVE  RecordedInv'
        <3>1. /\ extending' = None
              /\ \A c \in late' : c \in late \/ \E u \in Threads : c = calls[u]
              /\ calls' = [calls EXCEPT ![t].status = "failed"]
            BY <2>2 DEF GiveUp, Refuse, archiveVars, RecordedInv
        <3>2. \A u \in Threads : calls'[u].op = calls[u].op
            BY <1>1, <3>1 DEF Calls
        <3> QED
            BY <2>1, <3>1, <3>2
    <2>3. ASSUME NEW t \in Threads, Serve(t)
          PROVE  RecordedInv'
        <3>1. PICK id \in {None} \cup {ReplayId(s) : s \in ReplaySessions}, listing \in {<<>>, Listing} :
                Answer(t, id, listing)
            BY <2>3 DEF Serve
        <3>2. PICK status \in {"done", "failed"} :
                calls' = [calls EXCEPT ![t].status = status, ![t].id = id, ![t].listing = listing]
            BY <3>1 DEF Answer
        <3>3. \A u \in Threads : calls'[u].op = calls[u].op
            BY <1>1, <3>2 DEF Calls
        <3>4. extending' = None /\ late' = late
            BY <2>3 DEF Serve, StartRequested, ExtendRequested, StopRequested, ReplayRequested, Unsubscribe,
               RecordedInv
        <3> QED
            BY <2>1, <3>3, <3>4
    <2>4. CASE ServeLate
        <3>1. extending' = None /\ late' \subseteq late /\ calls' = calls
            BY <2>4 DEF ServeLate, StartRequested, ExtendRequested, StopRequested, ReplayRequested, Unsubscribe,
               RecordedInv
        <3> QED
            BY <2>1, <3>1
    <2>5. CASE OthersStop
        <3>1. extending' = None /\ late' = late /\ calls' = calls
            BY <2>5 DEF OthersStop, Unsubscribe, processVars, RecordedInv
        <3> QED
            BY <2>1, <3>1
    <2> QED
        BY <1>3, <2>2, <2>3, <2>4, <2>5 DEF CallStep
<1>4. ASSUME RecordingStep, UNCHANGED <<calls, late, extending, publications>>
      PROVE  RecordedInv'
    <2>1. ASSUME NEW r \in RecordingIds, recordings'[r].state # "none"
          PROVE  /\ recordings'[r].session \in Sessions
                 /\ publications[recordings'[r].session].state # "none"
                 /\ recordings'[r].position \in 0..publications[recordings'[r].session].position
        <3>1. CASE recordings[r].state = "none"
            <4>1. PICK s \in Sessions :
                    /\ publications[s].state = "open" /\ recordings'[r].session = s
                    /\ recordings'[r].position = publications[s].position
                BY <1>4, <2>1, <3>1, RecordingMoves
            <4> QED
                BY <1>1, <4>1 DEF Publications
        <3>2. CASE recordings[r].state # "none"
            <4>1. /\ recordings[r].session \in Sessions
                  /\ publications[recordings[r].session].state # "none"
                  /\ recordings[r].position \in 0..publications[recordings[r].session].position
                  /\ recordings'[r].position \in Int
                BY <3>2, <1>4, RecordingStepKeepsType DEF RecordedInv, OutsideOK, RecordingsTypeOK
            <4> QED
                BY <1>4, <3>2, <4>1, RecordingsGrow
        <3> QED
            BY <3>1, <3>2
    <2>2. ASSUME NEW n \in 1..Len(events')
          PROVE  EventIsTrue(events[n])'
        <3> DEFINE e == events'[n]
        <3>1. CASE n \in 1..Len(events) /\ e = events[n]
            <4>1. EventIsTrue(e)
                BY <3>1 DEF RecordedInv
            <4>2. e.kind \in {"progress", "stopped"} => e.recordingId \in RecordingIds /\ e.position \in Int
                BY <1>1, <3>1 DEF Events
            <4>3. e.kind \in {"progress", "stopped"} =>
                     recordings[e.recordingId].position \in Int /\ recordings'[e.recordingId].position \in Int
                BY <1>1, <1>4, <4>2, RecordingStepKeepsType DEF RecordingTypes, OutsideOK, RecordingsTypeOK
            <4> HIDE DEF e
            <4>4. /\ e.kind = "progress" => recordings'[e.recordingId].state \in {"active", "stopped"}
                                            /\ e.position \in 1..recordings'[e.recordingId].position
                  /\ e.kind = "stopped" => recordings'[e.recordingId].state = "stopped"
                BY <1>4, <4>1, <4>2, <4>3, RecordingsGrow DEF EventIsTrue
            <4> QED
                BY <4>4 DEF EventIsTrue, e
        <3>2. CASE ~(n \in 1..Len(events) /\ e = events[n])
            <4>1. ASSUME NEW s \in Sessions, StartRecording(s)
                  PROVE  FALSE
                BY <3>2, <4>1 DEF StartRecording
            <4>2. PICK q \in RecordingIds : AllocateCounter(q) \/ Record(q) \/ StopRecording(q)
                BY <1>4, <4>1 DEF RecordingStep
            <4>3. PICK kind \in {"started", "progress", "stopped"} :
                    \E position :
                      /\ Event(kind, q, position)
                      /\ kind = "progress" => Record(q) /\ position = recordings[q].position + 1
                      /\ kind = "stopped" => StopRecording(q)
                BY <4>2 DEF AllocateCounter, Record, StopRecording
            <4>4. e.kind = kind /\ e.recordingId = q
                  /\ (kind = "progress" => Record(q) /\ e.position = recordings[q].position + 1)
                  /\ (kind = "stopped" => StopRecording(q))
                <5>1. PICK position :
                      /\ Event(kind, q, position)
                      /\ kind = "progress" => Record(q) /\ position = recordings[q].position + 1
                      /\ kind = "stopped" => StopRecording(q)
                    BY <4>3
                <5>2. events' = Append(events, [kind |-> kind, recordingId |-> q, position |-> position])
                    BY <3>2, <5>1 DEF Event
                <5>3. e = [kind |-> kind, recordingId |-> q, position |-> position]
                    BY <1>1, <3>2, <5>2
                <5> QED
                    BY <5>1, <5>3
            <4> HIDE DEF e
            <4>5. CASE kind = "progress"
                <5>1. recordings'[q].position = recordings[q].position + 1 /\ recordings'[q].state = "active"
                      /\ recordings[q].position \in Nat
                    BY <1>1, <4>4, <4>5 DEF Record, RecordingTypes, RecordedInv
                <5>2. e.position \in 1..recordings'[q].position
                    BY <4>4, <4>5, <5>1
                <5> QED
                    BY <4>4, <4>5, <5>1, <5>2 DEF EventIsTrue, e
            <4>6. CASE kind = "stopped"
                <5>1. recordings'[q].state = "stopped"
                    BY <1>1, <4>4, <4>6 DEF StopRecording, RecordingTypes
                <5> QED
                    BY <4>4, <4>6, <5>1 DEF EventIsTrue, e
            <4>7. CASE kind = "started"
                BY <4>4, <4>7 DEF EventIsTrue, e
            <4> QED
                BY <4>5, <4>6, <4>7
        <3> QED
            BY <3>1, <3>2
    <2>3. ASSUME NEW r \in clearedBy
          PROVE  recordings'[r].state \in {"active", "stopped"}
        BY <1>1, <1>4, <2>3, RecordingsGrow DEF RecordedInv
    <2> QED
        BY <1>1, <1>4, <2>1, <2>2, <2>3 DEF RecordedInv
<1>5. ASSUME EventStep, UNCHANGED <<calls, late, extending, recordings>>
      PROVE  RecordedInv'
    <2>1. CASE UnknownEventSent
        <3>1. publications' = publications
              /\ events' = Append(events, [kind |-> "unknown", recordingId |-> None, position |-> 0])
            BY <2>1 DEF UnknownEventSent, driverVars
        <3>2. \A n \in 1..Len(events') :
                 events'[n].kind = "unknown" \/ (n \in 1..Len(events) /\ events'[n] = events[n])
            BY <1>1, <3>1
        <3>3. ASSUME NEW n \in 1..Len(events')
              PROVE  EventIsTrue(events[n])' \/ events'[n].kind = "unknown"
            BY <1>1, <1>5, <3>2 DEF RecordedInv, EventIsTrue
        <3>4. \A n \in 1..Len(events') : EventIsTrue(events[n])'
            BY <3>3 DEF EventIsTrue
        <3> QED
            BY <1>1, <1>5, <3>1, <3>4 DEF RecordedInv
    <2>2. CASE OthersPublish
        <3>1. PublicationsChange /\ events' = events
            BY <2>2 DEF OthersPublish, PublicationsChange, archiveVars
        <3>2. publications' \in Publications
            BY <1>1, <3>1, PublicationsKeepType
        <3>3. ASSUME NEW r \in RecordingIds, recordings[r].state # "none"
              PROVE  /\ publications'[recordings[r].session].state # "none"
                     /\ recordings[r].position \in 0..publications'[recordings[r].session].position
            <4>1. recordings[r].session \in Sessions /\ publications[recordings[r].session].state # "none"
                  /\ recordings[r].position \in 0..publications[recordings[r].session].position
                  /\ publications'[recordings[r].session].position \in Nat
                  /\ publications[recordings[r].session].position \in Nat
                BY <1>1, <3>2, <3>3 DEF RecordedInv, Publications
            <4>2. publications'[recordings[r].session].position >= publications[recordings[r].session].position
                  /\ publications'[recordings[r].session].state # "none"
                BY <1>1, <3>1, <4>1, PublicationsGrow
            <4> QED
                BY <4>1, <4>2
        <3> QED
            BY <1>1, <1>5, <3>1, <3>3 DEF RecordedInv, EventIsTrue
    <2> QED
        BY <1>5, <2>1, <2>2 DEF EventStep
<1> QED
    BY <1>2, <1>3, <1>4, <1>5 DEF AroundStep

-----------------------------------------------------------------------------
LEMMA FirstMainStep ==
    ASSUME TypeInv, RecordedInv, FirstRoundInv, program = "throughput", MainStep
    PROVE  FirstRoundInv'
<1>1. /\ pc = [t \in Threads |-> pc[t]] /\ MainThread \in Threads /\ publications \in Publications
      /\ OwnSessions \subseteq Sessions
      /\ round \in Nat /\ offered \in 0..NumberOfMessages /\ NumberOfMessages \in Nat
      /\ clearedBy \subseteq RecordingIds
    BY ConstantFacts, OutsideTypes, ThroughputAssumption
       DEF TypeInv, ThroughputOK, ThroughputTypeOK, ThroughputAssumption
<1>2. recordings' = recordings
    BY MainChange DEF OwnChange
<1>3. CASE AddRoundPublication
    <2>1. PICK s \in OwnSessions : OpenPublication(MainThread, s, FALSE, 0) /\ published' = s
        BY <1>3 DEF AddRoundPublication
    <2>2. publications[s].state = "none" /\ publications'[s].position = 0
        BY <1>1, <2>1 DEF OpenPublication, Publications
    <2>3. pc'[MainThread] = "stores" /\ offered' = 0 /\ clearedBy' = clearedBy
        BY <1>1, <1>3 DEF AddRoundPublication, MainGoes, Go
    <2>4. ASSUME NEW r \in clearedBy
          PROVE  recordings[r].session # s
        BY <1>1, <2>2, <2>4 DEF RecordedInv
    <2> QED
        BY <1>2, <2>1, <2>2, <2>3, <2>4 DEF FirstRoundInv, FirstRound, IsSeen
<1>4. CASE StoreIsRecording \/ StoreNoStop
    <2>1. /\ UNCHANGED <<publications, published, offered, round, clearedBy, disableRecording>>
          /\ \/ pc[MainThread] = "stores" /\ pc'[MainThread] = "storePosition" /\ isRecording'
             \/ pc[MainThread] = "storeFlag" /\ pc'[MainThread] = "publish" /\ isRecording'
                /\ stopPosition' = stopPosition
             \/ pc[MainThread] = "stores" /\ pc'[MainThread] = "storeFlag" /\ stopPosition' = NoStop
             \/ pc[MainThread] = "storePosition" /\ pc'[MainThread] = "publish" /\ stopPosition' = NoStop
                /\ isRecording' = isRecording
        BY <1>1, <1>4 DEF StoreIsRecording, StoreNoStop, MainGoes, Go
    <2> QED
        BY <1>2, <2>1 DEF FirstRoundInv, FirstRound, IsSeen
<1>5. CASE Publish
    <2>1. /\ pc[MainThread] = "publish" /\ pc'[MainThread] = "publish"
          /\ offered' = offered + 1
          /\ UNCHANGED <<published, round, clearedBy, stopPosition, isRecording>>
        BY <1>1, <1>5 DEF Publish, processVars
    <2>2. published \in OwnSessions => publications'[published].position = publications[published].position + 1
        BY <1>1, <1>5 DEF Publish, Publications
    <2> QED
        BY <1>2, <2>1, <2>2 DEF FirstRoundInv, FirstRound, IsSeen
<1>6. CASE StoreStopPosition
    <2>1. /\ pc[MainThread] = "publish" /\ pc'[MainThread] \in {"await", "crashed"}
          /\ offered = NumberOfMessages /\ stopPosition' = publications[published].position
          /\ UNCHANGED <<publications, published, offered, round, clearedBy, isRecording>>
        BY <1>1, <1>6 DEF StoreStopPosition, Go, Crash
    <2> QED
        BY <1>2, <2>1 DEF FirstRoundInv, FirstRound, IsSeen
<1>7. CASE EndOfRound
    <2>1. /\ pc[MainThread] = "await" /\ pc'[MainThread] = "repeat" /\ (disableRecording \/ ~isRecording)
          /\ UNCHANGED throughputVars
        BY <1>1, <1>7 DEF EndOfRound, MainGoes, Go
    <2>2. published \in OwnSessions => publications'[published].position = publications[published].position
        BY <1>1, <1>7 DEF EndOfRound, Release, Publications
    <2> QED
        BY <1>2, <2>1, <2>2 DEF FirstRoundInv, FirstRound, IsSeen, throughputVars
<1>8. CASE AskToRecord \/ Recording \/ Repeat \/ Quit \/ MainThrows \/ Join \/ Destroyed
    <2>1. pc'[MainThread] \in {"round", "recording", "join", "done", "stop", "crashed"}
        BY <1>1, <1>8 DEF AskToRecord, Recording, Repeat, Quit, MainThrows, Join, Destroyed, MainGoes, Go, Crash
    <2> QED
        BY <2>1 DEF FirstRoundInv, FirstRound
<1> QED
    BY <1>3, <1>4, <1>5, <1>6, <1>7, <1>8 DEF MainStep

\* An event that ends the wait is of another recording, or says that all is recorded.
LEMMA EventIsOfEnd ==
    ASSUME TypeInv, RecordedInv, FirstRoundInv, FirstRound, events # <<>>,
           \/ Head(events).kind = "stopped"
           \/ Head(events).kind = "progress" /\ IsPastStop(Head(events))
    PROVE  IsSeen(Head(events).recordingId)
<1> DEFINE e == Head(events)
           r == e.recordingId
<1>1. e \in Events /\ EventIsTrue(e)
    <2>1. e = events[1] /\ 1 \in 1..Len(events) /\ events \in Seq(Events)
        BY OutsideTypes, HeadTailProperties, LenProperties, EmptySeq
    <2> QED
        BY <2>1 DEF RecordedInv
<1> HIDE DEF e
<1>2. CASE e.kind = "stopped"
    BY <1>1, <1>2 DEF EventIsTrue, IsSeen, e
<1>3. CASE e.kind = "progress" /\ IsPastStop(e)
    <2>1. r \in RecordingIds /\ e.position \in Int /\ e.position >= stopPosition
          /\ recordings[r].state # "none" /\ e.position \in 1..recordings[r].position
        BY <1>1, <1>3 DEF Events, EventIsTrue, IsPastStop
    <2>2. recordings[r].position \in 0..publications[recordings[r].session].position
        BY <2>1 DEF RecordedInv
    <2>3. /\ published \in OwnSessions /\ publications[published].position = offered
          /\ offered \in 0..NumberOfMessages /\ NumberOfMessages \in Nat /\ NoStop \in Nat
          /\ NoStop > NumberOfMessages
        BY ThroughputAssumption DEF FirstRoundInv, TypeInv, ThroughputOK, ThroughputTypeOK, ThroughputAssumption
    <2>4. CASE recordings[r].session # published
        BY <2>4 DEF IsSeen, e
    <2>5. CASE recordings[r].session = published
        <3>1. e.position \in 1..offered
            BY <2>1, <2>2, <2>3, <2>5
        <3>2. pc[MainThread] \in {"await", "repeat"} /\ offered = NumberOfMessages /\ stopPosition = NumberOfMessages
            <4>1. pc[MainThread] \notin {"stores", "storeFlag", "storePosition"}
                BY <3>1 DEF FirstRoundInv
            <4>2. pc[MainThread] # "publish"
                BY <2>1, <2>3, <3>1 DEF FirstRoundInv
            <4> QED
                BY <4>1, <4>2 DEF FirstRoundInv, FirstRound
        <3>3. recordings[r].position = publications[published].position
            BY <2>1, <2>2, <2>3, <2>5, <3>1, <3>2
        <3> QED
            BY <3>2, <3>3 DEF IsSeen, e
    <2> QED
        BY <2>4, <2>5
<1> QED
    BY <1>2, <1>3 DEF e

LEMMA FirstPollerStep ==
    ASSUME TypeInv, RecordedInv, FirstRoundInv, program = "throughput", PollerStep
    PROVE  FirstRoundInv'
<1>1. pc = [t \in Threads |-> pc[t]] /\ MainThread \in Threads /\ Poller \in Threads /\ MainThread # Poller
    BY ConstantFacts, ThroughputAssumption DEF TypeInv, ThroughputAssumption
<1>2. recordings' = recordings
    BY PollerChange DEF OwnChange
<1>3. UNCHANGED <<publications, disableRecording, stopPosition, published, offered, round>>
    BY DEF PollerStep, Subscribe, SubscribeFails, PollEvents, EndOfThread, Started, Progress, Stopped, Rate,
       ClearIsRecording, UnknownEvent, EndOfPoll, TakeEvent, driverVars, throughputVars
<1>4. pc'[MainThread] \in {pc[MainThread], "crashed"}
    BY <1>1 DEF PollerStep, Subscribe, SubscribeFails, PollEvents, EndOfThread, Started, Progress, Stopped, Rate,
       ClearIsRecording, UnknownEvent, EndOfPoll, TakeEvent, PollerGoes, Go, Crash
<1>5. FirstRound' => FirstRound /\ pc'[MainThread] = pc[MainThread]
    BY <1>3, <1>4 DEF FirstRound
<1>6. ASSUME FirstRound', \A r \in clearedBy' \ clearedBy : IsSeen(r), clearedBy \subseteq clearedBy',
             isRecording' = isRecording \/ clearedBy # {}
      PROVE  FirstRoundInv'
    BY <1>2, <1>3, <1>5, <1>6 DEF FirstRoundInv, IsSeen
<1>7. CASE Progress
    <2>1. /\ events # <<>> /\ Head(events).kind = "progress" /\ isRecording' = isRecording
          /\ \/ clearedBy' = clearedBy
             \/ clearedBy' = clearedBy \cup {Head(events).recordingId} /\ IsPastStop(Head(events))
        BY <1>7 DEF Progress, TakeEvent
    <2>2. FirstRound' => \A r \in clearedBy' \ clearedBy : IsSeen(r)
        BY <1>5, <2>1, EventIsOfEnd
    <2> QED
        BY <1>6, <2>1, <2>2 DEF FirstRoundInv
<1>8. CASE Stopped
    <2>1. /\ events # <<>> /\ Head(events).kind = "stopped" /\ isRecording' = isRecording
          /\ clearedBy' = clearedBy \cup {Head(events).recordingId}
        BY <1>8 DEF Stopped, TakeEvent
    <2>2. FirstRound' => \A r \in clearedBy' \ clearedBy : IsSeen(r)
        BY <1>5, <2>1, EventIsOfEnd
    <2> QED
        BY <1>6, <2>1, <2>2 DEF FirstRoundInv
<1>9. CASE ClearIsRecording
    <2>1. clearedBy' = clearedBy /\ clearedBy # {}
        BY <1>9 DEF ClearIsRecording, PollerGoes, RecordedInv
    <2> QED
        BY <1>6, <2>1 DEF FirstRoundInv
<1>10. CASE Subscribe \/ SubscribeFails \/ PollEvents \/ EndOfThread \/ Started \/ Rate \/ UnknownEvent \/ EndOfPoll
    <2>1. clearedBy' = clearedBy /\ isRecording' = isRecording
        BY <1>10 DEF Subscribe, SubscribeFails, PollEvents, EndOfThread, Started, Rate, UnknownEvent, EndOfPoll,
           TakeEvent, throughputVars
    <2> QED
        BY <1>6, <2>1 DEF FirstRoundInv
<1> QED
    BY <1>7, <1>8, <1>9, <1>10 DEF PollerStep

LEMMA FirstAroundStep ==
    ASSUME TypeInv, RecordedInv, FirstRoundInv, AroundStep
    PROVE  FirstRoundInv'
<1>1. UNCHANGED <<pc, disableRecording, isRecording, stopPosition, published, offered, round, clearedBy>>
      /\ clearedBy \subseteq RecordingIds /\ publications \in Publications
    BY OutsideTypes DEF AroundStep, throughputVars, TypeInv, ThroughputOK, ThroughputTypeOK
<1>2. ASSUME published \in OwnSessions
      PROVE  publications'[published] = publications[published]
    <2>1. CASE publications' = publications
        BY <2>1
    <2>2. CASE EventStep
        BY <1>1, <1>2, <2>2, ConstantFacts DEF EventStep, UnknownEventSent, OthersPublish, driverVars, Publications
    <2> QED
        BY <2>1, <2>2 DEF AroundStep
<1>3. ASSUME FirstRound, NEW r \in clearedBy, IsSeen(r)
      PROVE  IsSeen(r)'
    <2>1. publications'[published] = publications[published]
        BY <1>2, <1>3 DEF FirstRoundInv
    <2>2. CASE recordings' = recordings
        BY <1>1, <1>3, <2>1, <2>2 DEF IsSeen
    <2>3. CASE RecordingStep
        <3>1. recordings[r].state # "none"
            BY <1>3 DEF RecordedInv
        <3>2. /\ recordings[r].session \in Sessions
              /\ recordings[r].position \in 0..publications[recordings[r].session].position
              /\ publications[recordings[r].session].position \in Nat
              /\ recordings'[r].position \in Int
            BY <1>1, <2>3, <3>1, RecordingStepKeepsType DEF RecordedInv, Publications, OutsideOK, RecordingsTypeOK
        <3>3. r \in RecordingIds
            BY <1>1
        <3> QED
            BY <1>1, <1>3, <2>1, <2>3, <3>1, <3>2, <3>3, RecordingsGrow DEF IsSeen
    <2> QED
        BY <2>2, <2>3 DEF AroundStep
<1>4. FirstRound' = FirstRound
    BY <1>1 DEF FirstRound
<1> QED
    BY <1>1, <1>2, <1>3, <1>4 DEF FirstRoundInv

LEMMA RoundStep ==
    ASSUME TypeInv, RoundInv, [Next]_vars
    PROVE  RoundInv'
<1>1. CASE program # "throughput"
    BY <1>1 DEF RoundInv, Next, vars, Publishing, MeasuringMain, MeasuringPoller, Operating, Searching, Reading,
       Others, Seen, throughputVars
<1>2. CASE program = "throughput"
    BY <1>2, ThroughputKinds, RecordedMainStep, RecordedPollerStep, RecordedAroundStep, FirstMainStep,
       FirstPollerStep, FirstAroundStep DEF RoundInv
<1> QED
    BY <1>1, <1>2

LEMMA RoundInit == Init => RoundInv
<1> SUFFICES ASSUME Init, program = "throughput"
             PROVE  RoundInv
    BY DEF RoundInv, Init, ThroughputInit
<1>1. /\ extending = None /\ late = {} /\ events = <<>> /\ clearedBy = {} /\ round = 0
      /\ \A t \in Threads : calls[t].op = "none"
      /\ \A r \in RecordingIds : recordings[r].state = "none"
      /\ pc[Poller] = "subscribe"
    BY ConstantFacts, ThroughputAssumption DEF Init, Entry, RecordingsInit, ThroughputInit, NoCall, NoRecording,
       ThroughputAssumption
<1> QED
    BY <1>1 DEF RoundInv, RecordedInv, FirstRoundInv, FirstRound

\* The first round of RecordingThroughput ends when all that it published is
\* recorded or the recording was stopped, or for an event of another recording:
\* for any number of messages, recordings and events on their way, in whichever
\* order the two stores come.
THEOREM FirstRoundIsRecordedHolds == Spec => []FirstRoundIsRecorded
<1>1. Init => TypeInv /\ RoundInv
    BY TypeInit, RoundInit
<1>2. TypeInv /\ RoundInv /\ [Next]_vars => TypeInv' /\ RoundInv'
    BY TypeStep, RoundStep
<1>3. RoundInv => FirstRoundIsRecorded
    BY DEF RoundInv, FirstRoundInv, FirstRound, IsSeen, FirstRoundIsRecorded
<1> QED
    BY <1>1, <1>2, <1>3, PTL DEF Spec
=============================================================================
