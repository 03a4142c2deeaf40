------------------------ MODULE RecordedBasicPublisher ------------------------
(***************************************************************************)
(* The sample of that name: it starts a recording, or extends the latest,  *)
(* waits for the counter of the recording, publishes, and waits until all  *)
(* is recorded.  The calls of the client library that register a           *)
(* publication and wait for it are one step, the moment the driver answers.*)
(***************************************************************************)
EXTENDS RecordingPos

CONSTANTS
    Main,               \* the thread that runs main()
    TermBits,           \* log2 of the term length of a recording
    InitialTermId,      \* the first term of a recording
    MessagesCount       \* messages-count

ASSUME PublisherAssumption ==
    /\ Main \in Threads /\ TermBits \in Nat /\ MessagesCount \in Nat
    /\ InitialTermId \in Int /\ InitialTermId = Int32(InitialTermId)

VARIABLES
    extendRecording,    \* the option of the command line
    recording,          \* getLatestRecordingData
    session,            \* of the publication
    counterId,
    messages            \* messages offered

publisherVars == <<extendRecording, recording, session, counterId, messages>>

NoRecordingData == [recordingId |-> None, stopPosition |-> None]

PublisherInit ==
    /\ recording = NoRecordingData
    /\ session = None
    /\ counterId = None
    /\ messages = 0

\* A step of main() from one place to another.
Step(from, to) == pc[Main] = from /\ Go(Main, to)

ListRecordings ==
    /\ Step("list", "listed")
    /\ Ask(Main, "list", AnySession, None)
    /\ UNCHANGED <<outside, publications, publisherVars, readerVars>>

\* The consumer of getLatestRecordingData keeps what it is given last.
LatestRecordingData(listing) ==
    IF listing = <<>> THEN NoRecordingData ELSE listing[Len(listing)]

Latest ==
    /\ Step("listed", "add")
    /\ Returned(Main)
    /\ recording' = LatestRecordingData(calls[Main].listing)
    /\ UNCHANGED <<outside, publications, extendRecording, session, counterId, messages, readerVars>>

Extends == extendRecording /\ recording.recordingId # None

\* The term-id and term-offset of a channel that goes on where a recording ends.
NextTermId(position) == Int32(position \div 2^TermBits + InitialTermId + 1)  \* mutant of TermId
TermId(position) == Int32(position \div 2^TermBits + InitialTermId)
TermOffset(position) == position % 2^TermBits

\* Where the driver starts a publication with these parameters.
StartPosition(termId, termOffset) == Int32(termId - InitialTermId) * 2^TermBits + termOffset

\* The driver refuses a start before the first term.
AddExclusivePublication ==
    LET stop == recording.stopPosition
        start == StartPosition(TermId(stop), TermOffset(stop))
    IN
    /\ Step("add", "start")
    /\ Extends /\ start >= 0
    /\ \E s \in OwnSessions : OpenPublication(Main, s, FALSE, start) /\ session' = s
    /\ UNCHANGED <<calls, outside, extendRecording, recording, counterId, messages, readerVars>>

AddPublication ==
    /\ Step("add", "start")
    /\ ~Extends
    /\ \E s \in OwnSessions : OpenPublication(Main, s, TRUE, 0) /\ session' = s
    /\ UNCHANGED <<calls, outside, extendRecording, recording, counterId, messages, readerVars>>

StartOrExtend ==
    /\ Step("start", "started")
    /\ IF Extends THEN Ask(Main, "extend", AnySession, recording.recordingId)
                  ELSE Ask(Main, "start", AnySession, None)
    /\ UNCHANGED <<outside, publications, publisherVars, readerVars>>

FindCounter ==
    /\ Step("started", "find")
    /\ Returned(Main)
    /\ Search("bySession", session)
    /\ UNCHANGED <<outside, publications, publisherVars>>

Reads(op, place) == pc[Main] = place /\ reader.op = op /\ reader.field = "done"

FindAgain ==
    /\ Reads("bySession", "find") /\ reader.result = None /\ running
    /\ Search("bySession", session)
    /\ UNCHANGED <<recordingsVars, publisherVars>>

\* The end of publishData and of the block around it: the publication is closed.
LeaveBlock(place) ==
    /\ Go(Main, place)
    /\ Release(Main, session)

Interrupted ==
    /\ Reads("bySession", "find") /\ reader.result = None /\ ~running
    /\ LeaveBlock("stop")
    /\ UNCHANGED <<calls, outside, publisherVars, readerVars>>

Found ==
    /\ Reads("bySession", "find") /\ reader.result # None
    /\ Go(Main, "recordingId")
    /\ counterId' = reader.result
    /\ GetRecordingId(reader.result)
    /\ UNCHANGED <<calls, outside, publications, extendRecording, recording, session, messages>>

\* The recording id is only shown to the user.
Show ==
    /\ Reads("getRecordingId", "recordingId")
    /\ Go(Main, "offer")
    /\ UNCHANGED <<calls, outside, publications, publisherVars, readerVars>>

\* A message that cannot be offered is not offered again.
Offer ==
    /\ pc[Main] = "offer"
    /\ messages < MessagesCount /\ running
    /\ messages' = messages + 1
    /\ \/ publications' = [publications EXCEPT ![session].position = @ + 1]
       \/ UNCHANGED publications
    /\ UNCHANGED <<processVars, archiveVars, counters, extendRecording, recording, session,
                   counterId, readerVars>>

AllOffered ==
    /\ Step("offer", "await")
    /\ messages = MessagesCount \/ ~running
    /\ UNCHANGED <<calls, outside, publications, publisherVars, readerVars>>

IsRecorded == counters[counterId].value >= publications[session].position

AllRecorded ==
    /\ pc[Main] = "await"
    /\ IsRecorded
    /\ LeaveBlock("stop")
    /\ UNCHANGED <<calls, outside, publisherVars, readerVars>>

NotRecorded ==
    /\ Step("await", "isActive")
    /\ ~IsRecorded
    /\ GetRecordingId(counterId)
    /\ UNCHANGED <<calls, outside, publications, publisherVars>>

IsNeverActive(id) == FALSE                              \* mutant of IsActive
IsActiveOrGone(id) == reader.result \in {id, None}      \* mutant of IsActive
IsActive(id) == reader.result = id

AwaitAgain ==
    /\ Reads("getRecordingId", "isActive") /\ IsActive(recording.recordingId)
    /\ Go(Main, "await")
    /\ UNCHANGED <<calls, outside, publications, publisherVars, readerVars>>

\* "recording has stopped unexpectedly"
ReportStopped ==
    /\ Reads("getRecordingId", "isActive") /\ ~IsActive(recording.recordingId)
    /\ LeaveBlock("reported")
    /\ UNCHANGED <<calls, outside, publisherVars, readerVars>>

StopRecordingChannel ==
    /\ pc[Main] \in {"stop", "reported"} /\ Go(Main, "stopping")
    /\ Ask(Main, "stop", AnySession, None)
    /\ UNCHANGED <<outside, publications, publisherVars, readerVars>>

Finish ==
    /\ Step("stopping", "done")
    /\ Returned(Main)
    /\ UNCHANGED <<outside, publications, publisherVars, readerVars>>

\* An exception, of the archive, of the driver, or of pollForErrorResponse.
Fail ==
    /\ \/ pc[Main] \in {"listed", "started", "stopping"} /\ Threw(Main)
       \/ pc[Main] \in {"add", "offer"} /\ UNCHANGED calls
    /\ Go(Main, "done")
    /\ IF session # None /\ publications[session].state = "open"
       THEN Release(Main, session) ELSE UNCHANGED publications
    /\ UNCHANGED <<outside, publisherVars, readerVars>>

PublisherStep ==
    \/ ListRecordings \/ Latest \/ AddExclusivePublication \/ AddPublication \/ StartOrExtend
    \/ FindCounter \/ FindAgain \/ Interrupted \/ Found \/ Show \/ Offer \/ AllOffered
    \/ AllRecorded \/ NotRecorded \/ AwaitAgain \/ ReportStopped \/ StopRecordingChannel
    \/ Finish \/ Fail

PublisherTypeOK ==
    /\ extendRecording \in BOOLEAN
    /\ recording \in [recordingId : RecordingIds \cup {None}, stopPosition : Int]
    /\ session \in OwnSessions \cup {None}
    /\ counterId \in CounterIds \cup {None}
    /\ messages \in 0..MessagesCount

-----------------------------------------------------------------------------
\* What the publication carries is appended to the recording where it ended:
\* the term arithmetic, with its wrap at 32 bits, gives the stop position again.
ExtensionContinues ==
    pc[Main] = "start" /\ Extends => publications[session].position = recording.stopPosition

\* RecordedBasicPublisher.cpp:184 to 187: the wait "for recording to complete"
\* ends early only if the recording "has stopped unexpectedly".
StopReportIsTrue ==
    pc[Main] = "reported" =>
        \A r \in RecordingIds : recordings[r].session = session => recordings[r].state = "stopped"

\* So it is when the sample extends a recording, unless the counters changed
\* under the search and it found a wrong one.
ExtensionStopReportIsTrue == Extends /\ counterId \notin touched => StopReportIsTrue

\* SIGINT ends a sample that extends a recording, wherever it waits, and
\* whoever stops the recording meanwhile.
InterruptEnds == Extends /\ ~running ~> pc[Main] = "done"
=============================================================================
