------------------------- MODULE RecordingThroughput -------------------------
(***************************************************************************)
(* The sample of that name, with RecordingEventsAdapter: the main thread   *)
(* records and publishes in rounds, and waits after each until the polling *)
(* thread has seen an event that says all is recorded.  The threads share  *)
(* isRecording_ and stopPosition_, which are not atomic: the two stores at *)
(* the start of a round may come in either order.                          *)
(***************************************************************************)
EXTENDS RecordingPos

CONSTANTS
    MainThread,         \* runs main()
    Poller,             \* recordingThread_
    NumberOfMessages,   \* messages-count
    NoStop,             \* numeric_limits<int64_t>::max()
    MaxRounds           \* bound: rounds the user asks for

ASSUME ThroughputAssumption ==
    /\ MainThread \in Threads /\ Poller \in Threads /\ MainThread # Poller
    /\ NumberOfMessages \in Nat /\ MaxRounds \in Nat \ {0}
    /\ NoStop \in Nat /\ NoStop > NumberOfMessages

VARIABLES
    disableRecording,   \* the option of the command line
    isRecording,        \* isRecording_
    stopPosition,       \* stopPosition_
    published,          \* the session of the round's publication
    offered,            \* messages offered in this round
    round,
    clearedBy           \* history: recordings whose events have cleared the flag

throughputVars == <<disableRecording, isRecording, stopPosition, published, offered, round, clearedBy>>

ThroughputInit ==
    /\ isRecording = FALSE
    /\ published = None
    /\ offered = 0
    /\ round = 0
    /\ clearedBy = {}

MainGoes(from, to) == pc[MainThread] = from /\ Go(MainThread, to)
PollerGoes(from, to) == pc[Poller] = from /\ Go(Poller, to)
Crash == pc' = [t \in Threads |-> "crashed"]

-----------------------------------------------------------------------------
(***************************************************************************)
(* main(), startRecording, streamMessagesForRecording, the destructor.     *)
(***************************************************************************)
AskToRecord ==
    /\ pc[MainThread] = "record"
    /\ IF disableRecording
       THEN Go(MainThread, "round") /\ UNCHANGED calls
       ELSE Go(MainThread, "recording") /\ Ask(MainThread, "start", AnySession, None)
    /\ UNCHANGED <<outside, publications, throughputVars, readerVars>>

Recording ==
    /\ MainGoes("recording", "round") /\ Returned(MainThread)
    /\ UNCHANGED <<outside, publications, throughputVars, readerVars>>

\* addExclusivePublication and the loop of findExclusivePublication.
AddRoundPublication ==
    /\ MainGoes("round", "stores")
    /\ \E s \in OwnSessions : OpenPublication(MainThread, s, FALSE, 0) /\ published' = s
    /\ round' = round + 1
    /\ offered' = 0
    /\ UNCHANGED <<calls, outside, disableRecording, isRecording, stopPosition, clearedBy, readerVars>>

\* The flag and the stop position are set, in the order of the source or the other.
StoreIsRecording ==
    /\ MainGoes("stores", "storePosition") \/ MainGoes("storeFlag", "publish")
    /\ isRecording' = TRUE
    /\ UNCHANGED <<calls, outside, publications, disableRecording, stopPosition, published, offered,
                   round, clearedBy, readerVars>>

StoreNoStop ==
    /\ MainGoes("stores", "storeFlag") \/ MainGoes("storePosition", "publish")
    /\ stopPosition' = NoStop
    /\ UNCHANGED <<calls, outside, publications, disableRecording, isRecording, published, offered,
                   round, clearedBy, readerVars>>

\* offer() until it succeeds, numberOfMessages_ times.
Publish ==
    /\ pc[MainThread] = "publish" /\ offered < NumberOfMessages
    /\ offered' = offered + 1
    /\ publications' = [publications EXCEPT ![published].position = @ + 1]
    /\ UNCHANGED <<processVars, archiveVars, counters, disableRecording, isRecording, stopPosition,
                   published, round, clearedBy, readerVars>>

\* The rate is divided by the milliseconds it took, which may be none.
StoreStopPosition ==
    /\ pc[MainThread] = "publish" /\ offered = NumberOfMessages
    /\ stopPosition' = publications[published].position
    /\ Go(MainThread, "await") \/ Crash
    /\ UNCHANGED <<calls, outside, publications, disableRecording, isRecording, published, offered,
                   round, clearedBy, readerVars>>

\* The publication is closed at the end of the function.
EndOfRound ==
    /\ MainGoes("await", "repeat")
    /\ disableRecording \/ ~isRecording
    /\ Release(MainThread, published)
    /\ UNCHANGED <<calls, outside, throughputVars, readerVars>>

Repeat ==
    /\ MainGoes("repeat", "round") /\ round < MaxRounds
    /\ UNCHANGED <<calls, outside, publications, throughputVars, readerVars>>

\* Mutant of Quit: the polling thread is not told.
QuitSilently ==
    /\ MainGoes("repeat", "join")
    /\ UNCHANGED <<calls, outside, publications, throughputVars, readerVars>>

Quit ==
    /\ MainGoes("repeat", "join")
    /\ running' = FALSE
    /\ UNCHANGED <<calls, listening, archiveVars, driverVars, throughputVars, readerVars>>

\* An exception goes through the destructor; nothing has set running.
MainThrows ==
    /\ \/ pc[MainThread] = "recording" /\ Threw(MainThread)
       \/ pc[MainThread] = "round" /\ UNCHANGED calls
    /\ Go(MainThread, "join")
    /\ UNCHANGED <<outside, publications, throughputVars, readerVars>>

Join ==
    /\ pc[MainThread] = "join" /\ pc[Poller] = "done"
    /\ IF disableRecording
       THEN Go(MainThread, "done") /\ UNCHANGED calls
       ELSE Go(MainThread, "stop") /\ Ask(MainThread, "stop", AnySession, None)
    /\ UNCHANGED <<outside, publications, throughputVars, readerVars>>

\* An exception may not leave a destructor: std::terminate.
Destroyed ==
    /\ pc[MainThread] = "stop"
    /\ \/ Returned(MainThread) /\ Go(MainThread, "done")
       \/ Threw(MainThread) /\ Crash
    /\ UNCHANGED <<outside, publications, throughputVars, readerVars>>

-----------------------------------------------------------------------------
(***************************************************************************)
(* runRecordingEventsPoller and the handlers of the adapter.               *)
(***************************************************************************)
Subscribe ==
    /\ pc[Poller] = "subscribe"
    /\ IF disableRecording
       THEN Go(Poller, "done") /\ UNCHANGED listening
       ELSE Go(Poller, "poll") /\ listening' = TRUE
    /\ UNCHANGED <<calls, running, archiveVars, driverVars, throughputVars, readerVars>>

SubscribeFails ==
    /\ PollerGoes("subscribe", "done") /\ ~disableRecording
    /\ UNCHANGED <<calls, outside, publications, throughputVars, readerVars>>

PollEvents ==
    /\ PollerGoes("poll", "handle")
    /\ running
    /\ UNCHANGED <<calls, outside, publications, throughputVars, readerVars>>

\* At the end of the thread the subscription is closed.
EndOfThread ==
    /\ PollerGoes("poll", "done")
    /\ ~running
    /\ listening' = FALSE /\ events' = <<>>
    /\ UNCHANGED <<calls, late, subscribed, extending, recordings, replays, driverVars, running,
                   throughputVars, readerVars>>

\* The next fragment of this poll().
TakeEvent(kind, to) ==
    /\ PollerGoes("handle", to)
    /\ events # <<>> /\ Head(events).kind = kind
    /\ events' = Tail(events)
    /\ clearedBy' = IF to \in {"rate", "clear"} THEN clearedBy \cup {Head(events).recordingId} ELSE clearedBy
    /\ UNCHANGED <<calls, late, subscribed, extending, recordings, replays, driverVars, listening,
                   running, disableRecording, isRecording, stopPosition, published, offered, round,
                   readerVars>>

Started == TakeEvent("started", "handle")

\* The handlers look at the position, not at the recording.
IsPastAnything(e) == TRUE                       \* mutant of IsPastStop
IsPastStop(e) == e.position >= stopPosition

Progress ==
    /\ events # <<>>
    /\ TakeEvent("progress", IF IsPastStop(Head(events)) THEN "rate" ELSE "handle")

Stopped == TakeEvent("stopped", "clear")

\* The rate again, with the milliseconds since the round began; a division by
\* zero ends the process.
Rate ==
    /\ pc[Poller] = "rate"
    /\ Go(Poller, "clear") \/ Crash
    /\ UNCHANGED <<calls, outside, publications, throughputVars, readerVars>>

\* The last statement of both handlers; the poll goes on.
ClearIsRecording ==
    /\ PollerGoes("clear", "handle")
    /\ isRecording' = FALSE
    /\ UNCHANGED <<calls, outside, publications, disableRecording, stopPosition, published, offered,
                   round, clearedBy, readerVars>>

\* fragmentHandler throws: the exception ends the thread, or the client library
\* handles it and the poll ends.
UnknownEvent ==
    /\ pc[Poller] = "handle" /\ events # <<>> /\ Head(events).kind = "unknown"
    /\ \/ Go(Poller, "poll") /\ events' = Tail(events) /\ UNCHANGED listening
       \/ Go(Poller, "done") /\ events' = <<>> /\ listening' = FALSE
    /\ UNCHANGED <<calls, late, subscribed, extending, recordings, replays, driverVars, running,
                   throughputVars, readerVars>>

\* No fragment is left, or FRAGMENTS_LIMIT of them have been handled.
EndOfPoll ==
    /\ PollerGoes("handle", "poll")
    /\ UNCHANGED <<calls, outside, publications, throughputVars, readerVars>>

MainStep ==
    \/ AskToRecord \/ Recording \/ AddRoundPublication \/ StoreIsRecording \/ StoreNoStop \/ Publish
    \/ StoreStopPosition \/ EndOfRound \/ Repeat \/ Quit \/ MainThrows \/ Join \/ Destroyed

PollerStep ==
    \/ Subscribe \/ SubscribeFails \/ PollEvents \/ EndOfThread \/ Started \/ Progress \/ Stopped
    \/ Rate \/ ClearIsRecording \/ UnknownEvent \/ EndOfPoll

ThroughputTypeOK ==
    /\ disableRecording \in BOOLEAN /\ isRecording \in BOOLEAN
    /\ stopPosition \in Nat
    /\ published \in OwnSessions \cup {None}
    /\ offered \in 0..NumberOfMessages
    /\ round \in 0..MaxRounds
    /\ clearedBy \subseteq RecordingIds

-----------------------------------------------------------------------------
\* The first round ends when all that it published is recorded or the recording
\* was stopped, unless the polling thread was told of the end of another
\* recording: neither the order of the stores nor an event that comes while
\* they are made ends it early.
FirstRoundIsRecorded ==
    pc[MainThread] = "repeat" /\ round = 1 /\ ~disableRecording =>
        \E r \in clearedBy :
            \/ recordings[r].session # published
            \/ recordings[r].state = "stopped"
            \/ recordings[r].position = publications[published].position

\* When the user wants no more rounds the process ends: the polling thread sees
\* running and the destructor's join returns, whatever events still come.
QuitEnds ==
    pc[MainThread] = "repeat" /\ round = MaxRounds ~> pc[MainThread] \in {"done", "crashed"}
=============================================================================
