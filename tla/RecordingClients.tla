-------------------------- MODULE RecordingClients --------------------------
(***************************************************************************)
(* A process that records, among others: one of the samples, or threads    *)
(* that use the operations of AeronArchive, with the driver, the archive   *)
(* and the clients that share them.  A step of the driver may come between *)
(* any two reads of a counter.                                             *)
(***************************************************************************)
EXTENDS RecordedBasicPublisher, ArchiveOperations, RecordingThroughput

CONSTANTS
    Programs,       \* what the process may be
    OldPosition     \* where the recording from before ended

ASSUME ProgramAssumption ==
    /\ Programs \subseteq {"publisher", "operations", "search", "throughput"}
    /\ Main = MainThread /\ OldPosition \in Nat

VARIABLES
    program

vars == <<program, recordingsVars, readerVars, publisherVars, operationVars, throughputVars>>

Entry(t) ==
    CASE program = "publisher" -> IF t = Main THEN "list" ELSE "done"
      [] program \in {"operations", "search"} -> "idle"
      [] program = "throughput" -> IF t = MainThread THEN "record" ELSE "subscribe"

\* stopPosition_ has no initial value.
Init ==
    /\ program \in Programs
    /\ pc = [t \in Threads |-> Entry(t)]
    /\ extendRecording \in IF program = "publisher" THEN BOOLEAN ELSE {FALSE}
    /\ disableRecording \in IF program = "throughput" THEN BOOLEAN ELSE {FALSE}
    /\ stopPosition \in IF program = "throughput" THEN {0, NoStop} ELSE {0}
    /\ reader = NoReader /\ touched = {}
    /\ \E oldPosition \in IF program = "publisher" THEN {None, OldPosition} ELSE {None},
          recorded \in IF program \in {"operations", "throughput"} THEN {{}} ELSE {{}, {OtherSession}} :
         RecordingsInit(oldPosition, recorded)
    /\ PublisherInit /\ OperationsInit /\ ThroughputInit

Publishing ==
    /\ program = "publisher"
    /\ PublisherStep
    /\ UNCHANGED <<program, operationVars, throughputVars>>

Operating(t) ==
    /\ program = "operations"
    /\ OperationStep(t)
    /\ UNCHANGED <<program, publisherVars, throughputVars>>

MeasuringMain ==
    /\ program = "throughput"
    /\ MainStep
    /\ UNCHANGED <<program, publisherVars, operationVars>>

MeasuringPoller ==
    /\ program = "throughput"
    /\ PollerStep
    /\ UNCHANGED <<program, publisherVars, operationVars>>

Reading ==
    /\ ReadStep
    /\ UNCHANGED <<program, publisherVars, operationVars, throughputVars>>

\* A thread that asks for the counter of a recording.
Searching(t) ==
    /\ program = "search"
    /\ \E r \in RecordingIds : FindCounterByRecording(t, r)
    /\ UNCHANGED <<program, publisherVars, throughputVars>>

\* A step outside the process; the history sees what it does to the counters.
Seen == Watch /\ UNCHANGED <<program, publisherVars, operationVars, throughputVars>>

\* Bound: the world outside moves while the process lives, and only in what the
\* process can see.  The operations look at no recording, and only the
\* throughput sample at events.
Alive == pc[Main] \notin {"done", "crashed"}
Others ==
    /\ Alive
    /\ \/ CallStep
       \/ program # "operations" /\ ~disableRecording /\ RecordingStep
       \/ program = "publisher" /\ CounterStep(OwnSessions)
       \/ program = "search" /\ CounterStep({OtherSession})
       \/ program = "throughput" /\ EventStep
       \/ program \in {"publisher", "throughput"} /\ Interrupt
    /\ Seen

Next ==
    \/ Publishing \/ MeasuringMain \/ MeasuringPoller \/ Reading \/ Others
    \/ \E t \in Threads : Operating(t) \/ Searching(t)

Spec == Init /\ [][Next]_vars

\* Every thread of a sample goes on, a call of AeronArchive ends (CallReturns in
\* AeronArchive), and the archive records what there is and stops when it is told.
\* One call at a time is under way.
CallEnds == (\E t \in Threads : GiveUp(t) \/ Serve(t) \/ Refuse(t)) /\ Seen
Archiving(r) == (AllocateCounter(r) \/ Record(r) \/ StopRecording(r)) /\ Seen

FairSpec ==
    /\ Spec
    /\ WF_vars(Publishing \/ MeasuringMain) /\ WF_vars(MeasuringPoller) /\ WF_vars(Reading)
    /\ WF_vars(CallEnds)
    /\ \A r \in RecordingIds : WF_vars(Archiving(r))

-----------------------------------------------------------------------------
\* Every variable has its type: a counter belongs to a recording or to something
\* else, and the threads' variables hold what the code's types allow.
TypeOK ==
    /\ RecordingsTypeOK /\ ReadTypeOK /\ PublisherTypeOK /\ OperationsTypeOK /\ ThroughputTypeOK
    /\ DOMAIN pc = Threads /\ DOMAIN calls = Threads
=============================================================================
