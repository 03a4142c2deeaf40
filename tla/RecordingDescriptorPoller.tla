---------------------- MODULE RecordingDescriptorPoller ----------------------
(***************************************************************************)
(* RecordingDescriptorPoller dispatches the descriptors that answer one    *)
(* listing to the consumer of that listing.  The consumer is identified by *)
(* the correlation id of the call that passed it in, so that a descriptor  *)
(* given to the wrong consumer can be told apart.                          *)
(***************************************************************************)
EXTENDS ArchiveMessages

DescriptorPoller ==
    [controlSessionId : Int, correlationId : Int, remainingRecordCount : Int,
     isDispatchComplete : BOOLEAN, consumer : Int]

\* The constructor fixes the session; no listing has run yet.
NewDescriptorPoller(controlSessionId) ==
    [controlSessionId |-> controlSessionId, correlationId |-> NoId,
     remainingRecordCount |-> 0, isDispatchComplete |-> FALSE, consumer |-> NoId]

\* Mutant of ResetDispatch: the first consumer stays.
ResetAllButConsumer(p, correlationId, recordCount, consumer) ==
    [p EXCEPT !.correlationId = correlationId,
              !.consumer = IF @ = NoId THEN consumer ELSE @,
              !.remainingRecordCount = recordCount, !.isDispatchComplete = FALSE]

ResetDispatch(p, correlationId, recordCount, consumer) ==
    [p EXCEPT !.correlationId = correlationId, !.consumer = consumer,
              !.remainingRecordCount = recordCount, !.isDispatchComplete = FALSE]

\* Mutant of EndsListing: whichever listing the response is about.
EndsAnyListing(p, m) ==
    /\ m.template = "ControlResponse"
    /\ m.session = p.controlSessionId
    /\ m.code = "RECORDING_UNKNOWN"

\* The listing is cut short: the archive knows of no further recording.
EndsListing(p, m) ==
    /\ m.template = "ControlResponse"
    /\ m.session = p.controlSessionId
    /\ m.code = "RECORDING_UNKNOWN"
    /\ m.correlationId = p.correlationId

\* Mutant of DescriptorHandlerThrows: whichever session the ERROR is for.
AnyErrorThrows(p, m) ==
    \/ m.template = "ControlResponse" /\ m.code = "ERROR"
    \/ m.template \notin {"ControlResponse", "RecordingDescriptor"}

\* An ERROR of this session is thrown, whatever request it answers; and so is
\* a template the handler does not know.
DescriptorHandlerThrows(p, m) ==
    \/ m.template = "ControlResponse" /\ m.session = p.controlSessionId /\ m.code = "ERROR"
    \/ m.template \notin {"ControlResponse", "RecordingDescriptor"}

\* Mutants of IsDispatched: a late descriptor, and another client's.
LateIsDispatched(p, m) ==
    m.template = "RecordingDescriptor" /\ m.session = p.controlSessionId
ForeignIsDispatched(p, m) ==
    m.template = "RecordingDescriptor" /\ m.correlationId = p.correlationId

IsDispatched(p, m) ==
    /\ m.template = "RecordingDescriptor"
    /\ m.session = p.controlSessionId
    /\ m.correlationId = p.correlationId

\* Mutant of BreaksPoll: one descriptor too early.
BreaksPollEarly(p, m) ==
    EndsListing(p, m) \/ (IsDispatched(p, m) /\ p.remainingRecordCount <= 2)

\* BREAK ends the poll of the image the fragment came from.
BreaksPoll(p, m) == EndsListing(p, m) \/ (IsDispatched(p, m) /\ p.remainingRecordCount = 1)

\* A remaining count that starts at 0 passes 0 by and never completes here.
OnDescriptorFragment(p, m) ==
    [p EXCEPT !.remainingRecordCount = IF IsDispatched(p, m) THEN @ - 1 ELSE @,
              !.isDispatchComplete = @ \/ BreaksPoll(p, m)]
=============================================================================
