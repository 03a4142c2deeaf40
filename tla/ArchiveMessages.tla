--------------------------- MODULE ArchiveMessages ---------------------------
(***************************************************************************)
(* The messages of the control response stream, as far as the client tells *)
(* them apart.  The codecs are generated from the archive's SBE schema,    *)
(* which is not part of this repository; they are modelled from the way    *)
(* ControlResponsePoller and RecordingDescriptorPoller decode them.        *)
(*                                                                         *)
(* One record type serves every template: relevantId is the relevant id of *)
(* a ControlResponse and the recording id of a RecordingDescriptor.  The   *)
(* other fields of a descriptor and the text of an error are payload that  *)
(* the client only hands on.                                               *)
(***************************************************************************)
EXTENDS Integers

\* What ControlResponsePoller::poll() stores (-1) in its id fields: no message yet.
NoId == -1
NoTemplate == "None"

\* "Unknown" is any template other than the two that the pollers decode;
\* "Partial" is a fragment that begins or continues a message which needs
\* several: the fragment assembler keeps it back and does not call the handler.
Template == {"ControlResponse", "RecordingDescriptor", "Unknown", "Partial"}

\* SUBSCRIPTION_UNKNOWN is left out: the client does with it what it does with
\* a RECORDING_UNKNOWN that answers no listing.
Code == {"OK", "ERROR", "RECORDING_UNKNOWN"}

Message == [template : Template, session : Int, correlationId : Int,
            code : Code, relevantId : Int]

ControlResponse(session, correlationId, code, relevantId) ==
    [template |-> "ControlResponse", session |-> session,
     correlationId |-> correlationId, code |-> code, relevantId |-> relevantId]

\* The code field means nothing in the three other templates.
RecordingDescriptor(session, correlationId, recordingId) ==
    [template |-> "RecordingDescriptor", session |-> session,
     correlationId |-> correlationId, code |-> "OK", relevantId |-> recordingId]

UnknownMessage ==
    [template |-> "Unknown", session |-> NoId, correlationId |-> NoId,
     code |-> "OK", relevantId |-> NoId]

PartialMessage == [UnknownMessage EXCEPT !.template = "Partial"]
=============================================================================
