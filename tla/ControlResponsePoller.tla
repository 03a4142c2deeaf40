------------------------ MODULE ControlResponsePoller ------------------------
(***************************************************************************)
(* ControlResponsePoller keeps the fields of the last ControlResponse that *)
(* one poll() of the control response subscription delivered.  The poller  *)
(* is a value here; AeronArchive.tla owns the only instance and interleaves *)
(* the fragments of a poll() with the archive.                             *)
(***************************************************************************)
EXTENDS ArchiveMessages

ResponsePoller ==
    [controlSessionId : Int, correlationId : Int, relevantId : Int,
     templateId : Template \cup {NoTemplate}, code : Code, isPollComplete : BOOLEAN]

\* Mutant of ResetPoll: only the flag is reset.
ResetFlagOnly(p) == [p EXCEPT !.isPollComplete = FALSE]

\* poll() forgets the previous message, except its code (and error text).
\* Whoever reads the code must therefore look at the template first.
ResetPoll(p) ==
    [p EXCEPT !.controlSessionId = NoId, !.correlationId = NoId,
              !.relevantId = NoId, !.templateId = NoTemplate, !.isPollComplete = FALSE]

\* The handler throws on a template it does not know.
ResponseHandlerThrows(m) == m.template \notin {"ControlResponse", "RecordingDescriptor"}

\* A descriptor completes the poll without filling in any field.
OnResponseFragment(p, m) ==
    IF m.template = "ControlResponse"
    THEN [controlSessionId |-> m.session, correlationId |-> m.correlationId,
          relevantId |-> m.relevantId, templateId |-> m.template,
          code |-> m.code, isPollComplete |-> TRUE]
    ELSE [p EXCEPT !.isPollComplete = TRUE]
=============================================================================
