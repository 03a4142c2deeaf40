---------------------------- MODULE ArchiveCalls ----------------------------
(***************************************************************************)
(* What an open AeronArchive promises the threads that share it.  One call *)
(* is under way at a time, and its request reaches the archive at most     *)
(* once.  A call ends with what the archive said to this very request: a   *)
(* value, or a count of recordings when its consumer has got them all; or  *)
(* with an error that the archive sent to this session, for this request   *)
(* or an earlier one; or without an answer, and then the request may still *)
(* be carried out, unless the call says that it was not sent.              *)
(*                                                                         *)
(* Here the archive and the caller share what was said.  AeronArchive.tla  *)
(* implements this with a stream that others use, too, and polls.          *)
(***************************************************************************)
EXTENDS Integers, Sequences

CONSTANTS
    Callers, Nobody, NoCall,
    Ids,                \* correlation ids, 1..n
    NoId,
    Values              \* what an OK may say

VARIABLES
    caller,     \* who makes the call that is under way, or Nobody
    call,       \* that call: kind, count, correlationId; or NoCall
    lastId,     \* the id that was drawn last
    requests,   \* requests[i]: what the archive was asked under id i
    responses,  \* what it said, other than recordings
    given,      \* given[i]: recordings that the consumer of listing i was given
    outcome     \* how the last call ended, until the next begins

SendingKind == {"response", "descriptors"}
ErrorPoll == {"pollForErrorResponse", "checkForErrorResponse"}
Codes == {"OK", "ERROR", "RECORDING_UNKNOWN"}

NoOutcome == [how |-> "none", correlationId |-> NoId, value |-> NoId, cause |-> NoId]
Response(i, code, v) == [correlationId |-> i, code |-> code, value |-> v]

Init ==
    /\ caller = Nobody /\ call = NoCall
    /\ lastId = 0
    /\ requests = [i \in Ids |-> [status |-> "unsent", kind |-> "response", count |-> 0, listed |-> 0]]
    /\ responses = {}
    /\ given = [i \in Ids |-> <<>>]
    /\ outcome = NoOutcome

-----------------------------------------------------------------------------
\* A call that sends draws an id of its own.
Begin ==
    /\ caller = Nobody /\ caller' \in Callers
    /\ \/ /\ lastId + 1 \in Ids /\ lastId' = lastId + 1
          /\ call' \in [kind : SendingKind, count : Nat, correlationId : {lastId + 1}]
       \/ /\ call' \in [kind : ErrorPoll, count : Nat, correlationId : {NoId}]
          /\ UNCHANGED lastId
    /\ outcome' = NoOutcome
    /\ UNCHANGED <<requests, responses, given>>

IsUnderWay(kinds) == caller # Nobody /\ call.kind \in kinds
IsSent == requests[call.correlationId].status # "unsent"

Send ==
    /\ IsUnderWay(SendingKind) /\ ~IsSent
    /\ requests' = [requests EXCEPT ![call.correlationId] =
                      [status |-> "pending", kind |-> call.kind, count |-> call.count, listed |-> 0]]
    /\ UNCHANGED <<caller, call, lastId, responses, given, outcome>>

\* The consumer is given the next recording that the archive has listed.
Consume ==
    LET n == Len(given[call.correlationId]) + 1 IN
    /\ IsUnderWay({"descriptors"}) /\ IsSent
    /\ n <= requests[call.correlationId].listed
    /\ given' = [given EXCEPT ![call.correlationId] = Append(@, n)]
    /\ UNCHANGED <<caller, call, lastId, requests, responses, outcome>>

End(how, value, cause) ==
    /\ caller' = Nobody /\ call' = NoCall
    /\ outcome' = [how |-> how, correlationId |-> call.correlationId, value |-> value, cause |-> cause]
    /\ UNCHANGED <<lastId, requests, responses, given>>

ReturnValue ==
    /\ IsUnderWay({"response"})
    /\ \E r \in responses : r.correlationId = call.correlationId /\ r.code = "OK"
                            /\ End("value", r.value, r.correlationId)

\* The archive has listed as many as it was asked for, or said that there are no
\* more: not, that the listing failed.
ReturnCount ==
    LET n == Len(given[call.correlationId]) IN
    /\ IsUnderWay({"descriptors"}) /\ IsSent
    /\ n = requests[call.correlationId].listed
    /\ \/ n = call.count
       \/ Response(call.correlationId, "RECORDING_UNKNOWN", NoId) \in responses
    /\ End("count", n, NoId)

\* An error ends whichever call gets to see it.
ReturnError ==
    /\ caller # Nobody
    /\ \E r \in responses :
         /\ r.code = "ERROR"
         /\ call.kind \in SendingKind => r.correlationId <= call.correlationId
         /\ End(IF call.kind = "pollForErrorResponse" THEN "reported" ELSE "error", NoId, r.correlationId)

ReturnNoError == IsUnderWay(ErrorPoll) /\ End("noError", NoId, NoId)

\* The archive said of this request neither OK nor ERROR.
ReturnUnexpected ==
    /\ IsUnderWay({"response"})
    /\ \E r \in responses : r.correlationId = call.correlationId /\ r.code \notin {"OK", "ERROR"}
    /\ End("unexpected", NoId, call.correlationId)

FailToSend == IsUnderWay(SendingKind) /\ ~IsSent /\ End("notSent", NoId, NoId)

\* No answer in time; or a message nobody can read, which ends any call.
GiveUp ==
    \/ IsUnderWay(SendingKind) /\ IsSent
       /\ \E how \in {"timeout", "disconnected", "unknownTemplate"} : End(how, NoId, NoId)
    \/ IsUnderWay(ErrorPoll) /\ End("unknownTemplate", NoId, NoId)

-----------------------------------------------------------------------------
\* The archive answers a request once; an error may follow.
Says(i, code, v) == responses' = responses \cup {Response(i, code, v)}
AreDone(i, r) == requests' = [requests EXCEPT ![i] = [r EXCEPT !.status = "done"]]

Answer(i) ==
    LET r == requests[i] IN
    /\ r.status = "pending" /\ r.kind = "response"
    /\ \E code \in Codes, v \in Values \cup {NoId} : Says(i, code, v)
    /\ AreDone(i, r)
    /\ UNCHANGED <<caller, call, lastId, given, outcome>>

ListRecording(i) ==
    LET r == requests[i] IN
    /\ r.status = "pending" /\ r.kind = "descriptors" /\ r.listed < r.count
    /\ requests' = [requests EXCEPT ![i].listed = @ + 1,
                                    ![i].status = IF r.listed + 1 = r.count THEN "done" ELSE @]
    /\ UNCHANGED <<caller, call, lastId, responses, given, outcome>>

EndListing(i) ==
    LET r == requests[i] IN
    /\ r.status = "pending" /\ r.kind = "descriptors"
    /\ \E code \in {"ERROR", "RECORDING_UNKNOWN"} : Says(i, code, NoId)
    /\ AreDone(i, r)
    /\ UNCHANGED <<caller, call, lastId, given, outcome>>

AsyncError(i) ==
    /\ requests[i].status = "done"
    /\ Says(i, "ERROR", NoId)
    /\ UNCHANGED <<caller, call, lastId, requests, given, outcome>>

CallerStep ==
    \/ Begin \/ Send \/ Consume
    \/ ReturnValue \/ ReturnCount \/ ReturnError \/ ReturnNoError \/ ReturnUnexpected
    \/ FailToSend \/ GiveUp

ArchiveStep == \E i \in Ids : Answer(i) \/ ListRecording(i) \/ EndListing(i) \/ AsyncError(i)

Next == CallerStep \/ ArchiveStep

vars == <<caller, call, lastId, requests, responses, given, outcome>>

Spec == Init /\ [][Next]_vars
=============================================================================
