-------------------------- MODULE ArchiveOperations --------------------------
(***************************************************************************)
(* The operations of AeronArchive that combine a call with a resource of   *)
(* the client library: recorded publications and replays.  Threads of one  *)
(* process use them side by side; lock_ is held in the calls only.         *)
(***************************************************************************)
EXTENDS RecordingPos

CONSTANTS
    MaxOperations       \* bound: operations that the threads make

ASSUME OperationsAssumption == MaxOperations \in Nat

VARIABLES
    operation,      \* operation[t]: what t is doing and what with
    holds,          \* holds[t]: the session of the recorded publication t has
    replaying,      \* replaying[t]: the subscription replay() gave t, and the id behind it
    stopAsked,      \* history: sessions whose recording a thread asked to stop
    made            \* bound counter

operationVars == <<operation, holds, replaying, stopAsked, made>>

Operation(kind, session, isOriginal) ==
    [kind |-> kind, session |-> session, isOriginal |-> isOriginal, replaySessionId |-> None]
NoOperation == Operation("none", None, FALSE)
NoReplay == [replaySessionId |-> None, session |-> None]

OperationsInit ==
    /\ operation = [t \in Threads |-> NoOperation]
    /\ holds = [t \in Threads |-> None]
    /\ replaying = [t \in Threads |-> NoReplay]
    /\ stopAsked = {}
    /\ made = 0

Idle(t) == pc[t] = "idle" /\ made < MaxOperations

Begin(t, label, op) ==
    /\ made' = made + 1
    /\ Go(t, label)
    /\ operation' = [operation EXCEPT ![t] = op]

\* ChannelUri::addSessionId: what a channel with this session id records.
AnyChannel(s) == AnySession                     \* mutant of AddSessionId
AddSessionId(s) == s

-----------------------------------------------------------------------------
\* addPublication and the loop of findPublication: a thread may get the
\* publication that another one has already, and then is not the original.
AddPublicationFor(t) ==
    /\ Idle(t) /\ holds[t] = None
    /\ \E s \in OwnSessions, isOriginal \in BOOLEAN :
         /\ IF isOriginal THEN SharedPublication = {} /\ OpenPublication(t, s, TRUE, 0)
                          ELSE JoinPublication(t, s)
         /\ Begin(t, "added", Operation("addRecorded", s, isOriginal))
    /\ UNCHANGED <<calls, outside, holds, replaying, stopAsked, readerVars>>

AddExclusivePublicationFor(t) ==
    /\ Idle(t) /\ holds[t] = None
    /\ \E s \in OwnSessions :
         /\ OpenPublication(t, s, FALSE, 0)
         /\ Begin(t, "added", Operation("addRecordedExclusive", s, FALSE))
    /\ UNCHANGED <<calls, outside, holds, replaying, stopAsked, readerVars>>

\* "publication already added" otherwise.
MayRecordAnyway(t) == TRUE                      \* mutant of MayRecord
MayRecord(t) == operation[t].kind = "addRecordedExclusive" \/ operation[t].isOriginal

StartRecordingFor(t) ==
    /\ pc[t] = "added" /\ MayRecord(t)
    /\ Go(t, "starting")
    /\ Ask(t, "start", AddSessionId(operation[t].session), None)
    /\ UNCHANGED <<outside, publications, operationVars, readerVars>>

ReturnPublication(t) ==
    /\ pc[t] = "starting" /\ Returned(t)
    /\ Go(t, "idle")
    /\ holds' = [holds EXCEPT ![t] = operation[t].session]
    /\ operation' = [operation EXCEPT ![t] = NoOperation]
    /\ UNCHANGED <<outside, publications, replaying, stopAsked, made, readerVars>>

\* An exception, perhaps of startRecording: the pointer to the publication goes,
\* and what the archive was asked stays asked.
NoPublicationFor(t) ==
    /\ \/ pc[t] = "added" /\ ~MayRecord(t) /\ UNCHANGED calls
       \/ pc[t] = "starting" /\ Threw(t)
    /\ Go(t, "idle")
    /\ Release(t, operation[t].session)
    /\ operation' = [operation EXCEPT ![t] = NoOperation]
    /\ UNCHANGED <<outside, holds, replaying, stopAsked, made, readerVars>>

-----------------------------------------------------------------------------
\* stopRecording of a publication; the caller then lets go of it.
StopRecordingFor(t) ==
    /\ pc[t] = "idle" /\ holds[t] # None
    /\ Go(t, "stopping")
    /\ Ask(t, "stop", AddSessionId(holds[t]), None)
    /\ stopAsked' = stopAsked \cup {holds[t]}
    /\ UNCHANGED <<outside, publications, operation, holds, replaying, made, readerVars>>

StoppedFor(t) ==
    /\ pc[t] = "stopping"
    /\ Returned(t) \/ Threw(t)
    /\ Go(t, "idle")
    /\ Release(t, holds[t])
    /\ holds' = [holds EXCEPT ![t] = None]
    /\ UNCHANGED <<outside, operation, replaying, stopAsked, made, readerVars>>

-----------------------------------------------------------------------------
StartReplay(t) ==
    /\ Idle(t) /\ replaying[t] = NoReplay
    /\ Begin(t, "replay", Operation("replay", None, FALSE))
    /\ Ask(t, "replay", AnySession, None)
    /\ UNCHANGED <<outside, publications, holds, replaying, stopAsked, readerVars>>

ReplayStarted(t) ==
    /\ pc[t] = "replay" /\ Returned(t)
    /\ Go(t, "subscribing")
    /\ operation' = [operation EXCEPT ![t].replaySessionId = calls[t].id]
    /\ UNCHANGED <<outside, publications, holds, replaying, stopAsked, made, readerVars>>

\* The 64-bit id is passed where addSessionId takes a 32-bit one.
NarrowHigh(id) == Int32(id \div 2^IntBits)      \* mutant of Narrow
Narrow(id) == Int32(id)

ReturnSubscription(t) ==
    LET id == operation[t].replaySessionId IN
    /\ pc[t] = "subscribing" /\ Go(t, "idle")
    /\ replaying' = [replaying EXCEPT ![t] = [replaySessionId |-> id, session |-> Narrow(id)]]
    /\ operation' = [operation EXCEPT ![t] = NoOperation]
    /\ UNCHANGED <<calls, outside, publications, holds, stopAsked, made, readerVars>>

\* startReplay throws, or the driver does not add the subscription: then the
\* archive replays to nobody, and nobody has the id to stop it.
NoSubscription(t) ==
    /\ \/ pc[t] = "replay" /\ Threw(t)
       \/ pc[t] = "subscribing" /\ UNCHANGED calls
    /\ Go(t, "idle")
    /\ operation' = [operation EXCEPT ![t] = NoOperation]
    /\ UNCHANGED <<outside, publications, holds, replaying, stopAsked, made, readerVars>>

-----------------------------------------------------------------------------
\* RecordingPos::findCounterIdByRecording takes no lock and makes no call.
FindCounterByRecording(t, r) ==
    /\ Idle(t) /\ reader.field = "done"
    /\ made' = made + 1
    /\ Search("byRecording", r)
    /\ UNCHANGED <<recordingsVars, operation, holds, replaying, stopAsked>>

OperationStep(t) ==
    \/ AddPublicationFor(t) \/ AddExclusivePublicationFor(t) \/ StartRecordingFor(t)
    \/ ReturnPublication(t) \/ NoPublicationFor(t) \/ StopRecordingFor(t) \/ StoppedFor(t)
    \/ StartReplay(t) \/ ReplayStarted(t) \/ ReturnSubscription(t) \/ NoSubscription(t)

OperationsTypeOK ==
    /\ operation \in [Threads -> [kind : {"none", "addRecorded", "addRecordedExclusive", "replay"},
                                  session : OwnSessions \cup {None}, isOriginal : BOOLEAN,
                                  replaySessionId : Int]]
    /\ holds \in [Threads -> OwnSessions \cup {None}]
    /\ replaying \in [Threads -> [replaySessionId : Int, session : Int]]
    /\ stopAsked \subseteq OwnSessions
    /\ made \in 0..MaxOperations

-----------------------------------------------------------------------------
\* Of the threads that add a recorded publication of the channel at the same
\* time, one at most gets it, whatever becomes of the others' attempts.
HeldByOne ==
    \A t, u \in Threads : t # u /\ holds[t] # None => holds[t] # holds[u]

\* A publication that is returned is open and recorded by the archive under its
\* own session, until its holder asks to stop: neither the failure of another
\* thread that had it too, nor a late request of an earlier attempt ends that.
HeldIsRecorded ==
    \A t \in Threads :
        holds[t] \in OwnSessions =>
            /\ publications[holds[t]].state = "open"
            /\ holds[t] \in stopAsked \/ holds[t] \in subscribed

\* The subscription that replay() returns sees the images of the replay that the
\* archive started for this call and of no other, although the session id is
\* only the low half of the replay session's id.
ReplayIsOwn ==
    \A t \in Threads, r \in replays :
        replaying[t] # NoReplay =>
            (r.session = replaying[t].session <=> r.id = replaying[t].replaySessionId)
=============================================================================
