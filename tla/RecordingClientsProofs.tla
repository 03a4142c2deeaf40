------------------------ MODULE RecordingClientsProofs ------------------------
(***************************************************************************)
(* For any number of threads and sessions, and whatever the archive and    *)
(* other clients do: the recorded publication that addRecordedPublication  *)
(* returns belongs to one thread, is open, and is recorded until the       *)
(* thread asks to stop; and the subscription that replay() returns sees    *)
(* its own replay.                                                         *)
(***************************************************************************)
EXTENDS RecordingsProofs

IsCall(c) ==
    c = [op |-> c.op, key |-> c.key, status |-> c.status, id |-> c.id, listing |-> c.listing]

IsOperation(o) ==
    /\ o = [kind |-> o.kind, session |-> o.session, isOriginal |-> o.isOriginal,
            replaySessionId |-> o.replaySessionId]
    /\ o.session \in OwnSessions \cup {None}

Shape ==
    /\ pc = [t \in Threads |-> pc[t]]
    /\ calls = [t \in Threads |-> calls[t]]
    /\ operation = [t \in Threads |-> operation[t]]
    /\ \A t \in Threads : IsCall(calls[t]) /\ IsOperation(operation[t])
    /\ holds \in [Threads -> OwnSessions \cup {None}]

\* A thread works on one publication, between adding it and having it recorded.
WorkInv ==
    \A t \in Threads :
        /\ operation[t].session # None <=> pc[t] \in {"added", "starting"}
        /\ pc[t] \in {"added", "starting"} => holds[t] = None
        /\ pc[t] = "stopping" => holds[t] # None
        /\ pc[t] = "starting" => MayRecord(t)

\* Nothing is asked to stop but what a thread held, and a start that was answered
\* in time has made the archive record.
IsKnown(c) ==
    /\ c.op \in {"none", "start", "stop", "replay"}
    /\ c.op = "start" => c.key \in OwnSessions
    /\ c.op = "stop" => c.key \in stopAsked
CallInv ==
    /\ \A t \in Threads :
         /\ IsKnown(calls[t])
         /\ pc[t] = "starting" => calls[t].op = "start" /\ calls[t].key = operation[t].session
         /\ calls[t].op = "start" /\ calls[t].status = "done" => calls[t].key \in subscribed \cup stopAsked
    /\ \A c \in late : IsKnown(c)

Has(t, s) == holds[t] = s \/ operation[t].session = s
Owns(t, s) == holds[t] = s \/ (operation[t].session = s /\ MayRecord(t))

UsersInv ==
    \A t \in Threads, s \in OwnSessions :
        Has(t, s) => publications[s].state = "open" /\ t \in publications[s].users

OwnerInv == \A t, u \in Threads, s \in OwnSessions : Owns(t, s) /\ Owns(u, s) => t = u

RecordedInv ==
    \A t \in Threads : holds[t] \in OwnSessions => holds[t] \in stopAsked \/ holds[t] \in subscribed

OperationsInv ==
    /\ Shape
    /\ publications \in Publications
    /\ WorkInv
    /\ CallInv
    /\ UsersInv
    /\ OwnerInv
    /\ RecordedInv

IInv ==
    /\ program = "operations" => OperationsInv
    /\ program # "operations" => holds = [t \in Threads |-> None]
-----------------------------------------------------------------------------
LEMMA Opened ==
    ASSUME publications \in Publications, NEW t \in Threads, NEW s \in OwnSessions,
           NEW shared \in BOOLEAN, OpenPublication(t, s, shared, 0)
    PROVE  /\ publications' \in Publications
           /\ publications[s].state = "none"
           /\ publications'[s].state = "open" /\ publications'[s].users = {t}
           /\ \A q \in Sessions \ {s} : publications'[q] = publications[q]
BY ConstantFacts DEF OpenPublication, Publications

LEMMA Joined ==
    ASSUME publications \in Publications, NEW t \in Threads, NEW s \in OwnSessions,
           JoinPublication(t, s)
    PROVE  /\ publications' \in Publications
           /\ publications'[s].state = "open" /\ publications'[s].users = publications[s].users \cup {t}
           /\ \A q \in Sessions \ {s} : publications'[q] = publications[q]
BY ConstantFacts DEF JoinPublication, SharedPublication, Publications

LEMMA Released ==
    ASSUME publications \in Publications, NEW t \in Threads, NEW s \in OwnSessions, Release(t, s)
    PROVE  /\ publications' \in Publications
           /\ \A u \in Threads \ {t} : u \in publications[s].users =>
                 u \in publications'[s].users /\ publications'[s].state = publications[s].state
           /\ \A q \in Sessions \ {s} : publications'[q] = publications[q]
BY ConstantFacts DEF Release, Publications

LEMMA AddPublicationForKeeps ==
    ASSUME OperationsInv, NEW t \in Threads, AddPublicationFor(t)
    PROVE  OperationsInv'
<1>1. PICK s \in OwnSessions, isOriginal \in BOOLEAN :
         /\ IF isOriginal THEN SharedPublication = {} /\ OpenPublication(t, s, TRUE, 0)
                          ELSE JoinPublication(t, s)
         /\ Begin(t, "added", Operation("addRecorded", s, isOriginal))
    BY DEF AddPublicationFor
<1>2. /\ pc' = [pc EXCEPT ![t] = "added"]
      /\ operation' = [operation EXCEPT ![t] = Operation("addRecorded", s, isOriginal)]
      /\ holds[t] = None /\ pc[t] = "idle"
      /\ UNCHANGED <<calls, late, subscribed, holds, stopAsked>>
    BY <1>1 DEF AddPublicationFor, Idle, Begin, Go, outside, archiveVars
<1>3. /\ publications' \in Publications
      /\ publications'[s].state = "open" /\ t \in publications'[s].users
      /\ \A q \in Sessions \ {s} : publications'[q] = publications[q]
      /\ isOriginal => publications[s].state = "none"
      /\ ~isOriginal => publications[s].users \subseteq publications'[s].users
    <2>1. CASE isOriginal
        <3>1. PICK shared \in BOOLEAN : OpenPublication(t, s, shared, 0)
            BY <1>1, <2>1, Zenon
        <3> QED
            BY <2>1, <3>1, Opened DEF OperationsInv
    <2>2. CASE ~isOriginal
        BY <1>1, <2>2, Joined DEF OperationsInv
    <2> QED
        BY <2>1, <2>2
<1>4. Shape'
    BY <1>1, <1>2, <1>3, ConstantFacts DEF Operation, OperationsInv, Shape, IsCall, IsOperation, None
<1>5. WorkInv'
    BY <1>1, <1>2, <1>3, ConstantFacts
       DEF Operation, OperationsInv, Shape, IsOperation, WorkInv, MayRecord, None
<1>6. CallInv'
    BY <1>1, <1>2, <1>3, ConstantFacts
       DEF Operation, OperationsInv, Shape, IsCall, IsOperation, CallInv, IsKnown, WorkInv, None
<1>7. UsersInv'
    BY <1>1, <1>2, <1>3, ConstantFacts
       DEF Operation, OperationsInv, Shape, IsOperation, UsersInv, Has, WorkInv, None
<1>8. OwnerInv'
    BY <1>1, <1>2, <1>3, ConstantFacts
       DEF Operation, OperationsInv, Shape, IsOperation, OwnerInv, Owns, UsersInv, Has, WorkInv, MayRecord,
           None
<1>9. RecordedInv'
    BY <1>1, <1>2, <1>3, ConstantFacts
       DEF Operation, OperationsInv, Shape, IsOperation, RecordedInv, WorkInv, CallInv, None
<1> QED
    BY <1>4, <1>3, <1>5, <1>6, <1>7, <1>8, <1>9 DEF OperationsInv

LEMMA AddExclusivePublicationForKeeps ==
    ASSUME OperationsInv, NEW t \in Threads, AddExclusivePublicationFor(t)
    PROVE  OperationsInv'
<1>1. PICK s \in OwnSessions :
         /\ OpenPublication(t, s, FALSE, 0)
         /\ Begin(t, "added", Operation("addRecordedExclusive", s, FALSE))
    BY DEF AddExclusivePublicationFor
<1>2. /\ pc' = [pc EXCEPT ![t] = "added"]
      /\ operation' = [operation EXCEPT ![t] = Operation("addRecordedExclusive", s, FALSE)]
      /\ holds[t] = None /\ pc[t] = "idle"
      /\ UNCHANGED <<calls, late, subscribed, holds, stopAsked>>
    BY <1>1 DEF AddExclusivePublicationFor, Idle, Begin, Go, NoOperation, Operation, outside, archiveVars
<1>3. /\ publications' \in Publications
      /\ publications[s].state = "none"
      /\ publications'[s].state = "open" /\ t \in publications'[s].users
      /\ \A q \in Sessions \ {s} : publications'[q] = publications[q]
    <2>1. PICK shared \in BOOLEAN : OpenPublication(t, s, shared, 0)
        BY <1>1, Zenon
    <2> QED
        BY <2>1, Opened DEF OperationsInv
<1>4. Shape'
    BY <1>1, <1>2, <1>3, ConstantFacts DEF Operation, OperationsInv, Shape, IsCall, IsOperation, None
<1>5. WorkInv'
    BY <1>1, <1>2, <1>3, ConstantFacts
       DEF Operation, OperationsInv, Shape, IsOperation, WorkInv, MayRecord, None
<1>6. CallInv'
    BY <1>1, <1>2, <1>3, ConstantFacts
       DEF Operation, OperationsInv, Shape, IsCall, IsOperation, CallInv, IsKnown, WorkInv, None
<1>7. UsersInv'
    BY <1>1, <1>2, <1>3, ConstantFacts
       DEF Operation, OperationsInv, Shape, IsOperation, UsersInv, Has, WorkInv, None
<1>8. OwnerInv'
    BY <1>1, <1>2, <1>3, ConstantFacts
       DEF Operation, OperationsInv, Shape, IsOperation, OwnerInv, Owns, UsersInv, Has, WorkInv, MayRecord,
           None
<1>9. RecordedInv'
    BY <1>1, <1>2, <1>3, ConstantFacts
       DEF Operation, OperationsInv, Shape, IsOperation, RecordedInv, WorkInv, CallInv, None
<1> QED
    BY <1>4, <1>3, <1>5, <1>6, <1>7, <1>8, <1>9 DEF OperationsInv

LEMMA StartRecordingForKeeps ==
    ASSUME OperationsInv, NEW t \in Threads, StartRecordingFor(t)
    PROVE  OperationsInv'
<1>1. Shape'
    BY ConstantFacts
       DEF OperationsInv, StartRecordingFor, Shape, IsCall, IsOperation, None, Go, Ask,
           AddSessionId, outside, archiveVars, operationVars
<1>2. publications' \in Publications
    BY ConstantFacts
       DEF OperationsInv, StartRecordingFor, Go, Ask, AddSessionId, outside, archiveVars,
           operationVars
<1>3. WorkInv'
    BY ConstantFacts
       DEF OperationsInv, StartRecordingFor, Shape, IsOperation, WorkInv, MayRecord, None, Go,
           Ask, AddSessionId, outside, archiveVars, operationVars
<1>4. CallInv'
    BY ConstantFacts
       DEF OperationsInv, StartRecordingFor, Shape, IsCall, IsOperation, CallInv, IsKnown,
           WorkInv, None, Go, Ask, AddSessionId, outside, archiveVars, operationVars
<1>5. UsersInv'
    BY ConstantFacts
       DEF OperationsInv, StartRecordingFor, Shape, IsOperation, UsersInv, Has, WorkInv, None,
           Go, Ask, AddSessionId, outside, archiveVars, operationVars
<1>6. OwnerInv'
    BY ConstantFacts
       DEF OperationsInv, StartRecordingFor, Shape, IsOperation, OwnerInv, Owns, UsersInv, Has,
           WorkInv, MayRecord, None, Go, Ask, AddSessionId, outside, archiveVars, operationVars
<1>7. RecordedInv'
    BY ConstantFacts
       DEF OperationsInv, StartRecordingFor, Shape, IsOperation, RecordedInv, WorkInv, CallInv,
           None, Go, Ask, AddSessionId, outside, archiveVars, operationVars
<1> QED
    BY <1>1, <1>2, <1>3, <1>4, <1>5, <1>6, <1>7 DEF OperationsInv

LEMMA ReturnPublicationKeeps ==
    ASSUME OperationsInv, NEW t \in Threads, ReturnPublication(t)
    PROVE  OperationsInv'
<1>1. Shape'
    BY ConstantFacts
       DEF OperationsInv, ReturnPublication, Shape, IsCall, IsOperation, None, Go, Returned,
           NoCall, NoOperation, Operation, outside, archiveVars
<1>2. publications' \in Publications
    BY ConstantFacts
       DEF OperationsInv, ReturnPublication, Go, Returned, NoCall, NoOperation, Operation, outside,
           archiveVars
<1>3. WorkInv'
    BY ConstantFacts
       DEF OperationsInv, ReturnPublication, Shape, IsOperation, WorkInv, MayRecord, None, Go,
           Returned, NoCall, NoOperation, Operation, outside, archiveVars
<1>4. CallInv'
    BY ConstantFacts
       DEF OperationsInv, ReturnPublication, Shape, IsCall, IsOperation, CallInv, IsKnown,
           WorkInv, None, Go, Returned, NoCall, NoOperation, Operation, outside, archiveVars
<1>5. UsersInv'
    BY ConstantFacts
       DEF OperationsInv, ReturnPublication, Shape, IsOperation, UsersInv, Has, WorkInv, None,
           Go, Returned, NoCall, NoOperation, Operation, outside, archiveVars
<1>6. OwnerInv'
    BY ConstantFacts
       DEF OperationsInv, ReturnPublication, Shape, IsOperation, OwnerInv, Owns, UsersInv, Has,
           WorkInv, MayRecord, None, Go, Returned, NoCall, NoOperation, Operation, outside, archiveVars
<1>7. RecordedInv'
    BY ConstantFacts
       DEF OperationsInv, ReturnPublication, Shape, IsOperation, RecordedInv, WorkInv, CallInv,
           None, Go, Returned, NoCall, NoOperation, Operation, outside, archiveVars
<1> QED
    BY <1>1, <1>2, <1>3, <1>4, <1>5, <1>6, <1>7 DEF OperationsInv

LEMMA NoPublicationForKeeps ==
    ASSUME OperationsInv, NEW t \in Threads, NoPublicationFor(t)
    PROVE  OperationsInv'
<1> DEFINE s == operation[t].session
<1>1. s \in OwnSessions /\ holds[t] = None
    BY DEF OperationsInv, NoPublicationFor, Shape, IsOperation, WorkInv
<1>2. /\ pc' = [pc EXCEPT ![t] = "idle"]
      /\ operation' = [operation EXCEPT ![t] = NoOperation]
      /\ calls' = calls \/ calls' = [calls EXCEPT ![t] = NoCall]
      /\ UNCHANGED <<late, subscribed, holds, stopAsked>>
      /\ Release(t, s)
    BY DEF NoPublicationFor, Go, Threw, outside, archiveVars
<1>3. /\ publications' \in Publications
      /\ \A u \in Threads \ {t} : u \in publications[s].users =>
            u \in publications'[s].users /\ publications'[s].state = publications[s].state
      /\ \A q \in Sessions \ {s} : publications'[q] = publications[q]
    BY <1>1, <1>2, Released DEF OperationsInv
<1>4. Shape'
    <2>1. calls' = [u \in Threads |-> calls'[u]] /\ \A u \in Threads : IsCall(calls'[u])
        <3>1. CASE calls' = calls
            BY <3>1 DEF OperationsInv, Shape
        <3>2. CASE calls' = [calls EXCEPT ![t] = NoCall]
            BY <3>2 DEF OperationsInv, Shape, IsCall, NoCall
        <3> QED
            BY <1>2, <3>1, <3>2
    <2>2. operation' = [u \in Threads |-> operation'[u]] /\ \A u \in Threads : IsOperation(operation'[u])
        BY <1>2 DEF OperationsInv, Shape, IsOperation, NoOperation, Operation
    <2> QED
        BY <1>2, <2>1, <2>2 DEF OperationsInv, Shape
<1>5. WorkInv'
    BY <1>1, <1>2, <1>3, ConstantFacts
       DEF OperationsInv, Shape, IsOperation, WorkInv, MayRecord, None, NoOperation, Operation, NoCall
<1>6. CallInv'
    BY <1>1, <1>2, <1>3, ConstantFacts
       DEF OperationsInv, Shape, IsCall, IsOperation, CallInv, IsKnown, WorkInv, None,
           NoOperation, Operation, NoCall
<1>7. UsersInv'
    BY <1>1, <1>2, <1>3, ConstantFacts
       DEF OperationsInv, Shape, IsOperation, UsersInv, Has, WorkInv, None, NoOperation, Operation, NoCall
<1>8. OwnerInv'
    BY <1>1, <1>2, <1>3, ConstantFacts
       DEF OperationsInv, Shape, IsOperation, OwnerInv, Owns, UsersInv, Has, WorkInv, MayRecord,
           None, NoOperation, Operation, NoCall
<1>9. RecordedInv'
    BY <1>1, <1>2, <1>3, ConstantFacts
       DEF OperationsInv, Shape, IsOperation, RecordedInv, WorkInv, CallInv, None, NoOperation, Operation,
           NoCall
<1> QED
    BY <1>4, <1>3, <1>5, <1>6, <1>7, <1>8, <1>9 DEF OperationsInv

LEMMA StopRecordingForKeeps ==
    ASSUME OperationsInv, NEW t \in Threads, StopRecordingFor(t)
    PROVE  OperationsInv'
<1>1. Shape'
    BY ConstantFacts
       DEF OperationsInv, StopRecordingFor, Shape, IsCall, IsOperation, None, Go, Ask,
           AddSessionId, outside, archiveVars
<1>2. publications' \in Publications
    BY ConstantFacts
       DEF OperationsInv, StopRecordingFor, Go, Ask, AddSessionId, outside, archiveVars
<1>3. WorkInv'
    BY ConstantFacts
       DEF OperationsInv, StopRecordingFor, Shape, IsOperation, WorkInv, MayRecord, None, Go,
           Ask, AddSessionId, outside, archiveVars
<1>4. CallInv'
    BY ConstantFacts
       DEF OperationsInv, StopRecordingFor, Shape, IsCall, IsOperation, CallInv, IsKnown,
           WorkInv, None, Go, Ask, AddSessionId, outside, archiveVars
<1>5. UsersInv'
    BY ConstantFacts
       DEF OperationsInv, StopRecordingFor, Shape, IsOperation, UsersInv, Has, WorkInv, None,
           Go, Ask, AddSessionId, outside, archiveVars
<1>6. OwnerInv'
    BY ConstantFacts
       DEF OperationsInv, StopRecordingFor, Shape, IsOperation, OwnerInv, Owns, UsersInv, Has,
           WorkInv, MayRecord, None, Go, Ask, AddSessionId, outside, archiveVars
<1>7. RecordedInv'
    BY ConstantFacts
       DEF OperationsInv, StopRecordingFor, Shape, IsOperation, RecordedInv, WorkInv, CallInv,
           None, Go, Ask, AddSessionId, outside, archiveVars
<1> QED
    BY <1>1, <1>2, <1>3, <1>4, <1>5, <1>6, <1>7 DEF OperationsInv

LEMMA StoppedForKeeps ==
    ASSUME OperationsInv, NEW t \in Threads, StoppedFor(t)
    PROVE  OperationsInv'
<1> DEFINE s == holds[t]
<1>1. s \in OwnSessions /\ pc[t] = "stopping" /\ operation[t].session = None
    BY DEF OperationsInv, StoppedFor, Shape, IsOperation, WorkInv
<1>2. /\ pc' = [pc EXCEPT ![t] = "idle"]
      /\ holds' = [holds EXCEPT ![t] = None]
      /\ calls' = [calls EXCEPT ![t] = NoCall]
      /\ UNCHANGED <<late, subscribed, operation, stopAsked>>
      /\ Release(t, s)
    BY DEF StoppedFor, Go, Returned, Threw, outside, archiveVars
<1>3. /\ publications' \in Publications
      /\ \A u \in Threads \ {t} : u \in publications[s].users =>
            u \in publications'[s].users /\ publications'[s].state = publications[s].state
      /\ \A q \in Sessions \ {s} : publications'[q] = publications[q]
    BY <1>1, <1>2, Released DEF OperationsInv
<1>4. Shape'
    BY <1>1, <1>2, <1>3, ConstantFacts DEF OperationsInv, Shape, IsCall, IsOperation, None, NoCall
<1>5. WorkInv'
    BY <1>1, <1>2, <1>3, ConstantFacts
       DEF OperationsInv, Shape, IsOperation, WorkInv, MayRecord, None, NoCall
<1>6. CallInv'
    BY <1>1, <1>2, <1>3, ConstantFacts
       DEF OperationsInv, Shape, IsCall, IsOperation, CallInv, IsKnown, WorkInv, None, NoCall
<1>7. UsersInv'
    BY <1>1, <1>2, <1>3, ConstantFacts
       DEF OperationsInv, Shape, IsOperation, UsersInv, Has, WorkInv, None, NoCall
<1>8. OwnerInv'
    BY <1>1, <1>2, <1>3, ConstantFacts
       DEF OperationsInv, Shape, IsOperation, OwnerInv, Owns, UsersInv, Has, WorkInv, MayRecord,
           None, NoCall
<1>9. RecordedInv'
    BY <1>1, <1>2, <1>3, ConstantFacts
       DEF OperationsInv, Shape, IsOperation, RecordedInv, WorkInv, CallInv, None, NoCall
<1> QED
    BY <1>4, <1>3, <1>5, <1>6, <1>7, <1>8, <1>9 DEF OperationsInv

\* The operations of a replay leave what a thread does with publications alone.
LEMMA ReplayStepKeeps ==
    ASSUME OperationsInv, NEW t \in Threads, NEW label, NEW o, NEW c,
           pc[t] \notin {"added", "starting"}, label \notin {"added", "starting", "stopping"},
           IsOperation(o), o.session = None,
           IsCall(c), IsKnown(c),
           c.op = "start" /\ c.status = "done" => c.key \in subscribed \cup stopAsked,
           pc' = [pc EXCEPT ![t] = label],
           operation' = [operation EXCEPT ![t] = o],
           calls' = [calls EXCEPT ![t] = c],
           UNCHANGED <<late, subscribed, publications, holds, stopAsked>>
    PROVE  OperationsInv'
<1>1. operation[t].session = None
    BY DEF OperationsInv, WorkInv
<1>2. Shape'
    <2>1. calls' = [u \in Threads |-> calls'[u]] /\ \A u \in Threads : IsCall(calls'[u])
        BY DEF OperationsInv, Shape
    <2>2. operation' = [u \in Threads |-> operation'[u]] /\ \A u \in Threads : IsOperation(operation'[u])
        BY DEF OperationsInv, Shape
    <2> QED
        BY <2>1, <2>2 DEF OperationsInv, Shape
<1>3. publications' \in Publications
    BY DEF OperationsInv
<1>4. WorkInv'
    BY <1>1 DEF OperationsInv, Shape, WorkInv, MayRecord
<1>5. CallInv'
    BY DEF OperationsInv, Shape, CallInv, IsKnown
<1>6. \A u \in Threads, s \in OwnSessions :
         (Has(u, s)' => Has(u, s)) /\ (Owns(u, s)' => Owns(u, s))
    BY <1>1, ConstantFacts DEF OperationsInv, Shape, Has, Owns, MayRecord
<1>7. UsersInv' /\ OwnerInv'
    BY <1>6 DEF OperationsInv, UsersInv, OwnerInv
<1>8. RecordedInv'
    BY DEF OperationsInv, RecordedInv
<1> QED
    BY <1>2, <1>3, <1>4, <1>5, <1>7, <1>8 DEF OperationsInv

LEMMA NothingInHand ==
    /\ IsCall(NoCall) /\ IsKnown(NoCall) /\ NoCall.op # "start"
    /\ IsOperation(NoOperation) /\ NoOperation.session = None
BY DEF IsCall, IsKnown, NoCall, IsOperation, NoOperation, Operation

LEMMA CallOf ==
    ASSUME OperationsInv, NEW t \in Threads
    PROVE  /\ IsCall(calls[t]) /\ IsKnown(calls[t]) /\ calls = [calls EXCEPT ![t] = calls[t]]
           /\ calls[t].op = "start" /\ calls[t].status = "done" =>
                 calls[t].key \in subscribed \cup stopAsked
BY DEF OperationsInv, Shape, CallInv

LEMMA StartReplayKeeps ==
    ASSUME OperationsInv, NEW t \in Threads, StartReplay(t)
    PROVE  OperationsInv'
<1> DEFINE o == Operation("replay", None, FALSE)
           c == [op |-> "replay", key |-> AnySession, status |-> "asked", id |-> None, listing |-> <<>>]
<1>1. IsOperation(o) /\ o.session = None /\ IsCall(c) /\ IsKnown(c) /\ c.op # "start"
    BY DEF IsOperation, IsCall, IsKnown, Operation
<1>2. /\ pc[t] = "idle" /\ pc' = [pc EXCEPT ![t] = "replay"]
      /\ operation' = [operation EXCEPT ![t] = o]
      /\ calls' = [calls EXCEPT ![t] = c]
      /\ UNCHANGED <<late, subscribed, publications, holds, stopAsked>>
    BY DEF StartReplay, Idle, Begin, Go, Ask, outside, archiveVars
<1> HIDE DEF o, c
<1> QED
    BY <1>1, <1>2, ReplayStepKeeps

LEMMA ReplayStartedKeeps ==
    ASSUME OperationsInv, NEW t \in Threads, ReplayStarted(t)
    PROVE  OperationsInv'
<1> DEFINE before == operation[t]
           o == [kind |-> before.kind, session |-> before.session,
                 isOriginal |-> before.isOriginal, replaySessionId |-> calls[t].id]
<1>1. pc[t] = "replay" /\ pc' = [pc EXCEPT ![t] = "subscribing"]
    BY DEF ReplayStarted, Go
<1>2. IsOperation(before) /\ before.session = None
    BY <1>1 DEF OperationsInv, Shape, WorkInv
<1>3. IsOperation(o) /\ o.session = None
    BY <1>2 DEF IsOperation
<1>4. [before EXCEPT !.replaySessionId = calls[t].id] = o
    <2> HIDE DEF before
    <2> QED
        BY <1>2 DEF IsOperation
<1>5. operation' = [operation EXCEPT ![t] = o]
    BY <1>4 DEF ReplayStarted
<1>6. /\ calls' = [calls EXCEPT ![t] = NoCall]
      /\ UNCHANGED <<late, subscribed, publications, holds, stopAsked>>
    BY DEF ReplayStarted, Returned, outside, archiveVars
<1> HIDE DEF o
<1> QED
    BY <1>1, <1>3, <1>5, <1>6, NothingInHand, ReplayStepKeeps

LEMMA ReturnSubscriptionKeeps ==
    ASSUME OperationsInv, NEW t \in Threads, ReturnSubscription(t)
    PROVE  OperationsInv'
<1>1. /\ pc[t] = "subscribing" /\ pc' = [pc EXCEPT ![t] = "idle"]
      /\ operation' = [operation EXCEPT ![t] = NoOperation]
      /\ calls' = calls
      /\ UNCHANGED <<late, subscribed, publications, holds, stopAsked>>
    BY DEF ReturnSubscription, Go, outside, archiveVars
<1> QED
    BY <1>1, CallOf, NothingInHand, ReplayStepKeeps

LEMMA NoSubscriptionKeeps ==
    ASSUME OperationsInv, NEW t \in Threads, NoSubscription(t)
    PROVE  OperationsInv'
<1>1. /\ pc[t] \in {"replay", "subscribing"} /\ pc' = [pc EXCEPT ![t] = "idle"]
      /\ operation' = [operation EXCEPT ![t] = NoOperation]
      /\ UNCHANGED <<late, subscribed, publications, holds, stopAsked>>
    BY DEF NoSubscription, Go, outside, archiveVars
<1>2. CASE calls' = [calls EXCEPT ![t] = NoCall]
    BY <1>1, <1>2, NothingInHand, ReplayStepKeeps
<1>3. CASE calls' = calls
    BY <1>1, <1>3, CallOf, NothingInHand, ReplayStepKeeps
<1> QED
    BY <1>2, <1>3 DEF NoSubscription, Threw

-----------------------------------------------------------------------------
(***************************************************************************)
(* What happens to calls outside the process.                              *)
(***************************************************************************)
LEMMA OutsideKeeps ==
    ASSUME OperationsInv,
           UNCHANGED <<pc, publications, operation, holds, stopAsked>>,
           calls' = [t \in Threads |-> calls'[t]],
           \A t \in Threads :
              /\ IsCall(calls'[t])
              /\ calls'[t].op = calls[t].op /\ calls'[t].key = calls[t].key
              /\ calls'[t].op = "start" /\ calls'[t].status = "done" =>
                    calls[t].status = "done" \/ calls[t].key \in subscribed',
           \A c \in late' : c \in late \/ \E t \in Threads : c = calls[t],
           \A s \in OwnSessions : s \in subscribed => s \in subscribed' \/ s \in stopAsked
    PROVE  OperationsInv'
<1>1. Shape' /\ publications' \in Publications
    BY DEF OperationsInv, Shape
<1>2. WorkInv' /\ UsersInv' /\ OwnerInv'
    BY DEF OperationsInv, WorkInv, UsersInv, OwnerInv, MayRecord, Has, Owns
<1>3. \A c : IsKnown(c)' <=> IsKnown(c)
    BY DEF IsKnown
<1>4. \A t \in Threads : IsKnown(calls'[t])
    BY DEF OperationsInv, CallInv, IsKnown
<1>5. \A c \in late' : IsKnown(c)
    BY DEF OperationsInv, CallInv
<1>6. ASSUME NEW t \in Threads, calls'[t].op = "start", calls'[t].status = "done"
      PROVE  calls'[t].key \in subscribed' \cup stopAsked'
    BY <1>4, <1>6 DEF OperationsInv, CallInv, IsKnown
<1>7. CallInv'
    BY <1>4, <1>5, <1>6 DEF OperationsInv, CallInv, IsKnown
<1>8. RecordedInv'
    BY DEF OperationsInv, RecordedInv
<1> QED
    BY <1>1, <1>2, <1>7, <1>8 DEF OperationsInv

LEMMA OneCall ==
    ASSUME Shape, NEW t \in Threads, NEW c, IsCall(c), c.op = calls[t].op, c.key = calls[t].key,
           calls' = [calls EXCEPT ![t] = c]
    PROVE  /\ calls' = [u \in Threads |-> calls'[u]]
           /\ calls'[t] = c
           /\ \A u \in Threads : /\ IsCall(calls'[u]) /\ calls'[u].op = calls[u].op
                                 /\ calls'[u].key = calls[u].key
                                 /\ u # t => calls'[u] = calls[u]
BY DEF Shape

LEMMA StatusIsSet ==
    ASSUME NEW t \in Threads, NEW f, f = [u \in Threads |-> f[u]], IsCall(f[t]), NEW status
    PROVE  [f EXCEPT ![t].status = status] =
              [f EXCEPT ![t] = [op |-> f[t].op, key |-> f[t].key, status |-> status,
                                id |-> f[t].id, listing |-> f[t].listing]]
<1> DEFINE c == f[t]
<1>1. c = [op |-> c.op, key |-> c.key, status |-> c.status, id |-> c.id, listing |-> c.listing]
    BY DEF IsCall
<1>2. [c EXCEPT !.status = status] =
         [op |-> c.op, key |-> c.key, status |-> status, id |-> c.id, listing |-> c.listing]
    <2> HIDE DEF c
    <2> QED
        BY <1>1
<1> QED
    BY <1>2

LEMMA IdIsSet ==
    ASSUME NEW t \in Threads, NEW f, f = [u \in Threads |-> f[u]], IsCall(f[t]), NEW id
    PROVE  [f EXCEPT ![t].id = id] =
              [f EXCEPT ![t] = [op |-> f[t].op, key |-> f[t].key, status |-> f[t].status,
                                id |-> id, listing |-> f[t].listing]]
<1> DEFINE c == f[t]
<1>1. c = [op |-> c.op, key |-> c.key, status |-> c.status, id |-> c.id, listing |-> c.listing]
    BY DEF IsCall
<1>2. [c EXCEPT !.id = id] =
         [op |-> c.op, key |-> c.key, status |-> c.status, id |-> id, listing |-> c.listing]
    <2> HIDE DEF c
    <2> QED
        BY <1>1
<1> QED
    BY <1>2

LEMMA ListingIsSet ==
    ASSUME NEW t \in Threads, NEW f, f = [u \in Threads |-> f[u]], IsCall(f[t]), NEW listing
    PROVE  [f EXCEPT ![t].listing = listing] =
              [f EXCEPT ![t] = [op |-> f[t].op, key |-> f[t].key, status |-> f[t].status,
                                id |-> f[t].id, listing |-> listing]]
<1> DEFINE c == f[t]
<1>1. c = [op |-> c.op, key |-> c.key, status |-> c.status, id |-> c.id, listing |-> c.listing]
    BY DEF IsCall
<1>2. [c EXCEPT !.listing = listing] =
         [op |-> c.op, key |-> c.key, status |-> c.status, id |-> c.id, listing |-> listing]
    <2> HIDE DEF c
    <2> QED
        BY <1>1
<1> QED
    BY <1>2

LEMMA Answered ==
    ASSUME Shape, NEW t \in Threads, NEW id, NEW listing, Answer(t, id, listing)
    PROVE  \E c : /\ IsCall(c) /\ c.op = calls[t].op /\ c.key = calls[t].key
                  /\ calls' = [calls EXCEPT ![t] = c]
<1>1. PICK status : calls' = [calls EXCEPT ![t].status = status, ![t].id = id, ![t].listing = listing]
    BY DEF Answer
<1> DEFINE one == [calls EXCEPT ![t].status = status]
           two == [one EXCEPT ![t].id = id]
           c == [op |-> calls[t].op, key |-> calls[t].key, status |-> status, id |-> id, listing |-> listing]
<1>2. one = [calls EXCEPT ![t] = [op |-> calls[t].op, key |-> calls[t].key, status |-> status,
                                  id |-> calls[t].id, listing |-> calls[t].listing]]
    BY StatusIsSet DEF Shape
<1>3. one = [u \in Threads |-> one[u]] /\ IsCall(one[t])
    BY <1>2 DEF Shape, IsCall
<1>4. two = [one EXCEPT ![t] = [op |-> one[t].op, key |-> one[t].key, status |-> one[t].status,
                                id |-> id, listing |-> one[t].listing]]
    <2> HIDE DEF one
    <2> QED
        BY <1>3, IdIsSet
<1>5. two = [calls EXCEPT ![t] = [op |-> calls[t].op, key |-> calls[t].key, status |-> status,
                                  id |-> id, listing |-> calls[t].listing]]
    <2> HIDE DEF one, two
    <2> QED
        BY <1>2, <1>4 DEF Shape
<1>6. two = [u \in Threads |-> two[u]] /\ IsCall(two[t])
    <2> HIDE DEF two
    <2> QED
        BY <1>5 DEF Shape, IsCall
<1>7. calls' = [two EXCEPT ![t] = [op |-> two[t].op, key |-> two[t].key, status |-> two[t].status,
                                   id |-> two[t].id, listing |-> listing]]
    <2>1. calls' = [two EXCEPT ![t].listing = listing]
        BY <1>1
    <2> HIDE DEF two
    <2> QED
        BY <1>6, <2>1, ListingIsSet
<1>8. calls' = [calls EXCEPT ![t] = c]
    <2> HIDE DEF two
    <2> QED
        BY <1>5, <1>7 DEF Shape
<1>9. IsCall(c) /\ c.op = calls[t].op /\ c.key = calls[t].key
    BY DEF IsCall
<1> QED
    BY <1>8, <1>9

LEMMA FailedKeeps ==
    ASSUME OperationsInv, NEW t \in Threads, calls' = [calls EXCEPT ![t].status = "failed"],
           late' \in {late, late \cup {calls[t]}},
           UNCHANGED <<pc, subscribed, publications, operation, holds, stopAsked>>
    PROVE  OperationsInv'
<1> DEFINE c == [op |-> calls[t].op, key |-> calls[t].key, status |-> "failed",
                 id |-> calls[t].id, listing |-> calls[t].listing]
<1>1. calls' = [calls EXCEPT ![t] = c]
    BY StatusIsSet DEF OperationsInv, Shape
<1>2. IsCall(c) /\ c.op = calls[t].op /\ c.key = calls[t].key /\ c.status = "failed"
    BY DEF IsCall
<1>3. /\ calls' = [u \in Threads |-> calls'[u]]
      /\ calls'[t] = c
      /\ \A u \in Threads : /\ IsCall(calls'[u]) /\ calls'[u].op = calls[u].op
                            /\ calls'[u].key = calls[u].key
                            /\ u # t => calls'[u] = calls[u]
    <2> HIDE DEF c
    <2> QED
        BY <1>1, <1>2, OneCall DEF OperationsInv
<1>4. \A u \in Threads : calls'[u].status = "done" => calls[u].status = "done"
    <2> HIDE DEF c
    <2> QED
        BY <1>2, <1>3
<1> QED
    BY <1>3, <1>4, OutsideKeeps

LEMMA RequestSubscribes ==
    ASSUME OperationsInv, NEW c, IsKnown(c),
           \/ StartRequested(c) \/ ExtendRequested(c) \/ StopRequested(c)
           \/ \E s \in ReplaySessions : ReplayRequested(c, s)
    PROVE  /\ \A s \in OwnSessions : s \in subscribed => s \in subscribed' \/ s \in stopAsked
           /\ c.op = "start" => c.key \in subscribed'
BY DEF IsKnown, StartRequested, ExtendRequested, StopRequested, ReplayRequested, Unsubscribe

LEMMA ServeKeeps ==
    ASSUME OperationsInv, NEW t \in Threads, Serve(t), UNCHANGED <<operation, holds, stopAsked>>
    PROVE  OperationsInv'
<1>1. IsKnown(calls[t])
    BY DEF OperationsInv, CallInv
<1>2. /\ \/ StartRequested(calls[t]) \/ ExtendRequested(calls[t]) \/ StopRequested(calls[t])
         \/ \E s \in ReplaySessions : ReplayRequested(calls[t], s)
      /\ \E id, listing : Answer(t, id, listing)
    BY <1>1 DEF Serve, IsKnown
<1>3. PICK c : /\ IsCall(c) /\ c.op = calls[t].op /\ c.key = calls[t].key
               /\ calls' = [calls EXCEPT ![t] = c]
    BY <1>2, Answered DEF OperationsInv
<1>4. /\ calls' = [u \in Threads |-> calls'[u]]
      /\ \A u \in Threads : /\ IsCall(calls'[u]) /\ calls'[u].op = calls[u].op
                            /\ calls'[u].key = calls[u].key
                            /\ u # t => calls'[u] = calls[u]
    BY <1>3, OneCall DEF OperationsInv
<1>5. /\ \A s \in OwnSessions : s \in subscribed => s \in subscribed' \/ s \in stopAsked
      /\ calls[t].op = "start" => calls[t].key \in subscribed'
    BY <1>1, <1>2, RequestSubscribes
<1>6. UNCHANGED <<pc, late, publications>>
    BY DEF Serve, driverVars
<1>7. \A u \in Threads : calls'[u].op = "start" /\ calls'[u].status = "done" =>
          calls[u].status = "done" \/ calls[u].key \in subscribed'
    BY <1>4, <1>5
<1> QED
    BY <1>4, <1>5, <1>6, <1>7, OutsideKeeps

LEMMA CallStepKeeps ==
    ASSUME OperationsInv, CallStep, UNCHANGED <<operation, holds, stopAsked>>
    PROVE  OperationsInv'
<1>1. ASSUME NEW t \in Threads, GiveUp(t)
      PROVE  OperationsInv'
    BY <1>1, FailedKeeps DEF GiveUp, driverVars
<1>2. ASSUME NEW t \in Threads, Refuse(t)
      PROVE  OperationsInv'
    BY <1>2, FailedKeeps DEF Refuse, archiveVars, driverVars
<1>3. ASSUME NEW t \in Threads, Serve(t)
      PROVE  OperationsInv'
    BY <1>3, ServeKeeps
<1>4. ASSUME UNCHANGED <<pc, calls, publications>>, late' \subseteq late,
             \A s \in OwnSessions : s \in subscribed => s \in subscribed' \/ s \in stopAsked
      PROVE  OperationsInv'
    BY <1>4, OutsideKeeps DEF OperationsInv, Shape, CallInv
<1>5. CASE ServeLate
    <2>1. PICK c \in late :
            /\ late' = late \ {c}
            /\ \/ StartRequested(c) \/ ExtendRequested(c) \/ StopRequested(c)
               \/ \E s \in ReplaySessions : ReplayRequested(c, s)
        BY <1>5 DEF ServeLate
    <2>2. IsKnown(c)
        BY DEF OperationsInv, CallInv
    <2>3. \A s \in OwnSessions : s \in subscribed => s \in subscribed' \/ s \in stopAsked
        BY <2>1, <2>2, RequestSubscribes
    <2> QED
        BY <1>4, <1>5, <2>1, <2>3 DEF ServeLate, driverVars
<1>6. CASE OthersStop
    BY <1>4, <1>6, ConstantFacts DEF OthersStop, Unsubscribe, processVars, driverVars
<1> QED
    BY <1>1, <1>2, <1>3, <1>5, <1>6 DEF CallStep

-----------------------------------------------------------------------------
LEMMA InitHolds ==
    ASSUME Init
    PROVE  IInv
<1>1. /\ holds = [t \in Threads |-> None]
      /\ operation = [t \in Threads |-> NoOperation]
      /\ stopAsked = {}
    BY DEF Init, OperationsInit
<1>2. /\ calls = [t \in Threads |-> NoCall]
      /\ late = {}
      /\ publications = [s \in Sessions |->
            IF s = OtherSession THEN [NoPublication EXCEPT !.state = "open"] ELSE NoPublication]
    BY DEF Init, RecordingsInit
<1>3. CASE program = "operations"
    <2>1. pc = [t \in Threads |-> "idle"]
        BY <1>3 DEF Init, Entry
    <2>2. Shape
        BY <1>1, <1>2, <2>1 DEF Shape, IsCall, IsOperation, NoCall, NoOperation, Operation
    <2>3. publications \in Publications
        <3> DEFINE Publication == [state : {"none", "open", "closed"}, shared : BOOLEAN,
                                   users : SUBSET Threads, position : Nat]
                   open == [NoPublication EXCEPT !.state = "open"]
        <3>1. NoPublication \in Publication
            BY DEF NoPublication
        <3>2. open \in Publication
            BY <3>1
        <3> HIDE DEF Publication, open
        <3>3. \A s \in Sessions : (IF s = OtherSession THEN open ELSE NoPublication) \in Publication
            BY <3>1, <3>2
        <3>4. publications = [s \in Sessions |-> IF s = OtherSession THEN open ELSE NoPublication]
            BY <1>2 DEF open
        <3>5. publications \in [Sessions -> Publication]
            BY <3>3, <3>4
        <3> QED
            BY <3>5 DEF Publications, Publication
    <2>4. WorkInv /\ CallInv
        BY <1>1, <1>2, <2>1 DEF WorkInv, CallInv, IsKnown, NoCall, NoOperation, Operation
    <2>5. UsersInv /\ OwnerInv /\ RecordedInv
        BY <1>1, ConstantFacts DEF UsersInv, OwnerInv, RecordedInv, Has, Owns, NoOperation, Operation
    <2> QED
        BY <1>3, <2>2, <2>3, <2>4, <2>5 DEF IInv, OperationsInv
<1> QED
    BY <1>1, <1>3 DEF IInv

LEMMA StepKeeps ==
    ASSUME IInv, [Next]_vars
    PROVE  IInv'
<1>1. CASE program = "operations"
    <2>1. OperationsInv
        BY <1>1 DEF IInv
    <2>2. ASSUME NEW t \in Threads, Operating(t)
          PROVE  OperationsInv' /\ UNCHANGED program
        <3>1. OperationStep(t) /\ UNCHANGED program
            BY <2>2 DEF Operating
        <3> QED
            BY <2>1, <3>1, AddPublicationForKeeps, AddExclusivePublicationForKeeps,
               StartRecordingForKeeps, ReturnPublicationKeeps, NoPublicationForKeeps,
               StopRecordingForKeeps, StoppedForKeeps, StartReplayKeeps, ReplayStartedKeeps,
               ReturnSubscriptionKeeps, NoSubscriptionKeeps
               DEF OperationStep
    <2>3. ASSUME Others
          PROVE  OperationsInv'
        <3>1. CallStep
            BY <1>1, <2>3 DEF Others
        <3>2. UNCHANGED <<operation, holds, stopAsked>>
            BY <2>3 DEF Others, Seen, operationVars
        <3> QED
            BY <2>1, <3>1, <3>2, CallStepKeeps
    <2>4. ASSUME UNCHANGED <<pc, calls, late, publications, subscribed, operation, holds, stopAsked>>
          PROVE  OperationsInv'
        BY <2>1, <2>4, OutsideKeeps DEF OperationsInv, Shape
    <2>5. ASSUME Reading
          PROVE  OperationsInv'
        <3>1. UNCHANGED <<pc, calls, late, publications, subscribed, operation, holds, stopAsked>>
            BY <2>5 DEF Reading, ReadStep, recordingsVars, processVars, archiveVars, driverVars,
                        operationVars
        <3> QED
            BY <2>4, <3>1
    <2>6. ASSUME UNCHANGED vars
          PROVE  OperationsInv'
        <3>1. UNCHANGED <<pc, calls, late, publications, subscribed, operation, holds, stopAsked>>
            BY <2>6
               DEF vars, recordingsVars, processVars, archiveVars, driverVars, operationVars
        <3> QED
            BY <2>4, <3>1
    <2>7. UNCHANGED program
        BY <2>2
           DEF Next, Publishing, MeasuringMain, MeasuringPoller, Reading, Others, Seen,
               Searching, vars
    <2>8. OperationsInv'
        BY <1>1, <2>2, <2>3, <2>5, <2>6
           DEF Next, Publishing, MeasuringMain, MeasuringPoller, Searching
    <2> QED
        BY <1>1, <2>7, <2>8 DEF IInv
<1>2. CASE program # "operations"
    <2>1. UNCHANGED <<program, holds>>
        BY <1>2
           DEF Next, Publishing, MeasuringMain, MeasuringPoller, Reading, Others, Seen,
               Searching,
                    FindCounterByRecording, Operating, vars, operationVars
    <2> QED
        BY <1>2, <2>1 DEF IInv
<1> QED
    BY <1>1, <1>2

\* Whatever the program is, the invariant gives what its runs check.
LEMMA Promises ==
    ASSUME IInv
    PROVE  HeldByOne /\ HeldIsRecorded
<1>1. CASE program = "operations"
    <2>1. OperationsInv
        BY <1>1 DEF IInv
    <2>2. HeldByOne
        BY <2>1 DEF HeldByOne, OperationsInv, OwnerInv, Owns, Shape
    <2>3. HeldIsRecorded
        BY <2>1 DEF HeldIsRecorded, OperationsInv, UsersInv, Has, RecordedInv
    <2> QED
        BY <2>2, <2>3
<1>2. CASE program # "operations"
    BY <1>2, ConstantFacts DEF IInv, HeldByOne, HeldIsRecorded
<1> QED
    BY <1>1, <1>2

LEMMA IInvHolds == Spec => []IInv
<1>1. Init => IInv
    BY InitHolds
<1>2. IInv /\ [Next]_vars => IInv'
    BY StepKeeps
<1> QED
    BY <1>1, <1>2, PTL DEF Spec

\* Two threads never hold the same recorded publication: the second that gets it
\* from the client library is told that it was added already, before it asks the
\* archive for anything (addRecordedPublication).
THEOREM HeldByOneHolds == Spec => []HeldByOne
BY IInvHolds, Promises, PTL

\* A recorded publication that a thread holds is open, and recorded under its own
\* session until the thread asks to stop (addRecordedPublication, stopRecording).
THEOREM HeldIsRecordedHolds == Spec => []HeldIsRecorded
BY IInvHolds, Promises, PTL

-----------------------------------------------------------------------------
(***************************************************************************)
(* Replays.  A thread carries the 64-bit id of its replay from the call to *)
(* the subscription; in every place it is the id of a replay that the      *)
(* archive has, and the low bits of that are the replay's own session.     *)
(***************************************************************************)
IsAmong(id, sessions) == \E r \in sessions : r.id = id

ReplaySessionsInv ==
    /\ \A r \in replays : r.session \in ReplaySessions /\ r.id % Modulus = r.session % Modulus
    /\ \A q, r \in replays : q.session = r.session => q = r

CarriedInv ==
    \A t \in Threads :
        /\ calls[t].op = "replay" /\ calls[t].status = "done" => IsAmong(calls[t].id, replays)
        /\ program = "operations" /\ pc[t] = "replay" => calls[t].op = "replay"
        /\ program = "operations" /\ pc[t] = "subscribing" => IsAmong(operation[t].replaySessionId, replays)
        /\ replaying[t] # NoReplay =>
              \E r \in replays : r.id = replaying[t].replaySessionId /\ r.session = replaying[t].session

ReplayInv == TypeInv /\ ReplaySessionsInv /\ CarriedInv

\* What narrows to the session: the low bits of the id, in two's complement.
LEMMA NarrowIsSession ==
    ASSUME TypeInv, ReplaySessionsInv, NEW r \in replays
    PROVE  Narrow(r.id) = r.session
<1>1. r.id \in Int /\ r.session \in ReplaySessions /\ r.id % Modulus = r.session % Modulus
    BY DEF TypeInv, OutsideOK, RecordingsTypeOK, ReplaySessionsInv
<1>2. r.session \in Int /\ r.session = Int32(r.session)
    BY <1>1, ReplayAssumption DEF ReplayAssumption
<1>3. Int32(r.id) = Int32(r.session)
    BY <1>1, <1>2, Int32Facts
<1> QED
    BY <1>2, <1>3 DEF Narrow

LEMMA NewReplay ==
    ASSUME TypeInv, ReplaySessionsInv, NEW c, NEW s \in ReplaySessions, ReplayRequested(c, s)
    PROVE  ReplaySessionsInv' /\ replays \subseteq replays' /\ IsAmong(ReplayId(s), replays')
<1> DEFINE r == [id |-> ReplayId(s), session |-> s]
<1>1. replays' = replays \cup {r} /\ \A q \in replays : q.session # s
    BY DEF ReplayRequested
<1>2. r.id = ReplayId(s) /\ r.session = s
    OBVIOUS
<1>3. ReplayId(s) % Modulus = s % Modulus
    <2> DEFINE n == Cardinality(replays) + 1
               low == s % Modulus
    <2>1. Modulus \in Nat \ {0} /\ s \in Int
        BY Bits, ReplayAssumption DEF ReplayAssumption
    <2>2. n \in Int
        BY FS_CardinalityType DEF TypeInv, OutsideOK
    <2>3. low \in 0..(Modulus - 1)
        BY <2>1
    <2>4. ReplayId(s) = n * Modulus + low
        BY DEF ReplayId, Modulus
    <2> HIDE DEF n, low
    <2>5. (low + n * Modulus) % Modulus = low % Modulus
        <3>1. low \in Int
            BY <2>1, <2>3
        <3> QED
            BY <2>1, <2>2, <3>1, ModuloOfSum
    <2>6. low % Modulus = low
        BY <2>1, <2>3
    <2>7. n * Modulus + low = low + n * Modulus
        BY <2>1, <2>2, <2>3
    <2> QED
        BY <2>4, <2>5, <2>6, <2>7 DEF low
<1> HIDE DEF r
<1> QED
    BY <1>1, <1>2, <1>3 DEF ReplaySessionsInv, IsAmong

\* Nothing but a new replay changes the replays; the ids that threads carry stay
\* ids of replays.
LEMMA CarriedStays ==
    ASSUME CarriedInv, replays \subseteq replays', UNCHANGED <<program, pc, operation, replaying>>,
           \A t \in Threads :
              \/ calls'[t] = calls[t]
              \/ calls'[t].op = calls[t].op /\ calls'[t].status = "failed"
              \/ calls'[t].op = calls[t].op /\ (calls[t].op = "replay" => IsAmong(calls'[t].id, replays'))
    PROVE  CarriedInv'
<1>1. \A id : IsAmong(id, replays) => IsAmong(id, replays')
    BY DEF IsAmong
<1>2. ASSUME NEW t \in Threads
      PROVE  /\ calls'[t].op = "replay" /\ calls'[t].status = "done" => IsAmong(calls'[t].id, replays')
             /\ program' = "operations" /\ pc'[t] = "replay" => calls'[t].op = "replay"
             /\ program' = "operations" /\ pc'[t] = "subscribing" =>
                   IsAmong(operation'[t].replaySessionId, replays')
    <2>1. calls'[t].op = "replay" /\ calls'[t].status = "done" => IsAmong(calls'[t].id, replays')
        <3>1. CASE calls'[t] = calls[t]
            BY <1>1, <3>1 DEF CarriedInv
        <3>2. CASE calls'[t].op = calls[t].op /\ calls'[t].status = "failed"
            BY <3>2
        <3>3. CASE calls'[t].op = calls[t].op /\ (calls[t].op = "replay" => IsAmong(calls'[t].id, replays'))
            BY <3>3
        <3> QED
            BY <3>1, <3>2, <3>3
    <2>2. calls'[t].op = calls[t].op
        OBVIOUS
    <2>3. program' = "operations" /\ pc'[t] = "replay" => calls'[t].op = "replay"
        BY <2>2 DEF CarriedInv
    <2>4. program' = "operations" /\ pc'[t] = "subscribing" => IsAmong(operation'[t].replaySessionId, replays')
        BY <1>1 DEF CarriedInv
    <2> QED
        BY <2>1, <2>3, <2>4
<1>3. ASSUME NEW t \in Threads, replaying'[t] # NoReplay
      PROVE  \E r \in replays' : r.id = replaying'[t].replaySessionId /\ r.session = replaying'[t].session
    BY <1>3 DEF CarriedInv
<1> QED
    BY <1>2, <1>3 DEF CarriedInv

LEMMA OutsideReplays ==
    ASSUME ReplayInv, CallStep, UNCHANGED <<program, operation, replaying>>
    PROVE  ReplaySessionsInv' /\ CarriedInv'
<1>1. calls \in [Threads -> Calls]
    BY DEF ReplayInv, TypeInv, CallsOK
<1>2. ASSUME replays' = replays
      PROVE  ReplaySessionsInv'
    BY <1>2 DEF ReplayInv, ReplaySessionsInv
<1>3. ASSUME NEW t \in Threads, GiveUp(t) \/ Refuse(t)
      PROVE  ReplaySessionsInv' /\ CarriedInv'
    <2>1. replays' = replays /\ pc' = pc /\ calls' = [calls EXCEPT ![t].status = "failed"]
        BY <1>3 DEF GiveUp, Refuse, archiveVars
    <2>2. \A u \in Threads : calls'[u] = calls[u] \/ (calls'[u].op = calls[u].op /\ calls'[u].status = "failed")
        BY <1>1, <2>1 DEF Calls
    <2> QED
        BY <1>2, <2>1, <2>2, CarriedStays DEF ReplayInv
<1>4. ASSUME NEW t \in Threads, Serve(t)
      PROVE  ReplaySessionsInv' /\ CarriedInv'
    <2>1. UNCHANGED pc
        BY <1>4 DEF Serve
    <2>2. PICK id, listing :
            /\ Answer(t, id, listing)
            /\ \/ replays' = replays /\ calls[t].op # "replay"
               \/ \E s \in ReplaySessions : ReplayRequested(calls[t], s) /\ id = ReplayId(s)
        BY <1>4 DEF Serve, StartRequested, ExtendRequested, StopRequested
    <2>3. PICK status \in {"done", "failed"} :
            calls' = [calls EXCEPT ![t].status = status, ![t].id = id, ![t].listing = listing]
        BY <2>2 DEF Answer
    <2>4. /\ calls'[t].op = calls[t].op /\ calls'[t].id = id
          /\ \A u \in Threads \ {t} : calls'[u] = calls[u]
        BY <1>1, <2>3 DEF Calls
    <2>5. CASE replays' = replays /\ calls[t].op # "replay"
        BY <1>2, <2>1, <2>4, <2>5, CarriedStays DEF ReplayInv
    <2>6. CASE \E s \in ReplaySessions : ReplayRequested(calls[t], s) /\ id = ReplayId(s)
        <3>1. ReplaySessionsInv' /\ replays \subseteq replays' /\ IsAmong(id, replays')
            <4>1. PICK s \in ReplaySessions : ReplayRequested(calls[t], s) /\ id = ReplayId(s)
                BY <2>6
            <4>2. ReplaySessionsInv' /\ replays \subseteq replays' /\ IsAmong(ReplayId(s), replays')
                BY <4>1, NewReplay DEF ReplayInv
            <4>3. [id |-> ReplayId(s), session |-> s] \in replays'
                BY <4>1 DEF ReplayRequested
            <4> QED
                BY <4>1, <4>2, <4>3 DEF IsAmong
        <3> QED
            BY <2>1, <2>4, <3>1, CarriedStays DEF ReplayInv, IsAmong
    <2> QED
        BY <2>2, <2>5, <2>6
<1>5. CASE ServeLate
    <2>1. UNCHANGED <<pc, calls>>
        BY <1>5 DEF ServeLate
    <2>2. \/ replays' = replays
          \/ \E c \in late, s \in ReplaySessions : ReplayRequested(c, s)
        BY <1>5 DEF ServeLate, StartRequested, ExtendRequested, StopRequested
    <2>3. ReplaySessionsInv' /\ replays \subseteq replays'
        BY <1>2, <2>2, NewReplay DEF ReplayInv
    <2> QED
        BY <2>1, <2>3, CarriedStays DEF ReplayInv
<1>6. CASE OthersStop
    BY <1>2, <1>6, CarriedStays DEF OthersStop, processVars, ReplayInv
<1> QED
    BY <1>3, <1>4, <1>5, <1>6 DEF CallStep

LEMMA OwnReplays ==
    ASSUME ReplayInv, program = "operations", program' = program, NEW t \in Threads, OperationStep(t)
    PROVE  ReplaySessionsInv' /\ CarriedInv'
<1>1. replays' = replays
    BY DEF OperationStep, AddPublicationFor, AddExclusivePublicationFor, StartRecordingFor,
       ReturnPublication, NoPublicationFor, StopRecordingFor, StoppedFor, StartReplay, ReplayStarted,
       ReturnSubscription, NoSubscription, outside, archiveVars
<1>2. ReplaySessionsInv'
    BY <1>1 DEF ReplayInv, ReplaySessionsInv
<1>3. /\ pc = [u \in Threads |-> pc[u]] /\ calls \in [Threads -> Calls] /\ OperationsTypeOK
    BY DEF ReplayInv, TypeInv, CallsOK, OperationsOK
<1>4. \A id : IsAmong(id, replays') <=> IsAmong(id, replays)
    BY <1>1 DEF IsAmong
<1> DEFINE Carried(u) ==
        /\ calls[u].op = "replay" /\ calls[u].status = "done" => IsAmong(calls[u].id, replays)
        /\ pc[u] = "replay" => calls[u].op = "replay"
        /\ pc[u] = "subscribing" => IsAmong(operation[u].replaySessionId, replays)
        /\ replaying[u] # NoReplay =>
              \E r \in replays : r.id = replaying[u].replaySessionId /\ r.session = replaying[u].session
<1>5. \A u \in Threads : Carried(u)
    BY DEF ReplayInv, CarriedInv
<1>6. CASE AddPublicationFor(t) \/ AddExclusivePublicationFor(t)
    <2>1. PICK o : pc' = [pc EXCEPT ![t] = "added"] /\ operation' = [operation EXCEPT ![t] = o]
        BY <1>6 DEF AddPublicationFor, AddExclusivePublicationFor, Begin, Go
    <2>2. UNCHANGED <<calls, replaying>>
        BY <1>6 DEF AddPublicationFor, AddExclusivePublicationFor
    <2> QED
        BY <1>1, <1>2, <1>3, <1>4, <1>5, <2>1, <2>2 DEF CarriedInv, OperationsTypeOK
<1>7. CASE StartRecordingFor(t) \/ StopRecordingFor(t)
    <2>1. PICK c, label :
            /\ label \in {"starting", "stopping"}
            /\ pc' = [pc EXCEPT ![t] = label] /\ calls' = [calls EXCEPT ![t] = c] /\ c.status = "asked"
        <3>1. CASE StartRecordingFor(t)
            <4> DEFINE call == [op |-> "start", key |-> AddSessionId(operation[t].session), status |-> "asked",
                                id |-> None, listing |-> <<>>]
            <4>1. pc' = [pc EXCEPT ![t] = "starting"] /\ calls' = [calls EXCEPT ![t] = call]
                BY <3>1 DEF StartRecordingFor, Go, Ask
            <4>2. call.status = "asked"
                OBVIOUS
            <4> HIDE DEF call
            <4> QED
                BY <4>1, <4>2
        <3>2. CASE StopRecordingFor(t)
            <4> DEFINE call == [op |-> "stop", key |-> AddSessionId(holds[t]), status |-> "asked",
                                id |-> None, listing |-> <<>>]
            <4>1. pc' = [pc EXCEPT ![t] = "stopping"] /\ calls' = [calls EXCEPT ![t] = call]
                BY <3>2 DEF StopRecordingFor, Go, Ask
            <4>2. call.status = "asked"
                OBVIOUS
            <4> HIDE DEF call
            <4> QED
                BY <4>1, <4>2
        <3> QED
            BY <1>7, <3>1, <3>2
    <2>2. UNCHANGED <<operation, replaying>>
        BY <1>7 DEF StartRecordingFor, StopRecordingFor, operationVars
    <2> QED
        BY <1>1, <1>2, <1>3, <1>4, <1>5, <2>1, <2>2 DEF CarriedInv, OperationsTypeOK
<1>8. CASE ReturnPublication(t) \/ StoppedFor(t) \/ NoPublicationFor(t) \/ NoSubscription(t)
    <2>1. /\ pc' = [pc EXCEPT ![t] = "idle"]
          /\ calls' = calls \/ calls' = [calls EXCEPT ![t] = NoCall]
          /\ operation' = operation \/ operation' = [operation EXCEPT ![t] = NoOperation]
          /\ replaying' = replaying
        BY <1>8 DEF ReturnPublication, StoppedFor, NoPublicationFor, NoSubscription, Go, Returned, Threw
    <2>2. NoCall.op = "none"
        BY DEF NoCall
    <2> QED
        BY <1>1, <1>2, <1>3, <1>4, <1>5, <2>1, <2>2 DEF CarriedInv, OperationsTypeOK
<1>9. CASE StartReplay(t)
    <2>1. PICK c, o : /\ pc' = [pc EXCEPT ![t] = "replay"] /\ operation' = [operation EXCEPT ![t] = o]
                      /\ calls' = [calls EXCEPT ![t] = c] /\ c.op = "replay" /\ c.status = "asked"
        <3> DEFINE call == [op |-> "replay", key |-> AnySession, status |-> "asked", id |-> None, listing |-> <<>>]
        <3>1. pc' = [pc EXCEPT ![t] = "replay"]
              /\ operation' = [operation EXCEPT ![t] = Operation("replay", None, FALSE)]
              /\ calls' = [calls EXCEPT ![t] = call]
            BY <1>9 DEF StartReplay, Begin, Go, Ask
        <3>2. call.op = "replay" /\ call.status = "asked"
            OBVIOUS
        <3> HIDE DEF call
        <3> QED
            BY <3>1, <3>2
    <2>2. replaying' = replaying
        BY <1>9 DEF StartReplay
    <2> QED
        BY <1>1, <1>2, <1>3, <1>4, <1>5, <2>1, <2>2 DEF CarriedInv, OperationsTypeOK
<1>10. CASE ReplayStarted(t)
    <2>1. /\ pc[t] = "replay" /\ calls[t].status = "done" /\ pc' = [pc EXCEPT ![t] = "subscribing"]
          /\ operation' = [operation EXCEPT ![t].replaySessionId = calls[t].id]
          /\ calls' = [calls EXCEPT ![t] = NoCall] /\ replaying' = replaying
        BY <1>10 DEF ReplayStarted, Go, Returned
    <2>2. IsAmong(calls[t].id, replays)
        BY <1>5, <2>1
    <2>3. NoCall.op = "none"
        BY DEF NoCall
    <2>4. operation'[t].replaySessionId = calls[t].id /\ \A u \in Threads \ {t} : operation'[u] = operation[u]
        BY <1>3, <2>1 DEF OperationsTypeOK
    <2> QED
        BY <1>1, <1>2, <1>3, <1>4, <1>5, <2>1, <2>2, <2>3, <2>4 DEF CarriedInv, OperationsTypeOK
<1>11. CASE ReturnSubscription(t)
    <2> DEFINE id == operation[t].replaySessionId
    <2>1. /\ pc[t] = "subscribing" /\ pc' = [pc EXCEPT ![t] = "idle"]
          /\ replaying' = [replaying EXCEPT ![t] = [replaySessionId |-> id, session |-> Narrow(id)]]
          /\ operation' = [operation EXCEPT ![t] = NoOperation]
          /\ calls' = calls
        BY <1>11 DEF ReturnSubscription, Go
    <2>2. PICK r \in replays : r.id = id
        BY <1>5, <2>1 DEF IsAmong
    <2>3. Narrow(id) = r.session
        BY <2>2, NarrowIsSession DEF ReplayInv
    <2> HIDE DEF id
    <2>4. replaying'[t].replaySessionId = r.id /\ replaying'[t].session = r.session
          /\ \A u \in Threads \ {t} : replaying'[u] = replaying[u]
        BY <1>3, <2>1, <2>2, <2>3 DEF OperationsTypeOK
    <2> QED
        BY <1>1, <1>2, <1>3, <1>4, <1>5, <2>1, <2>2, <2>4 DEF CarriedInv, OperationsTypeOK
<1> QED
    BY <1>6, <1>7, <1>8, <1>9, <1>10, <1>11 DEF OperationStep

\* The other programs' steps make no call that is done, and carry no id.
LEMMA OtherProgramsReplays ==
    ASSUME ReplayInv, OwnChange, program # "operations", UNCHANGED <<program, replaying>>
    PROVE  ReplaySessionsInv' /\ CarriedInv'
<1>1. replays' = replays
    BY DEF OwnChange
<1>2. calls \in [Threads -> Calls]
    BY DEF ReplayInv, TypeInv, CallsOK
<1>3. ASSUME NEW t \in Threads
      PROVE  calls'[t] = calls[t] \/ calls'[t].status # "done"
    <2>1. CASE calls' = calls
        BY <2>1
    <2>2. ASSUME NEW u \in Threads, calls' = [calls EXCEPT ![u] = NoCall]
          PROVE  calls'[t] = calls[t] \/ calls'[t].status # "done"
        BY <1>2, <2>2 DEF NoCall
    <2>3. ASSUME NEW u \in Threads, NEW op, NEW key, NEW id, Ask(u, op, key, id)
          PROVE  calls'[t] = calls[t] \/ calls'[t].status # "done"
        <3> DEFINE call == [op |-> op, key |-> key, status |-> "asked", id |-> id, listing |-> <<>>]
        <3>1. calls' = [calls EXCEPT ![u] = call] /\ call.status = "asked"
            BY <2>3 DEF Ask
        <3> HIDE DEF call
        <3> QED
            BY <1>2, <3>1
    <2> QED
        BY <2>1, <2>2, <2>3 DEF OwnChange, CallsChange
<1> QED
    BY <1>1, <1>3 DEF ReplayInv, ReplaySessionsInv, CarriedInv

LEMMA ReplayInit == Init => ReplayInv
<1> SUFFICES ASSUME Init PROVE ReplayInv
    OBVIOUS
<1>1. /\ replays = {} /\ calls = [t \in Threads |-> NoCall]
      /\ replaying = [t \in Threads |-> NoReplay]
      /\ pc = [t \in Threads |-> Entry(t)]
    BY DEF Init, RecordingsInit, OperationsInit
<1>2. program = "operations" => \A t \in Threads : pc[t] = "idle"
    BY <1>1 DEF Entry
<1> QED
    BY <1>1, <1>2, TypeInit DEF ReplayInv, ReplaySessionsInv, CarriedInv, NoCall

LEMMA ReplayStep == ReplayInv /\ [Next]_vars => ReplayInv'
<1> SUFFICES ASSUME ReplayInv, [Next]_vars PROVE ReplayInv'
    OBVIOUS
<1>1. TypeInv /\ TypeInv'
    BY TypeStep DEF ReplayInv
<1>2. ASSUME UNCHANGED <<program, pc, calls, operation, replaying, replays>>
      PROVE  ReplaySessionsInv' /\ CarriedInv'
    BY <1>2 DEF ReplayInv, ReplaySessionsInv, CarriedInv
<1>3. CASE Publishing
    BY <1>1, <1>3, PublisherChange, OtherProgramsReplays DEF Publishing, operationVars, ReplayInv
<1>4. CASE MeasuringMain \/ MeasuringPoller
    BY <1>1, <1>4, MainChange, PollerChange, OtherProgramsReplays DEF MeasuringMain, MeasuringPoller, operationVars, ReplayInv
<1>5. ASSUME NEW t \in Threads, Operating(t)
      PROVE  ReplayInv'
    BY <1>1, <1>5, OwnReplays DEF Operating, ReplayInv
<1>6. ASSUME NEW t \in Threads, Searching(t)
      PROVE  ReplayInv'
    <2>1. UNCHANGED <<program, pc, calls, operation, replaying, replays>>
        BY <1>6 DEF Searching, FindCounterByRecording, recordingsVars, processVars, archiveVars
    <2> QED
        BY <1>1, <1>2, <2>1 DEF ReplayInv
<1>7. CASE Reading
    <2>1. UNCHANGED <<program, pc, calls, operation, replaying, replays>>
        BY <1>7 DEF Reading, ReadStep, recordingsVars, processVars, archiveVars, operationVars
    <2> QED
        BY <1>1, <1>2, <2>1 DEF ReplayInv
<1>8. CASE Others
    <2>1. UNCHANGED <<program, operation, replaying>>
        BY <1>8 DEF Others, Seen, operationVars
    <2>2. CASE CallStep
        BY <1>1, <2>1, <2>2, OutsideReplays DEF ReplayInv
    <2>3. CASE RecordingStep \/ CounterStep(OwnSessions) \/ CounterStep({OtherSession}) \/ EventStep \/ Interrupt
        <3>1. UNCHANGED <<pc, calls, replays>>
            BY <2>3 DEF RecordingStep, StartRecording, AllocateCounter, Record, StopRecording, CounterStep, OtherCounter,
               EventStep, UnknownEventSent, OthersPublish, Interrupt, processVars, archiveVars
        <3> QED
            BY <1>1, <1>2, <2>1, <3>1 DEF ReplayInv
    <2> QED
        BY <1>8, <2>2, <2>3 DEF Others
<1>9. CASE UNCHANGED vars
    <2>1. UNCHANGED <<program, pc, calls, operation, replaying, replays>>
        BY <1>9 DEF vars, recordingsVars, processVars, archiveVars, operationVars
    <2> QED
        BY <1>1, <1>2, <2>1 DEF ReplayInv
<1> QED
    BY <1>3, <1>4, <1>5, <1>6, <1>7, <1>8, <1>9 DEF Next

\* The subscription that replay returns to a thread is of the replay that the
\* archive started for it, and of no other that it ever starts, although
\* AeronArchive::replay narrows the 64-bit id of the replay to the 32 bits of a
\* session: the low bits are the session, and no two replays share one.
THEOREM ReplayIsOwnHolds == Spec => []ReplayIsOwn
<1>1. ReplayInv => ReplayIsOwn
    <2> SUFFICES ASSUME ReplayInv, NEW t \in Threads, NEW r \in replays, replaying[t] # NoReplay
                 PROVE  r.session = replaying[t].session <=> r.id = replaying[t].replaySessionId
        BY DEF ReplayIsOwn
    <2>1. PICK q \in replays : q.id = replaying[t].replaySessionId /\ q.session = replaying[t].session
        BY DEF ReplayInv, CarriedInv
    <2>2. ASSUME r.session = q.session
          PROVE  r.id = q.id
        BY <2>2 DEF ReplayInv, ReplaySessionsInv
    <2>3. ASSUME r.id = q.id
          PROVE  r.session = q.session
        <3>1. Narrow(r.id) = r.session /\ Narrow(q.id) = q.session
            BY NarrowIsSession DEF ReplayInv
        <3> QED
            BY <2>3, <3>1
    <2> QED
        BY <2>1, <2>2, <2>3
<1> QED
    BY <1>1, ReplayInit, ReplayStep, PTL DEF Spec
=============================================================================
