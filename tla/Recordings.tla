------------------------------ MODULE Recordings ------------------------------
(***************************************************************************)
(* What a client process sees of the media driver and the archive when it  *)
(* records: publications, recordings, the driver's counters, the archive's *)
(* recording events and replays.  All of it is external.  A call of        *)
(* AeronArchive is asked, carried out by the archive and answered, refused *)
(* or given up, as AeronArchive.tla shows in detail; what was given up may *)
(* still be carried out.  There is one channel and one stream.             *)
(***************************************************************************)
EXTENDS Integers, Sequences, FiniteSets

CONSTANTS
    Threads,            \* threads of the client process
    OwnSessions,        \* sessions that its publications may get
    OtherSession,       \* the session of another process on the same stream
    LastRecordingId,    \* bound: recordings that the archive makes
    LastCounterId,      \* bound: counters that the driver has
    RecordLimit,        \* descriptors asked for in one listing (100)
    ReplaySessions,     \* sessions that replays may get
    IntBits,            \* the width of std::int32_t
    OthersPosition,     \* bound: what the other process publishes
    MaxEvents           \* bound: events on their way; the archive drops more

None == -1                      \* the code's -1: no counter, no recording
AnySession == 0                 \* a channel without a session id
Sessions == OwnSessions \cup {OtherSession}
RecordingIds == 0..LastRecordingId
CounterIds == 0..LastCounterId

ASSUME SessionAssumption ==
    Sessions \subseteq Nat \ {0} /\ OtherSession \notin OwnSessions /\ IsFiniteSet(OwnSessions)

ASSUME SizeAssumption ==
    /\ LastRecordingId \in Nat /\ LastCounterId \in Nat /\ RecordLimit \in Nat
    /\ IntBits \in Nat \ {0} /\ MaxEvents \in Nat /\ OthersPosition \in Nat

\* A conversion to std::int32_t: the low bits, in two's complement.
Int32(n) ==
    LET low == n % 2^IntBits IN
    IF low < 2^(IntBits - 1) THEN low ELSE low - 2^IntBits

ASSUME ReplayAssumption == \A s \in ReplaySessions : s \in Int /\ s = Int32(s)

VARIABLES
    pc,                 \* where each thread of the process is
    calls,              \* calls[t]: the call of AeronArchive that t makes
    late,               \* requests the client has given up and the archive may still get
    publications,
    subscribed,         \* what the archive records: sessions, or any
    extending,          \* the recording that images of the any-session subscription extend
    recordings,
    counters,
    replays,            \* replay sessions at the archive
    events,             \* recording events on their way to the process
    listening,          \* has the process subscribed to them?
    running             \* the flag of the samples, FALSE after SIGINT

archiveVars == <<late, subscribed, extending, recordings, replays, events>>
driverVars == <<publications, counters>>
processVars == <<pc, calls, listening, running>>
\* All but what the threads change themselves.
outside == <<archiveVars, counters, listening, running>>
recordingsVars == <<processVars, archiveVars, driverVars>>

NoCall == [op |-> "none", key |-> AnySession, status |-> "none", id |-> None, listing |-> <<>>]
NoPublication == [state |-> "none", shared |-> FALSE, users |-> {}, position |-> 0]
NoRecording == [state |-> "none", session |-> AnySession, position |-> 0, counter |-> None]
UnusedCounter == [state |-> "unused", typeId |-> "none", recordingId |-> None,
                  sessionId |-> AnySession, value |-> 0]

\* There may be a recording from before that ended at oldPosition, and the
\* archive may be recording the other process.
RecordingsInit(oldPosition, recorded) ==
    /\ calls = [t \in Threads |-> NoCall]
    /\ late = {}
    /\ publications = [s \in Sessions |->
          IF s = OtherSession THEN [NoPublication EXCEPT !.state = "open"] ELSE NoPublication]
    /\ subscribed = recorded
    /\ extending = None
    /\ recordings = [r \in RecordingIds |->
          IF r = 0 /\ oldPosition # None
          THEN [NoRecording EXCEPT !.state = "stopped", !.session = OtherSession,
                                   !.position = oldPosition]
          ELSE NoRecording]
    /\ counters = [i \in CounterIds |-> UnusedCounter]
    /\ replays = {}
    /\ events = <<>>
    /\ listening = FALSE
    /\ running = TRUE

Go(t, label) == pc' = [pc EXCEPT ![t] = label]

-----------------------------------------------------------------------------
(***************************************************************************)
(* The client side of a call.  lock_ keeps the others waiting.             *)
(***************************************************************************)
Ask(t, op, key, id) ==
    /\ \A u \in Threads : calls[u].status # "asked"
    /\ calls' = [calls EXCEPT ![t] = [op |-> op, key |-> key, status |-> "asked",
                                      id |-> id, listing |-> <<>>]]

Returned(t) == calls[t].status = "done" /\ calls' = [calls EXCEPT ![t] = NoCall]
Threw(t) == calls[t].status = "failed" /\ calls' = [calls EXCEPT ![t] = NoCall]

\* The caller times out before the archive got to its request.
GiveUp(t) ==
    /\ calls[t].status = "asked"
    /\ calls' = [calls EXCEPT ![t].status = "failed"]
    /\ late' = late \cup {calls[t]}
    /\ UNCHANGED <<pc, subscribed, extending, recordings, replays, events, driverVars, listening, running>>

-----------------------------------------------------------------------------
(***************************************************************************)
(* The archive's side of a call.                                           *)
(***************************************************************************)
StartRequested(c) ==
    /\ c.op = "start" /\ c.key \notin subscribed
    /\ subscribed' = subscribed \cup {c.key}
    /\ UNCHANGED <<extending, replays>>

ExtendRequested(c) ==
    /\ c.op = "extend" /\ c.key \notin subscribed
    /\ recordings[c.id].state = "stopped"
    /\ subscribed' = subscribed \cup {c.key}
    /\ extending' = c.id
    /\ UNCHANGED replays

Unsubscribe(key) ==
    /\ subscribed' = subscribed \ {key}
    /\ extending' = IF key = AnySession THEN None ELSE extending

StopRequested(c) ==
    /\ c.op = "stop" /\ c.key \in subscribed
    /\ Unsubscribe(c.key)
    /\ UNCHANGED replays

\* The id of a replay session has the session of its publication in the low bits.
ReplayId(s) == (Cardinality(replays) + 1) * 2^IntBits + (s % 2^IntBits)

ReplayRequested(c, s) ==
    /\ c.op = "replay"
    /\ \A r \in replays : r.session # s
    /\ replays' = replays \cup {[id |-> ReplayId(s), session |-> s]}
    /\ UNCHANGED <<subscribed, extending>>

\* At most RecordLimit descriptors, in the order of the recordings' ids.
Known == { r \in RecordingIds : recordings[r].state \in {"active", "stopped"} }
Listed == { r \in Known : Cardinality({ q \in Known : q < r }) < RecordLimit }
Descriptor(r) ==
    [recordingId |-> r,
     stopPosition |-> IF recordings[r].state = "stopped" THEN recordings[r].position ELSE None]
Listing ==
    [n \in 1..Cardinality(Listed) |->
        Descriptor(CHOOSE r \in Listed : Cardinality({ q \in Listed : q < r }) = n - 1)]

\* The answer may be too late for the caller.
Answer(t, id, listing) ==
    \E status \in {"done", "failed"} :
        calls' = [calls EXCEPT ![t].status = status, ![t].id = id, ![t].listing = listing]

Serve(t) ==
    LET c == calls[t] IN
    /\ c.status = "asked"
    /\ \/ (StartRequested(c) \/ ExtendRequested(c) \/ StopRequested(c)) /\ Answer(t, None, <<>>)
       \/ \E s \in ReplaySessions : ReplayRequested(c, s) /\ Answer(t, ReplayId(s), <<>>)
       \/ /\ c.op = "list" /\ Answer(t, None, Listing)
          /\ UNCHANGED <<subscribed, extending, replays>>
    /\ UNCHANGED <<pc, late, recordings, events, driverVars, listening, running>>

Refuse(t) ==
    /\ calls[t].status = "asked"
    /\ calls' = [calls EXCEPT ![t].status = "failed"]
    /\ UNCHANGED <<pc, archiveVars, driverVars, listening, running>>

\* A request that was given up.
ServeLate ==
    /\ \E c \in late :
         /\ late' = late \ {c}
         /\ \/ StartRequested(c) \/ ExtendRequested(c) \/ StopRequested(c)
            \/ \E s \in ReplaySessions : ReplayRequested(c, s)
    /\ UNCHANGED <<pc, calls, recordings, events, driverVars, listening, running>>

\* Another client stops what is recorded on the channel, as samples/DriverControl can.
OthersStop ==
    /\ \E key \in subscribed \cap {AnySession, OtherSession} : Unsubscribe(key)
    /\ UNCHANGED <<processVars, late, recordings, replays, events, driverVars>>

-----------------------------------------------------------------------------
(***************************************************************************)
(* Recording.  A counter's metadata is written first, then its state; one  *)
(* that is freed keeps what it says until it is used again.                *)
(***************************************************************************)
Wanted(s) == subscribed \cap {s, AnySession} # {}
Live(r) == recordings[r].state \in {"starting", "active"}
InUse(i) == counters[i].state = "allocated" \/ \E r \in RecordingIds : Live(r) /\ recordings[r].counter = i

Event(kind, r, position) ==
    IF listening /\ Len(events) < MaxEvents
    THEN events' = Append(events, [kind |-> kind, recordingId |-> r, position |-> position])
    ELSE UNCHANGED events

\* A counter that was freed is given out before one that was never used.
IsNext(i) == ~InUse(i) /\ \A j \in CounterIds : j < i => InUse(j)

WriteMetadata(i, r, s) ==
    /\ IsNext(i)
    /\ counters' = [counters EXCEPT ![i].typeId = "recordingPos", ![i].recordingId = r,
                                    ![i].sessionId = s, ![i].value = 0]

\* A new recording, or the one to extend if the publication goes on where it ends.
IsNew(r) == recordings[r].state = "none" /\ \A q \in RecordingIds : q < r => recordings[q].state # "none"
IsExtendedBy(r, s) == recordings[r].state = "stopped" /\ recordings[r].position = publications[s].position

MayRecordIn(r, s) ==
    \/ s \in subscribed /\ IsNew(r)
    \/ AnySession \in subscribed /\ IF extending = None THEN IsNew(r) ELSE r = extending /\ IsExtendedBy(r, s)

StartRecording(s) ==
    /\ publications[s].state = "open"
    /\ \A r \in RecordingIds : Live(r) => recordings[r].session # s
    /\ \E r \in RecordingIds, i \in CounterIds :
         /\ MayRecordIn(r, s)
         /\ WriteMetadata(i, r, s)
         /\ recordings' = [recordings EXCEPT ![r] =
                             [state |-> "starting", session |-> s, counter |-> i,
                              position |-> publications[s].position]]
    /\ UNCHANGED <<processVars, late, subscribed, extending, replays, events, publications>>

AllocateCounter(r) ==
    LET i == recordings[r].counter IN
    /\ recordings[r].state = "starting"
    /\ counters' = [counters EXCEPT ![i].state = "allocated", ![i].value = recordings[r].position]
    /\ recordings' = [recordings EXCEPT ![r].state = "active"]
    /\ Event("started", r, recordings[r].position)
    /\ UNCHANGED <<processVars, late, subscribed, extending, replays, publications>>

Record(r) ==
    LET i == recordings[r].counter IN
    /\ recordings[r].state = "active"
    /\ recordings[r].position < publications[recordings[r].session].position
    /\ recordings' = [recordings EXCEPT ![r].position = @ + 1]
    /\ counters' = [counters EXCEPT ![i].value = @ + 1]
    /\ Event("progress", r, recordings[r].position + 1)
    /\ UNCHANGED <<processVars, late, subscribed, extending, replays, publications>>

\* It was told to stop, or has all of a publication that is gone.
StopRecording(r) ==
    LET i == recordings[r].counter
        p == publications[recordings[r].session]
    IN
    /\ recordings[r].state = "active"
    /\ ~Wanted(recordings[r].session) \/ (p.state = "closed" /\ recordings[r].position = p.position)
    /\ recordings' = [recordings EXCEPT ![r].state = "stopped"]
    /\ counters' = [counters EXCEPT ![i].state = "reclaimed"]
    /\ Event("stopped", r, recordings[r].position)
    /\ UNCHANGED <<processVars, late, subscribed, extending, replays, publications>>

\* The driver counts other things about a session, with the session under the
\* same offset.
OtherCounter(i, s) ==
    /\ publications[s].state = "open"
    /\ IsNext(i) /\ counters[i].typeId # "other"
    /\ counters' = [counters EXCEPT ![i] = [state |-> "allocated", typeId |-> "other",
                      recordingId |-> None, sessionId |-> s, value |-> 0]]
    /\ UNCHANGED <<processVars, archiveVars, publications>>

\* An event of a kind that the client does not know.
UnknownEventSent ==
    /\ listening /\ Len(events) < MaxEvents
    /\ events' = Append(events, [kind |-> "unknown", recordingId |-> None, position |-> 0])
    /\ UNCHANGED <<processVars, late, subscribed, extending, recordings, replays, driverVars>>

OthersPublish ==
    /\ publications[OtherSession].position < OthersPosition
    /\ publications' = [publications EXCEPT ![OtherSession].position = @ + 1]
    /\ UNCHANGED <<processVars, archiveVars, counters>>

-----------------------------------------------------------------------------
(***************************************************************************)
(* Publications, as the client library handles them.                       *)
(***************************************************************************)
\* addPublication: one publication per channel and stream, shared by its users.
SharedPublication == { s \in OwnSessions : publications[s].state = "open" /\ publications[s].shared }

OpenPublication(t, s, shared, position) ==
    /\ publications[s].state = "none"
    /\ \A q \in OwnSessions : q < s => publications[q].state # "none"
    /\ publications' = [publications EXCEPT ![s] =
                          [state |-> "open", shared |-> shared, users |-> {t}, position |-> position]]

JoinPublication(t, s) ==
    /\ s \in SharedPublication
    /\ publications' = [publications EXCEPT ![s].users = @ \cup {t}]

\* A publication is closed when its last user lets go of it.
Release(t, s) ==
    LET users == publications[s].users \ {t} IN
    publications' = [publications EXCEPT ![s].users = users,
                                         ![s].state = IF users = {} THEN "closed" ELSE @]

Interrupt ==
    /\ running /\ running' = FALSE
    /\ UNCHANGED <<pc, calls, listening, archiveVars, driverVars>>

\* What the archive and the driver do, by what a process can see of it.
CallStep == ServeLate \/ OthersStop \/ \E t \in Threads : GiveUp(t) \/ Serve(t) \/ Refuse(t)
RecordingStep ==
    \/ \E s \in Sessions : StartRecording(s)
    \/ \E r \in RecordingIds : AllocateCounter(r) \/ Record(r) \/ StopRecording(r)
CounterStep(sessions) == \E i \in CounterIds, s \in sessions : OtherCounter(i, s)
EventStep == UnknownEventSent \/ OthersPublish

RecordingsTypeOK ==
    /\ subscribed \subseteq Sessions \cup {AnySession}
    /\ extending \in RecordingIds \cup {None}
    /\ publications \in [Sessions -> [state : {"none", "open", "closed"}, shared : BOOLEAN,
                                      users : SUBSET Threads, position : Int]]
    /\ recordings \in [RecordingIds -> [state : {"none", "starting", "active", "stopped"},
                                        session : Sessions \cup {AnySession}, position : Int,
                                        counter : CounterIds \cup {None}]]
    /\ counters \in [CounterIds -> [state : {"unused", "allocated", "reclaimed"},
                                    typeId : {"none", "recordingPos", "other"},
                                    recordingId : RecordingIds \cup {None},
                                    sessionId : Sessions \cup {AnySession}, value : Int]]
    /\ replays \subseteq [id : Int, session : Int]
    /\ listening \in BOOLEAN /\ running \in BOOLEAN
=============================================================================
