----------------------------- MODULE AeronArchive -----------------------------
(***************************************************************************)
(* The calls that an open AeronArchive makes to its archive.  Any number   *)
(* of threads share one client; every call takes lock_, sends one request  *)
(* and polls the control response subscription until it can return or      *)
(* throw.  The subscription also carries what the archive still says to    *)
(* earlier calls that gave up, and what other clients on the same channel  *)
(* and stream are told.                                                    *)
(*                                                                         *)
(* ArchiveProxy::offer is one step with three outcomes (ArchiveProxy.tla   *)
(* has its loop).  The Aeron subscription, the clock and the archive are   *)
(* external.  Modelled from the source are the threads' steps, which are   *)
(* one fragment long, so that messages arrive between any two of them.     *)
(***************************************************************************)
EXTENDS ControlResponsePoller, RecordingDescriptorPoller, Sequences, FiniteSets

CONSTANTS
    Threads,            \* threads that share the client
    Nobody,             \* the owner of lock_ when nobody holds it
    Session,            \* controlSessionId_ of this client
    OtherSessions,      \* sessions of clients on the same response stream
    Images,             \* images of the control response subscription
    ImageOf,            \* the image that carries the responses of a session
    RelevantIds,        \* relevant ids an archive may answer with
    Kinds,              \* kinds of calls that the threads make
    RecordCounts,       \* record counts that callers ask for
    FragmentLimit,      \* FRAGMENT_LIMIT
    HandlerPropagates,  \* does an exception leave poll()? else Aeron reports it
    MaxCorrelationId,   \* bound: requests that are sent
    MaxQueue,           \* bound: messages on their way in one image
    NoiseIsBounded,     \* FALSE: other clients and their traffic never end
    MaxNoise,           \* bound: messages that belong to no call here
    MaxAsyncErrors      \* bound: errors sent after a request was answered

\* "response" calls end in pollForResponse, "descriptors" calls in
\* pollForDescriptors; the last two look at the response stream once.
Kind == {"response", "descriptors", "pollForErrorResponse", "checkForErrorResponse"}
SendingKind == {"response", "descriptors"}

Sessions == {Session} \cup OtherSessions
CorrelationIds == 1..MaxCorrelationId

ASSUME ThreadAssumption == Nobody \notin Threads

ASSUME SessionAssumption ==
    /\ Session \in Nat /\ OtherSessions \subseteq Nat \ {Session}
    /\ ImageOf \in [Sessions -> Images] /\ IsFiniteSet(Images)

ASSUME DataAssumption ==
    /\ Kinds \subseteq Kind
    /\ RelevantIds \subseteq Int /\ RecordCounts \subseteq Nat
    /\ FragmentLimit \in Nat \ {0} /\ HandlerPropagates \in BOOLEAN
    /\ NoiseIsBounded \in BOOLEAN

ASSUME BoundAssumption ==
    MaxCorrelationId \in Nat /\ MaxQueue \in Nat /\ MaxNoise \in Nat /\ MaxAsyncErrors \in Nat

VARIABLES
    pc,                         \* where each thread is
    request,                    \* the call each thread makes: kind, count, correlationId
    result,                     \* how the last call ended, until the next has the lock
    lock,                       \* owner of lock_
    nextCorrelationId,          \* Aeron's counter
    controlResponsePoller,
    recordingDescriptorPoller,
    existingRemainCount,        \* the local variable of pollForDescriptors
    expired,                    \* has the clock passed the deadline of the call?
    visit,                      \* images that the poll() under way has still to visit
    fragments,                  \* fragments that poll() has handled
    queue,                      \* queue[i]: what image i holds for the client
    connected,                  \* subscription()->isConnected()
    archive,                    \* archive[c]: what became of request c
    sent,                       \* ControlResponses sent to this session
    delivered,                  \* delivered[c]: recording ids given to the consumer of c
    noise                       \* bound counters: noise, asynchronous errors

threadVars == <<pc, request, result, lock, nextCorrelationId>>
pollerVars == <<controlResponsePoller, recordingDescriptorPoller, existingRemainCount>>
pollVars == <<visit, fragments>>
archiveVars == <<archive, sent, noise>>
vars == <<threadVars, pollerVars, pollVars, expired, queue, connected, archiveVars, delivered>>

NoRequest == [kind |-> "response", count |-> 0, correlationId |-> NoId]
Requests ==
    [kind : Kinds \ {"descriptors"}, count : {0}, correlationId : {NoId}] \cup
    [kind : Kinds \cap {"descriptors"}, count : RecordCounts, correlationId : {NoId}]

\* correlationId is the call's own (NoId if it has none), cause that of the
\* response that made it end (NoId if none did).
NoResult == [how |-> "none", correlationId |-> NoId, value |-> NoId, cause |-> NoId]

Unsent == [status |-> "unsent", kind |-> "response", count |-> 0, listed |-> 0]

Init ==
    /\ pc = [t \in Threads |-> "idle"]
    /\ request = [t \in Threads |-> NoRequest]
    /\ result = NoResult
    /\ lock = Nobody
    /\ nextCorrelationId = 1
    \* What awaitSessionOpened left behind: the OK that opened the session.
    /\ controlResponsePoller =
         [controlSessionId |-> Session, correlationId |-> 0, relevantId |-> Session,
          templateId |-> "ControlResponse", code |-> "OK", isPollComplete |-> TRUE]
    /\ recordingDescriptorPoller = NewDescriptorPoller(Session)
    /\ existingRemainCount = 0
    /\ expired = FALSE
    /\ visit = <<>>
    /\ fragments = 0
    /\ queue = [i \in Images |-> <<>>]
    /\ connected = TRUE
    /\ archive = [c \in CorrelationIds |-> Unsent]
    /\ sent = {}
    /\ delivered = [c \in CorrelationIds |-> <<>>]
    /\ noise = [foreign |-> 0, errors |-> 0]

-----------------------------------------------------------------------------
(***************************************************************************)
(* The threads.                                                            *)
(***************************************************************************)
Go(t, label) == pc' = [pc EXCEPT ![t] = label]

\* Every way out of a call releases lock_ (unique_lock); its locals are gone.
Leave(t, how, value, cause) ==
    /\ Go(t, "idle")
    /\ lock' = Nobody
    /\ result' = [how |-> how, correlationId |-> request[t].correlationId,
                  value |-> value, cause |-> cause]
    /\ request' = [request EXCEPT ![t] = NoRequest]
    /\ existingRemainCount' = 0
    /\ expired' = FALSE
    /\ fragments' = 0
    /\ visit' = <<>>
    /\ UNCHANGED nextCorrelationId

\* Threads that will draw a correlation id (for the bound in Call only).
AboutToSend == { t \in Threads : pc[t] = "lock" /\ request[t].kind \in SendingKind }

\* Any public operation: the caller comes to wait for lock_.
Call(t) ==
    /\ pc[t] = "idle"
    /\ \E r \in Requests :
         /\ r.kind \in SendingKind =>
              nextCorrelationId + Cardinality(AboutToSend) \in CorrelationIds
         /\ request' = [request EXCEPT ![t] = r]
    /\ Go(t, "lock")
    /\ UNCHANGED <<result, lock, nextCorrelationId, pollerVars, pollVars, expired, queue,
                   connected, archiveVars, delivered>>

\* A call that sends draws its correlation id under the lock.
Lock(t) ==
    /\ pc[t] = "lock"
    /\ lock = Nobody
    /\ lock' = t
    /\ result' = NoResult
    /\ IF request[t].kind \in SendingKind
       THEN /\ nextCorrelationId \in CorrelationIds
            /\ request' = [request EXCEPT ![t].correlationId = nextCorrelationId]
            /\ nextCorrelationId' = nextCorrelationId + 1
            /\ Go(t, "send")
       ELSE /\ Go(t, "poll")
            /\ UNCHANGED <<request, nextCorrelationId>>
    /\ UNCHANGED <<pollerVars, pollVars, expired, queue, connected, archiveVars, delivered>>

\* The request is written: the deadline of the answer starts to run.
Send(t) ==
    LET r == request[t] IN
    /\ pc[t] = "send"
    /\ archive' = [archive EXCEPT ![r.correlationId] =
                     [status |-> "pending", kind |-> r.kind, count |-> r.count, listed |-> 0]]
    /\ expired' = FALSE
    /\ IF r.kind = "descriptors"
       THEN /\ recordingDescriptorPoller' =
                 ResetDispatch(recordingDescriptorPoller, r.correlationId, r.count, r.correlationId)
            /\ existingRemainCount' = r.count
       ELSE UNCHANGED <<recordingDescriptorPoller, existingRemainCount>>
    /\ Go(t, "poll")
    /\ UNCHANGED <<request, result, lock, nextCorrelationId, controlResponsePoller, pollVars,
                   queue, connected, sent, noise, delivered>>

\* Mutant of FailToSend: the request is written, after all.
FailToSendButWrite(t) ==
    /\ pc[t] = "send"
    /\ Leave(t, "notSent", NoId, NoId)
    /\ archive' = [archive EXCEPT ![request[t].correlationId] =
                     [status |-> "pending", kind |-> request[t].kind, count |-> request[t].count,
                      listed |-> 0]]
    /\ UNCHANGED <<controlResponsePoller, recordingDescriptorPoller, queue, connected,
                   sent, noise, delivered>>

\* offer() gave up or threw; either way nothing was written.
FailToSend(t) ==
    /\ pc[t] = "send"
    /\ Leave(t, "notSent", NoId, NoId)
    /\ UNCHANGED <<controlResponsePoller, recordingDescriptorPoller, queue, connected,
                   archiveVars, delivered>>

-----------------------------------------------------------------------------
(***************************************************************************)
(* One poll(): reset, then Subscription::controlledPoll over the images,   *)
(* each of them until it is empty, the handler says BREAK or throws, or    *)
(* the limit is reached.                                                   *)
(***************************************************************************)
UsesDescriptorPoller(t) == request[t].kind = "descriptors"

\* The round-robin index of the subscription decides where a poll starts.
VisitOrders ==
    { order \in [1..Cardinality(Images) -> Images] :
        \A a, b \in DOMAIN order : order[a] = order[b] => a = b }

Poll(t) ==
    /\ pc[t] = "poll"
    /\ Go(t, "fragment")
    /\ IF UsesDescriptorPoller(t)
       THEN /\ recordingDescriptorPoller' =
                 [recordingDescriptorPoller EXCEPT !.isDispatchComplete = FALSE]
            /\ UNCHANGED controlResponsePoller
       ELSE /\ controlResponsePoller' = ResetPoll(controlResponsePoller)
            /\ UNCHANGED recordingDescriptorPoller
    /\ visit' \in VisitOrders
    /\ fragments' = 0
    /\ UNCHANGED <<request, result, lock, nextCorrelationId, existingRemainCount, expired,
                   queue, connected, archiveVars, delivered>>

Image == Head(visit)
Fragment == Head(queue[Image])

\* Mutant of HasFragment: the limit is one too high.
HasFragmentPastLimit(t) ==
    pc[t] = "fragment" /\ visit # <<>> /\ queue[Image] # <<>> /\ fragments <= FragmentLimit

HasFragment(t) ==
    pc[t] = "fragment" /\ visit # <<>> /\ queue[Image] # <<>> /\ fragments < FragmentLimit

TakeFragment == queue' = [queue EXCEPT ![Image] = Tail(@)]

NextImage(t) ==
    /\ pc[t] = "fragment"
    /\ visit # <<>>
    /\ queue[Image] = <<>> \/ fragments = FragmentLimit
    /\ visit' = Tail(visit)
    /\ UNCHANGED <<threadVars, pollerVars, fragments, expired, queue, connected,
                   archiveVars, delivered>>

Throws(t, m) ==
    IF UsesDescriptorPoller(t) THEN DescriptorHandlerThrows(recordingDescriptorPoller, m)
                               ELSE ResponseHandlerThrows(m)

\* The fragment assembler keeps it: no handler, CONTINUE.
AssembleFragment(t) ==
    /\ HasFragment(t)
    /\ Fragment.template = "Partial"
    /\ TakeFragment
    /\ fragments' = fragments + 1
    /\ UNCHANGED <<threadVars, pollerVars, visit, expired, connected, archiveVars, delivered>>

\* Mutant of ResponseFragment: the handler says CONTINUE.
ResponseFragmentContinues(t) ==
    /\ HasFragment(t)
    /\ ~UsesDescriptorPoller(t)
    /\ Fragment.template # "Partial" /\ ~Throws(t, Fragment)
    /\ TakeFragment
    /\ controlResponsePoller' = OnResponseFragment(controlResponsePoller, Fragment)
    /\ fragments' = fragments + 1
    /\ UNCHANGED <<threadVars, recordingDescriptorPoller, existingRemainCount, expired, visit,
                   connected, archiveVars, delivered>>

\* ControlResponsePoller::onFragment always says BREAK.
ResponseFragment(t) ==
    /\ HasFragment(t)
    /\ ~UsesDescriptorPoller(t)
    /\ Fragment.template # "Partial" /\ ~Throws(t, Fragment)
    /\ TakeFragment
    /\ controlResponsePoller' = OnResponseFragment(controlResponsePoller, Fragment)
    /\ fragments' = fragments + 1
    /\ visit' = Tail(visit)
    /\ UNCHANGED <<threadVars, recordingDescriptorPoller, existingRemainCount, expired,
                   connected, archiveVars, delivered>>

\* RecordingDescriptorPoller::onFragment; the consumer runs inside it.
DescriptorFragment(t) ==
    LET p == recordingDescriptorPoller
        m == Fragment
    IN
    /\ HasFragment(t)
    /\ UsesDescriptorPoller(t)
    /\ m.template # "Partial" /\ ~Throws(t, m)
    /\ TakeFragment
    /\ recordingDescriptorPoller' = OnDescriptorFragment(p, m)
    /\ IF IsDispatched(p, m)
       THEN delivered' = [delivered EXCEPT ![p.consumer] = Append(@, m.relevantId)]
       ELSE UNCHANGED delivered
    /\ fragments' = fragments + 1
    /\ visit' = IF BreaksPoll(p, m) THEN Tail(visit) ELSE visit
    /\ UNCHANGED <<threadVars, controlResponsePoller, existingRemainCount, expired,
                   connected, archiveVars>>

\* The handler throws: out of poll() and of the call, or no further than the
\* image, whose poll ends with the fragment passed but not counted.
ThrowingFragment(t) ==
    LET m == Fragment IN
    /\ HasFragment(t)
    /\ m.template # "Partial" /\ Throws(t, m)
    /\ TakeFragment
    /\ IF HandlerPropagates
       THEN IF m.template = "ControlResponse" THEN Leave(t, "error", NoId, m.correlationId)
                                              ELSE Leave(t, "unknownTemplate", NoId, NoId)
       ELSE /\ visit' = Tail(visit)
            /\ UNCHANGED <<threadVars, existingRemainCount, expired, fragments>>
    /\ UNCHANGED <<controlResponsePoller, recordingDescriptorPoller, connected,
                   archiveVars, delivered>>

-----------------------------------------------------------------------------
(***************************************************************************)
(* What the caller makes of a poll() that is over.                         *)
(***************************************************************************)
PollIsOver(t, kinds) == pc[t] = "fragment" /\ visit = <<>> /\ request[t].kind \in kinds

\* The loop goes round: conductorAgentInvoker().invoke(), idleStrategy_.idle().
PollAgain(t) ==
    /\ Go(t, "poll")
    /\ fragments' = 0
    /\ UNCHANGED <<request, result, lock, nextCorrelationId, visit>>

AnyResponse(p) == p.templateId = "ControlResponse"      \* mutant of IsResponseToSession
IsResponseToSession(p) ==
    p.controlSessionId = Session /\ p.templateId = "ControlResponse"

\* No message and no reason to look again: not connected, or past the deadline.
\* Neither is looked at while fragments keep coming.
GivesUpIfDisconnected(late) == fragments = 0 /\ ~connected     \* mutant of GivesUp
GivesUp(late) == fragments = 0 /\ (~connected \/ late)
GiveUp(t) == Leave(t, IF connected THEN "timeout" ELSE "disconnected", NoId, NoId)

\* pollForResponse with pollNextResponse.
PollForResponse(t) ==
    LET p == controlResponsePoller
        mine == p.correlationId = request[t].correlationId
        answered == p.isPollComplete /\ IsResponseToSession(p)
        again == PollAgain(t) /\ UNCHANGED <<existingRemainCount, expired>>
    IN
    /\ PollIsOver(t, {"response"})
    /\ \/ answered /\ p.code = "ERROR" /\ Leave(t, "error", NoId, p.correlationId)
       \/ answered /\ p.code \notin {"OK", "ERROR"} /\ mine
          /\ Leave(t, "unexpected", NoId, p.correlationId)
       \/ answered /\ p.code = "OK" /\ mine /\ Leave(t, "value", p.relevantId, p.correlationId)
       \/ answered /\ p.code # "ERROR" /\ ~mine /\ again
       \/ p.isPollComplete /\ ~answered /\ again
       \/ ~p.isPollComplete /\ ~GivesUp(expired) /\ again
       \/ ~p.isPollComplete /\ GivesUp(expired) /\ GiveUp(t)
    /\ UNCHANGED <<controlResponsePoller, recordingDescriptorPoller, queue, connected,
                   archiveVars, delivered>>

\* pollForDescriptors: whatever was dispatched pushes the deadline back.
PollForDescriptors(t) ==
    LET p == recordingDescriptorPoller
        late == expired /\ existingRemainCount = p.remainingRecordCount
    IN
    /\ PollIsOver(t, {"descriptors"})
    /\ \/ p.isDispatchComplete
          /\ Leave(t, "count", request[t].count - p.remainingRecordCount, NoId)
       \/ ~p.isDispatchComplete /\ GivesUp(late) /\ GiveUp(t)
       \/ /\ ~p.isDispatchComplete /\ ~GivesUp(late)
          /\ existingRemainCount' = p.remainingRecordCount
          /\ expired' = late
          /\ PollAgain(t)
    /\ UNCHANGED <<controlResponsePoller, recordingDescriptorPoller, queue, connected,
                   archiveVars, delivered>>

\* pollForErrorResponse returns the error it finds, checkForErrorResponse throws
\* it; any other message is dropped.
PollForError(t) ==
    LET p == controlResponsePoller
        found == fragments # 0 /\ p.isPollComplete /\ IsResponseToSession(p) /\ p.code = "ERROR"
    IN
    /\ PollIsOver(t, {"pollForErrorResponse", "checkForErrorResponse"})
    /\ \/ found /\ request[t].kind = "pollForErrorResponse"
          /\ Leave(t, "reported", NoId, p.correlationId)
       \/ found /\ request[t].kind = "checkForErrorResponse"
          /\ Leave(t, "error", NoId, p.correlationId)
       \/ ~found /\ Leave(t, "noError", NoId, NoId)
    /\ UNCHANGED <<controlResponsePoller, recordingDescriptorPoller, queue, connected,
                   archiveVars, delivered>>

ThreadStep(t) ==
    \/ Lock(t) \/ Send(t) \/ FailToSend(t)
    \/ Poll(t) \/ NextImage(t)
    \/ AssembleFragment(t) \/ ResponseFragment(t) \/ DescriptorFragment(t) \/ ThrowingFragment(t)
    \/ PollForResponse(t) \/ PollForDescriptors(t) \/ PollForError(t)

-----------------------------------------------------------------------------
(***************************************************************************)
(* External: the archive, the other clients, the network and the clock.    *)
(* One session's messages stay in order, as one image carries them.        *)
(***************************************************************************)
Deliver(image, m) ==
    /\ connected
    /\ Len(queue[image]) < MaxQueue
    /\ queue' = [queue EXCEPT ![image] = Append(@, m)]

\* Only the relevant id of an OK reaches a caller, other than in a message text.
RespondTo(c, code, relevantId) ==
    LET m == ControlResponse(Session, c, code, relevantId) IN
    /\ Deliver(ImageOf[Session], m)
    /\ sent' = sent \cup {m}

UnchangedByArchive ==
    UNCHANGED <<threadVars, pollerVars, pollVars, expired, connected, delivered>>

\* One ControlResponse answers a request that is not a listing.
Answer(c) ==
    /\ archive[c].status = "pending" /\ archive[c].kind = "response"
    /\ \/ \E v \in RelevantIds : RespondTo(c, "OK", v)
       \/ \E code \in Code \ {"OK"} : RespondTo(c, code, NoId)
    /\ archive' = [archive EXCEPT ![c].status = "done"]
    /\ UNCHANGED noise /\ UnchangedByArchive

\* The recordings of a listing come one by one, numbered in that order.
ListRecording(c) ==
    LET n == archive[c].listed + 1 IN
    /\ archive[c].status = "pending" /\ archive[c].kind = "descriptors"
    /\ n <= archive[c].count
    /\ Deliver(ImageOf[Session], RecordingDescriptor(Session, c, n))
    /\ archive' = [archive EXCEPT ![c].listed = n,
                                  ![c].status = IF n = archive[c].count THEN "done" ELSE @]
    /\ UNCHANGED <<sent, noise>> /\ UnchangedByArchive

\* There are fewer recordings than asked for, or the listing fails.
EndListing(c) ==
    /\ archive[c].status = "pending" /\ archive[c].kind = "descriptors"
    /\ \E code \in {"RECORDING_UNKNOWN", "ERROR"} : RespondTo(c, code, NoId)
    /\ archive' = [archive EXCEPT ![c].status = "done"]
    /\ UNCHANGED noise /\ UnchangedByArchive

\* Something the archive had accepted fails later, a replay for example.
AsyncError(c) ==
    /\ archive[c].status = "done"
    /\ noise.errors < MaxAsyncErrors
    /\ RespondTo(c, "ERROR", NoId)
    /\ noise' = [noise EXCEPT !.errors = @ + 1]
    /\ UNCHANGED archive /\ UnchangedByArchive

\* What other sessions are told, with ids of their own; and fragments that no
\* handler takes: templates of a newer archive, parts of long messages.
Noise ==
    /\ NoiseIsBounded => noise.foreign < MaxNoise
    /\ noise' = IF NoiseIsBounded THEN [noise EXCEPT !.foreign = @ + 1] ELSE noise
    /\ \/ \E s \in OtherSessions, c \in CorrelationIds :
            \/ \E code \in {"OK", "ERROR"} : Deliver(ImageOf[s], ControlResponse(s, c, code, NoId))
            \/ Deliver(ImageOf[s], RecordingDescriptor(s, c, NoId))
       \/ \E i \in Images : Deliver(i, UnknownMessage)
       \/ \E i \in Images : Deliver(i, PartialMessage)
    /\ UNCHANGED <<archive, sent>> /\ UnchangedByArchive

\* The images are gone, with what they still held.
Disconnect ==
    /\ connected
    /\ connected' = FALSE
    /\ queue' = [i \in Images |-> <<>>]
    /\ UNCHANGED <<threadVars, pollerVars, pollVars, expired, archiveVars, delivered>>

DeadlinePasses ==
    /\ ~expired
    /\ \E t \in Threads : pc[t] \in {"poll", "fragment"}
    /\ expired' = TRUE
    /\ UNCHANGED <<threadVars, pollerVars, pollVars, queue, connected, archiveVars, delivered>>

Environment ==
    \/ \E c \in CorrelationIds : Answer(c) \/ ListRecording(c) \/ EndListing(c) \/ AsyncError(c)
    \/ Noise
    \/ Disconnect
    \/ DeadlinePasses

Next ==
    \/ \E t \in Threads : Call(t) \/ ThreadStep(t)
    \/ Environment

Spec == Init /\ [][Next]_vars

\* A thread that may take a step takes it, and time passes.  Nothing is assumed
\* of the archive, nor of callers; and lock_ need not be fair.
FairSpec ==
    /\ Spec
    /\ \A t \in Threads : WF_vars(ThreadStep(t))
    /\ WF_vars(DeadlinePasses)

-----------------------------------------------------------------------------
(***************************************************************************)
(* Properties.                                                             *)
(***************************************************************************)
ThreadTypeOK ==
    /\ pc \in [Threads -> {"idle", "lock", "send", "poll", "fragment"}]
    /\ request \in [Threads -> [kind : Kind, count : Nat, correlationId : Int]]
    /\ result \in [how : {"none", "value", "count", "error", "unexpected", "timeout",
                          "disconnected", "notSent", "unknownTemplate", "noError", "reported"},
                   correlationId : Int, value : Int, cause : Int]
    /\ lock \in Threads \cup {Nobody}
    /\ nextCorrelationId \in 1..(MaxCorrelationId + 1)

PollTypeOK ==
    /\ controlResponsePoller \in ResponsePoller
    /\ recordingDescriptorPoller \in DescriptorPoller
    /\ existingRemainCount \in Int
    /\ expired \in BOOLEAN
    /\ visit \in Seq(Images)
    /\ fragments \in 0..FragmentLimit

StreamTypeOK ==
    /\ connected \in BOOLEAN
    /\ queue \in [Images -> Seq(Message)]
    /\ archive \in [CorrelationIds -> [status : {"unsent", "pending", "done"}, kind : Kind,
                                       count : Nat, listed : Nat]]
    /\ sent \subseteq Message
    /\ delivered \in [CorrelationIds -> Seq(Int)]
    /\ noise \in [foreign : Nat, errors : Nat]

TypeOK == ThreadTypeOK /\ PollTypeOK /\ StreamTypeOK

\* A call returns a value only if the archive answered this very request, on
\* this session, with OK and that value; whatever else is on the stream.
ValueIsOwnAnswer ==
    result.how = "value" =>
        ControlResponse(Session, result.correlationId, "OK", result.value) \in sent

\* An error that reaches a caller was sent to this session, for the caller's
\* own request or for one made earlier: never for one that another thread
\* still has to make, nor for a request of another client.
ErrorIsOfThisSession ==
    result.how \in {"error", "reported"} =>
        /\ \E m \in sent : m.code = "ERROR" /\ m.correlationId = result.cause
        /\ result.correlationId # NoId => result.cause <= result.correlationId

\* While a call waits, no other thread's poll takes the answer to it off the
\* stream: it is still on its way or just about to be looked at.
Waiting(t, kind) == pc[t] \in {"poll", "fragment"} /\ request[t].kind = kind

AnswerIsNotLost ==
    \A t \in Threads :
        LET c == request[t].correlationId
            p == controlResponsePoller
        IN (Waiting(t, "response") /\ connected /\ archive[c].status = "done") =>
              \/ \E i \in Images : \E k \in DOMAIN queue[i] :
                    queue[i][k] \in sent /\ queue[i][k].correlationId = c
              \/ pc[t] = "fragment" /\ IsResponseToSession(p) /\ p.correlationId = c

\* A consumer sees the recordings of its own listing, each once and in order,
\* and no more of them than its call asked for.
DeliveredInOrder ==
    \A c \in CorrelationIds :
        /\ Len(delivered[c]) <= archive[c].count
        /\ \A k \in DOMAIN delivered[c] : delivered[c][k] = k

\* The count a listing returns is what its consumer saw, and all there was.
CountIsComplete ==
    result.how = "count" =>
        LET c == result.correlationId IN
        /\ archive[c].status = "done"
        /\ result.value = archive[c].listed
        /\ Len(delivered[c]) = archive[c].listed

\* A consumer runs only while the call it was passed to holds the lock; a late
\* descriptor never reaches the consumer of a call that is over.
ConsumerRunsInItsCall ==
    [][\A c \in CorrelationIds : delivered'[c] # delivered[c] =>
         \E t \in Threads : lock = t /\ pc[t] = "fragment" /\ request[t].correlationId = c]_vars

\* Threads, polls and messages together keep what ArchiveCalls promises: a call
\* is as good as one that nobody interrupts and that hears only its own answers.
Calls == INSTANCE ArchiveCalls WITH
    Callers <- Threads, Ids <- CorrelationIds, Values <- RelevantIds, NoCall <- NoRequest,
    caller <- lock,
    call <- IF lock = Nobody THEN NoRequest ELSE request[lock],
    lastId <- nextCorrelationId - 1,
    requests <- archive,
    responses <- { [correlationId |-> m.correlationId, code |-> m.code, value |-> m.relevantId] : m \in sent },
    given <- delivered,
    outcome <- result

ImplementsCalls == Calls!Spec

-----------------------------------------------------------------------------
(***************************************************************************)
(* Why ValueIsOwnAnswer, ErrorIsOfThisSession and ConsumerRunsInItsCall    *)
(* hold: their inductive strengthening (AeronArchiveProofs.tla proves it). *)
(***************************************************************************)
\* lock_ is held exactly from Lock to Leave.
LockInv == \A t \in Threads : lock = t <=> pc[t] \in {"send", "poll", "fragment"}

\* Ids are drawn under the lock, so the call under way has the latest.
LatestInv ==
    \A t \in Threads :
        /\ pc[t] \in {"idle", "lock"} => request[t].correlationId = NoId
        /\ lock = t => request[t].correlationId =
                         IF request[t].kind \in SendingKind THEN nextCorrelationId - 1 ELSE NoId

\* The archive speaks only of requests that it got.
SentInv ==
    /\ \A c \in CorrelationIds : archive[c].status # "unsent" => c < nextCorrelationId
    /\ \A m \in sent : m.correlationId < nextCorrelationId

IsSessionResponse(m) == m.template = "ControlResponse" /\ m.session = Session

\* A ControlResponse of this session on the stream, or in the poller while its
\* poll() is under way, is one the archive sent; other clients cannot forge it.
StreamInv ==
    \A i \in Images : \A k \in DOMAIN queue[i] :
        IsSessionResponse(queue[i][k]) => queue[i][k] \in sent

PollerInv ==
    LET p == controlResponsePoller IN
    \A t \in Threads :
        (pc[t] = "fragment" /\ ~UsesDescriptorPoller(t) /\ IsResponseToSession(p)) =>
        ControlResponse(Session, p.correlationId, p.code, p.relevantId) \in sent

\* The two pollers look for the same session.
SessionInv == recordingDescriptorPoller.controlSessionId = Session

\* While a listing waits, the poller dispatches for that listing.
ConsumerInv ==
    LET p == recordingDescriptorPoller IN
    \A t \in Threads : Waiting(t, "descriptors") =>
        p.correlationId = request[t].correlationId /\ p.consumer = request[t].correlationId

IInv ==
    /\ LockInv /\ LatestInv /\ SentInv /\ StreamInv /\ PollerInv /\ SessionInv /\ ConsumerInv
    /\ ValueIsOwnAnswer /\ ErrorIsOfThisSession

-----------------------------------------------------------------------------
\* Whoever has the lock gives it back: the call returns or throws.
CallReturns == \A t \in Threads : lock = t ~> lock # t
=============================================================================
