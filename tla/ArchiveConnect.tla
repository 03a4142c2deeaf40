---------------------------- MODULE ArchiveConnect ----------------------------
(***************************************************************************)
(* The constructor of AeronArchive: it adds the control response           *)
(* subscription and the control request publication, asks the archive for  *)
(* a session and waits for the response that says which one it is.  Until  *)
(* then there is no session to compare with: the correlation id alone      *)
(* tells the answer from everything else on the stream.                    *)
(*                                                                         *)
(* Several clients connect at the same time through one driver.  Each has  *)
(* a subscription of its own, which sees all that the archive publishes.   *)
(* A constructor that throws leaves its request behind, and is tried again *)
(* while the old answer may still come.                                    *)
(***************************************************************************)
EXTENDS ControlResponsePoller, Sequences, FiniteSets

CONSTANTS
    Clients,            \* objects that connect through one driver
    Images,             \* images of the control response stream
    ImageOf,            \* the image that carries the responses of a session
    OldSession,         \* a session of somebody who is connected already
    OtherIds,           \* correlation ids of requests other than connect
    HandlerPropagates,  \* does an exception leave poll()? else Aeron reports it
    MaxAttempts,        \* bound: constructors that get as far as a request
    MaxQueue,           \* bound: messages on their way in one image
    MaxTraffic          \* bound: messages that answer no connect request

CorrelationIds == 1..MaxAttempts
NewSessions == 1..MaxAttempts
Sessions == NewSessions \cup {OldSession}

\* Correlation ids come from the driver: nobody else on the stream draws ours.
ASSUME UniqueIdAssumption == OtherIds \subseteq Nat \ CorrelationIds

ASSUME ConnectAssumption ==
    /\ MaxAttempts \in Nat /\ MaxQueue \in Nat /\ MaxTraffic \in Nat
    /\ OldSession \in Nat \ NewSessions
    /\ ImageOf \in [Sessions -> Images] /\ IsFiniteSet(Images)
    /\ HandlerPropagates \in BOOLEAN

VARIABLES
    pc,                     \* where each constructor is
    how,                    \* how it ended
    correlationId,          \* the local variable of the constructor
    controlSessionId,
    controlResponsePoller,  \* one per client
    expired,                \* has the clock passed the deadline of awaitSessionOpened?
    visit,                  \* images that the poll() under way has still to visit
    fragments,              \* fragments that poll() has handled
    nextCorrelationId,      \* the driver's counter
    connected,              \* subscription()->isConnected()
    queue,                  \* queue[c][i]: what image i holds for client c
    archive,                \* archive[id]: what became of a connect request
    nextSession,            \* the archive's counter
    heard,                  \* answers that reached a subscription and were not lost with it
    traffic                 \* bound counter

clientVars == <<pc, how, correlationId, controlSessionId, nextCorrelationId>>
pollVars == <<controlResponsePoller, visit, fragments>>
streamVars == <<connected, queue, heard>>
archiveVars == <<archive, nextSession, traffic>>
vars == <<clientVars, pollVars, expired, streamVars, archiveVars>>

\* The poller has no initializers; poll() sets all it reads before it is read.
NewPoller == [controlSessionId |-> NoId, correlationId |-> NoId, relevantId |-> NoId,
              templateId |-> NoTemplate, code |-> "OK", isPollComplete |-> FALSE]

Init ==
    /\ pc = [c \in Clients |-> "new"]
    /\ how = [c \in Clients |-> "none"]
    /\ correlationId = [c \in Clients |-> NoId]
    /\ controlSessionId = [c \in Clients |-> NoId]
    /\ controlResponsePoller = [c \in Clients |-> NewPoller]
    /\ expired = [c \in Clients |-> FALSE]
    /\ visit = [c \in Clients |-> <<>>]
    /\ fragments = [c \in Clients |-> 0]
    /\ nextCorrelationId = 1
    /\ connected = [c \in Clients |-> FALSE]
    /\ queue = [c \in Clients |-> [i \in Images |-> <<>>]]
    /\ archive = [id \in CorrelationIds |-> [status |-> "unsent", session |-> NoId]]
    /\ nextSession = 1
    /\ heard = {}
    /\ traffic = 0

-----------------------------------------------------------------------------
(***************************************************************************)
(* The constructor.                                                        *)
(***************************************************************************)
Go(c, label) == pc' = [pc EXCEPT ![c] = label]

\* The subscription sees no more of the stream, here: it is destroyed, or its
\* images are gone, or the client is open and AeronArchive.tla has the rest.
LoseImages(c) ==
    /\ connected' = [connected EXCEPT ![c] = FALSE]
    /\ queue' = [queue EXCEPT ![c] = [i \in Images |-> <<>>]]
    /\ heard' = heard \ {correlationId[c]}

\* The constructor returns or throws: its locals are gone.
End(c, label, reason) ==
    /\ Go(c, label)
    /\ how' = [how EXCEPT ![c] = reason]
    /\ LoseImages(c)
    /\ visit' = [visit EXCEPT ![c] = <<>>]
    /\ fragments' = [fragments EXCEPT ![c] = 0]
    /\ expired' = [expired EXCEPT ![c] = FALSE]
    /\ UNCHANGED <<correlationId, nextCorrelationId>>

\* What the constructor had built is destroyed; nothing tells the archive.
Throw(c, reason) ==
    /\ End(c, "failed", reason)
    /\ controlResponsePoller' = [controlResponsePoller EXCEPT ![c] = NewPoller]
    /\ UNCHANGED controlSessionId

\* Constructors that will draw a correlation id (for the bound in Construct only).
AboutToAsk == { c \in Clients : pc[c] \in {"findSubscription", "findPublication"} }

\* A first attempt, or another one: conclude(), then addSubscription.
Construct(c) ==
    /\ pc[c] \in {"new", "failed"}
    /\ nextCorrelationId + Cardinality(AboutToAsk) \in CorrelationIds
    /\ Go(c, "findSubscription")
    /\ how' = [how EXCEPT ![c] = "none"]
    /\ correlationId' = [correlationId EXCEPT ![c] = NoId]
    /\ UNCHANGED <<controlSessionId, nextCorrelationId, pollVars, expired, streamVars, archiveVars>>

\* The loops over findSubscription and findExclusivePublication have no
\* deadline: they end when the driver answers, or when Aeron throws.
FindSubscription(c) ==
    /\ pc[c] = "findSubscription"
    /\ Go(c, "findPublication")
    /\ UNCHANGED <<how, correlationId, controlSessionId, nextCorrelationId, pollVars, expired,
                   streamVars, archiveVars>>

\* Mutant of FindPublication: the correlation id is read, not drawn.
FindPublicationOnly(c) ==
    /\ pc[c] = "findPublication"
    /\ correlationId' = [correlationId EXCEPT ![c] = nextCorrelationId]
    /\ Go(c, "connect")
    /\ UNCHANGED <<how, controlSessionId, nextCorrelationId, pollVars, expired, streamVars,
                   archiveVars>>

FindPublication(c) ==
    /\ pc[c] = "findPublication"
    /\ nextCorrelationId \in CorrelationIds
    /\ correlationId' = [correlationId EXCEPT ![c] = nextCorrelationId]
    /\ nextCorrelationId' = nextCorrelationId + 1
    /\ Go(c, "connect")
    /\ UNCHANGED <<how, controlSessionId, pollVars, expired, streamVars, archiveVars>>

RegistrationFails(c) ==
    /\ pc[c] \in {"findSubscription", "findPublication"}
    /\ Throw(c, "registration")
    /\ UNCHANGED archiveVars

\* ArchiveProxy::connect, as RequestStream.tla has it; a new deadline starts.
Connect(c) ==
    /\ pc[c] = "connect"
    /\ archive' = [archive EXCEPT ![correlationId[c]].status = "pending"]
    /\ expired' = [expired EXCEPT ![c] = FALSE]
    /\ Go(c, "awaitConnection")
    /\ UNCHANGED <<how, correlationId, controlSessionId, nextCorrelationId, pollVars,
                   streamVars, nextSession, traffic>>

FailToConnect(c) ==
    /\ pc[c] = "connect"
    /\ Throw(c, "notSent")
    /\ UNCHANGED archiveVars

\* Mutant of ConnectionTimedOut: awaitConnection without its deadline.
NeverTimesOut(c) == FALSE
ConnectionTimedOut(c) == ~connected[c] /\ expired[c]

AwaitConnection(c) ==
    /\ pc[c] = "awaitConnection"
    /\ \/ /\ connected[c]
          /\ Go(c, "poll")
          /\ UNCHANGED <<how, correlationId, controlSessionId, nextCorrelationId, pollVars,
                         expired, streamVars>>
       \/ ConnectionTimedOut(c) /\ Throw(c, "notConnected")
    /\ UNCHANGED archiveVars

-----------------------------------------------------------------------------
(***************************************************************************)
(* poll(): each image until it is empty or the handler says BREAK, which   *)
(* it does for every message.                                              *)
(***************************************************************************)
VisitOrders ==
    { order \in [1..Cardinality(Images) -> Images] :
        \A a, b \in DOMAIN order : order[a] = order[b] => a = b }

Poll(c) ==
    /\ pc[c] = "poll"
    /\ controlResponsePoller' = [controlResponsePoller EXCEPT ![c] = ResetPoll(@)]
    /\ \E order \in VisitOrders : visit' = [visit EXCEPT ![c] = order]
    /\ fragments' = [fragments EXCEPT ![c] = 0]
    /\ Go(c, "fragment")
    /\ UNCHANGED <<how, correlationId, controlSessionId, nextCorrelationId, expired,
                   streamVars, archiveVars>>

Image(c) == Head(visit[c])
Fragment(c) == Head(queue[c][Image(c)])
IsPolling(c) == pc[c] = "fragment" /\ visit[c] # <<>>
HasFragment(c) == IsPolling(c) /\ queue[c][Image(c)] # <<>>
TakeFragment(c) == queue' = [queue EXCEPT ![c][Image(c)] = Tail(@)]
NextImage(c) == visit' = [visit EXCEPT ![c] = Tail(@)]

EmptyImage(c) ==
    /\ IsPolling(c) /\ ~HasFragment(c)
    /\ NextImage(c)
    /\ UNCHANGED <<clientVars, controlResponsePoller, fragments, expired, streamVars, archiveVars>>

\* Mutant of ResponseFragment: the handler does not end the poll of the image.
ResponseFragmentContinues(c) ==
    /\ HasFragment(c)
    /\ Fragment(c).template # "Partial" /\ ~ResponseHandlerThrows(Fragment(c))
    /\ TakeFragment(c)
    /\ controlResponsePoller' =
         [controlResponsePoller EXCEPT ![c] = OnResponseFragment(@, Fragment(c))]
    /\ fragments' = [fragments EXCEPT ![c] = @ + 1]
    /\ UNCHANGED <<clientVars, visit, expired, connected, heard, archiveVars>>

ResponseFragment(c) ==
    /\ HasFragment(c)
    /\ Fragment(c).template # "Partial" /\ ~ResponseHandlerThrows(Fragment(c))
    /\ TakeFragment(c)
    /\ controlResponsePoller' =
         [controlResponsePoller EXCEPT ![c] = OnResponseFragment(@, Fragment(c))]
    /\ fragments' = [fragments EXCEPT ![c] = @ + 1]
    /\ NextImage(c)
    /\ UNCHANGED <<clientVars, expired, connected, heard, archiveVars>>

\* The fragment assembler keeps the part of a long message.
AssembleFragment(c) ==
    /\ HasFragment(c)
    /\ Fragment(c).template = "Partial"
    /\ TakeFragment(c)
    /\ fragments' = [fragments EXCEPT ![c] = @ + 1]
    /\ UNCHANGED <<clientVars, controlResponsePoller, visit, expired, connected, heard, archiveVars>>

ThrowingFragment(c) ==
    /\ HasFragment(c)
    /\ Fragment(c).template # "Partial" /\ ResponseHandlerThrows(Fragment(c))
    /\ IF HandlerPropagates
       THEN Throw(c, "unknownTemplate")
       ELSE /\ TakeFragment(c)
            /\ NextImage(c)
            /\ UNCHANGED <<clientVars, controlResponsePoller, fragments, expired, connected, heard>>
    /\ UNCHANGED archiveVars

-----------------------------------------------------------------------------
AnyResponse(c) ==                                        \* mutant of IsOwnAnswer
    controlResponsePoller[c].templateId = "ControlResponse"
IsOwnAnswer(c) ==
    /\ controlResponsePoller[c].correlationId = correlationId[c]
    /\ controlResponsePoller[c].templateId = "ControlResponse"

\* pollNextResponse and the body of awaitSessionOpened, when a poll() is over.
AwaitSessionOpened(c) ==
    LET p == controlResponsePoller[c]
        answered == p.isPollComplete /\ IsOwnAnswer(c)
        nothing == ~p.isPollComplete /\ fragments[c] = 0
        giveUp == nothing /\ (~connected[c] \/ expired[c])
    IN
    /\ pc[c] = "fragment" /\ visit[c] = <<>>
    /\ \/ /\ answered /\ p.code = "OK"
          /\ End(c, "open", "open")
          /\ controlSessionId' = [controlSessionId EXCEPT ![c] = p.controlSessionId]
          /\ UNCHANGED controlResponsePoller
       \/ answered /\ p.code # "OK" /\ Throw(c, "refused")
       \/ giveUp /\ Throw(c, IF connected[c] THEN "timeout" ELSE "disconnected")
       \/ /\ ~answered /\ ~giveUp
          /\ Go(c, "poll")
          /\ UNCHANGED <<how, correlationId, controlSessionId, nextCorrelationId, pollVars,
                         expired, streamVars>>
    /\ UNCHANGED archiveVars

ClientStep(c) ==
    \/ FindSubscription(c) \/ FindPublication(c) \/ RegistrationFails(c)
    \/ Connect(c) \/ FailToConnect(c) \/ AwaitConnection(c)
    \/ Poll(c) \/ EmptyImage(c)
    \/ ResponseFragment(c) \/ AssembleFragment(c) \/ ThrowingFragment(c)
    \/ AwaitSessionOpened(c)

-----------------------------------------------------------------------------
(***************************************************************************)
(* External: the archive, the driver and the clock.                        *)
(***************************************************************************)
\* A message goes to every subscription that has the image.
Publish(image, m) ==
    /\ \A c \in Clients : connected[c] => Len(queue[c][image]) < MaxQueue
    /\ queue' = [c \in Clients |->
                   IF connected[c] THEN [queue[c] EXCEPT ![image] = Append(@, m)] ELSE queue[c]]

\* The archive opens a session, or refuses; only the response tells.
Answer(id) ==
    /\ archive[id].status = "pending" /\ nextSession \in NewSessions
    /\ \E code \in {"OK", "ERROR"} :
         /\ Publish(ImageOf[nextSession], ControlResponse(nextSession, id, code, NoId))
         /\ archive' = [archive EXCEPT ![id] =
                          [status |-> IF code = "OK" THEN "opened" ELSE "refused",
                           session |-> nextSession]]
    /\ nextSession' = nextSession + 1
    /\ heard' = heard \cup { h \in {id} : \E c \in Clients :
                                connected[c] /\ correlationId[c] = id }
    /\ UNCHANGED <<clientVars, pollVars, expired, connected, traffic>>

\* What open clients are told, and fragments that no handler takes.
Traffic ==
    /\ traffic < MaxTraffic
    /\ traffic' = traffic + 1
    /\ \/ \E id \in OtherIds, code \in {"OK", "ERROR"} :
            Publish(ImageOf[OldSession], ControlResponse(OldSession, id, code, NoId))
       \/ \E id \in OtherIds : Publish(ImageOf[OldSession], RecordingDescriptor(OldSession, id, NoId))
       \/ \E i \in Images, m \in {UnknownMessage, PartialMessage} : Publish(i, m)
    /\ UNCHANGED <<clientVars, pollVars, expired, connected, heard, archive, nextSession>>

IsConnecting(c) == pc[c] \notin {"new", "failed", "open"}

ImageAvailable(c) ==
    /\ IsConnecting(c) /\ ~connected[c]
    /\ connected' = [connected EXCEPT ![c] = TRUE]
    /\ UNCHANGED <<clientVars, pollVars, expired, queue, heard, archiveVars>>

ImageUnavailable(c) ==
    /\ connected[c]
    /\ LoseImages(c)
    /\ UNCHANGED <<clientVars, pollVars, expired, archiveVars>>

DeadlinePasses(c) ==
    /\ pc[c] \in {"awaitConnection", "poll", "fragment"} /\ ~expired[c]
    /\ expired' = [expired EXCEPT ![c] = TRUE]
    /\ UNCHANGED <<clientVars, pollVars, streamVars, archiveVars>>

Next ==
    \/ \E c \in Clients :
         \/ Construct(c) \/ ClientStep(c)
         \/ ImageAvailable(c) \/ ImageUnavailable(c) \/ DeadlinePasses(c)
    \/ \E id \in CorrelationIds : Answer(id)
    \/ Traffic

Spec == Init /\ [][Next]_vars

\* Steps that can be taken are, and time passes.  Of the driver this assumes
\* that a registration is answered or times out inside Aeron.
FairSpec ==
    /\ Spec
    /\ \A c \in Clients : WF_vars(ClientStep(c)) /\ WF_vars(DeadlinePasses(c))

-----------------------------------------------------------------------------
(***************************************************************************)
(* Properties.                                                             *)
(***************************************************************************)
ClientTypeOK ==
    /\ pc \in [Clients -> {"new", "findSubscription", "findPublication", "connect",
                           "awaitConnection", "poll", "fragment", "open", "failed"}]
    /\ how \in [Clients -> {"none", "open", "registration", "notSent", "notConnected",
                            "unknownTemplate", "refused", "timeout", "disconnected"}]
    /\ correlationId \in [Clients -> CorrelationIds \cup {NoId}]
    /\ controlSessionId \in [Clients -> Int]
    /\ nextCorrelationId \in 1..(MaxAttempts + 1)

PollTypeOK ==
    /\ controlResponsePoller \in [Clients -> ResponsePoller]
    /\ expired \in [Clients -> BOOLEAN]
    /\ visit \in [Clients -> Seq(Images)]
    /\ fragments \in [Clients -> Nat]

StreamTypeOK ==
    /\ connected \in [Clients -> BOOLEAN]
    /\ queue \in [Clients -> [Images -> Seq(Message)]]
    /\ heard \subseteq CorrelationIds

ArchiveTypeOK ==
    /\ archive \in [CorrelationIds ->
                      [status : {"unsent", "pending", "opened", "refused"}, session : Int]]
    /\ nextSession \in 1..(MaxAttempts + 1)
    /\ traffic \in Nat

TypeOK == ClientTypeOK /\ PollTypeOK /\ StreamTypeOK /\ ArchiveTypeOK

\* A constructor that returns has the session that the archive opened for this
\* very request, whatever was answered to others or to an earlier attempt; so
\* no two clients share a session.
SessionIsOwn ==
    /\ \A c \in Clients : pc[c] = "open" =>
         /\ correlationId[c] \in CorrelationIds
         /\ archive[correlationId[c]] = [status |-> "opened", session |-> controlSessionId[c]]
    /\ \A c, d \in Clients :
         (pc[c] = "open" /\ pc[d] = "open" /\ c # d) => controlSessionId[c] # controlSessionId[d]

\* A constructor blames the archive only if the archive refused this request.
RefusalIsOwn ==
    \A c \in Clients : how[c] = "refused" =>
        correlationId[c] \in CorrelationIds /\ archive[correlationId[c]].status = "refused"

\* An answer that reached the subscription is still there, or just about to be
\* looked at: no poll() of this client dropped it (with one image).
AnswerIsSeen ==
    \A c \in Clients :
        LET id == correlationId[c]
            p == controlResponsePoller[c]
        IN (pc[c] \in {"awaitConnection", "poll", "fragment"} /\ id \in heard) =>
             \/ \E i \in Images : \E k \in DOMAIN queue[c][i] :
                  queue[c][i][k].template = "ControlResponse" /\ queue[c][i][k].correlationId = id
             \/ pc[c] = "fragment" /\ p.isPollComplete /\ IsOwnAnswer(c)

\* Every constructor returns or throws.
ConstructorEnds ==
    \A c \in Clients : pc[c] = "findSubscription" ~> pc[c] \in {"open", "failed"}

\* Whatever else the subscriptions hear, the constructors keep what
\* ArchiveSessions promises: one request for an attempt, and the session that
\* was opened for it, or the refusal it met, or neither.
IsOver(label) == label \in {"new", "open", "failed"}

Opened == INSTANCE ArchiveSessions WITH
    Ids <- CorrelationIds,
    state <- [c \in Clients |-> IF IsOver(pc[c]) THEN pc[c] ELSE "connecting"],
    asked <- correlationId,
    session <- controlSessionId,
    lastId <- nextCorrelationId - 1,
    requests <- archive

ImplementsSessions == Opened!Spec

-----------------------------------------------------------------------------
(***************************************************************************)
(* Why SessionIsOwn and RefusalIsOwn hold.                                 *)
(***************************************************************************)
\* What a response to a connect request says is what the archive did.
IsTrue(session, id, code) ==
    id \in CorrelationIds =>
        archive[id] = [status |-> IF code = "OK" THEN "opened" ELSE "refused",
                       session |-> session]

\* Every id is drawn once, and asked with once.
IdInv ==
    /\ \A c \in Clients : correlationId[c] # NoId => correlationId[c] < nextCorrelationId
    /\ \A c, d \in Clients :
         (c # d /\ correlationId[c] # NoId) => correlationId[c] # correlationId[d]
    /\ \A c \in Clients : pc[c] = "connect" =>
         correlationId[c] # NoId /\ archive[correlationId[c]].status = "unsent"
    /\ \A c \in Clients : pc[c] \in {"awaitConnection", "poll", "fragment", "open"} =>
         correlationId[c] # NoId
    /\ \A id \in CorrelationIds : id >= nextCorrelationId => archive[id].status = "unsent"

\* A constructor has an outcome when it is over, and not before.
OutcomeInv == \A c \in Clients : how[c] # "none" <=> pc[c] \in {"open", "failed"}

\* Every session is opened for one request.
ArchiveInv ==
    /\ \A id \in CorrelationIds :
         archive[id].status \in {"opened", "refused"} => archive[id].session < nextSession
    /\ \A a, b \in CorrelationIds :
         (archive[a].status = "opened" /\ archive[b].status = "opened" /\ a # b) =>
            archive[a].session # archive[b].session

StreamInv ==
    \A c \in Clients, i \in Images : \A k \in DOMAIN queue[c][i] :
        LET m == queue[c][i][k] IN
        m.template = "ControlResponse" => IsTrue(m.session, m.correlationId, m.code)

PollerInv ==
    \A c \in Clients :
        LET p == controlResponsePoller[c] IN
        (pc[c] = "fragment" /\ p.templateId = "ControlResponse") =>
            IsTrue(p.controlSessionId, p.correlationId, p.code)

IInv ==
    /\ TypeOK /\ IdInv /\ OutcomeInv /\ ArchiveInv /\ StreamInv /\ PollerInv
    /\ SessionIsOwn /\ RefusalIsOwn
=============================================================================
