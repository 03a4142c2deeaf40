------------------------- MODULE ArchiveConnectProofs -------------------------
(***************************************************************************)
(* Proofs about ArchiveConnect for any number of clients, attempts, images *)
(* and messages.                                                           *)
(***************************************************************************)
EXTENDS ArchiveConnect, SequenceTheorems, FiniteSetTheorems, TLAPS

USE UniqueIdAssumption, ConnectAssumption
    DEF UniqueIdAssumption, ConnectAssumption, NoId, NoTemplate, CorrelationIds, NewSessions,
        Sessions

-----------------------------------------------------------------------------
(***************************************************************************)
(* Lemmas about the pieces that several actions share.                     *)
(***************************************************************************)
\* A poll visits images only.
LEMMA VisitOrdersType == VisitOrders \subseteq Seq(Images)
<1>1. Cardinality(Images) \in Nat
  BY FS_CardinalityType
<1>2. QED
  BY <1>1, SeqDef DEF VisitOrders

\* What the archive publishes is a message.
LEMMA MessageType ==
    /\ \A s, c, v \in Int : \A code \in Code : ControlResponse(s, c, code, v) \in Message
    /\ \A s, c, v \in Int : RecordingDescriptor(s, c, v) \in Message
    /\ UnknownMessage \in Message
    /\ PartialMessage \in Message
BY DEF ControlResponse, RecordingDescriptor, UnknownMessage, PartialMessage, Message, Code, Template

\* The poller's operations keep it in type.
LEMMA NewPollerType == NewPoller \in ResponsePoller
BY DEF NewPoller, ResponsePoller, Template, Code

LEMMA ResetPollType ==
    ASSUME NEW p \in ResponsePoller
    PROVE  ResetPoll(p) \in ResponsePoller
<1>1. NoId \in Int /\ NoTemplate \in Template \cup {NoTemplate}
  OBVIOUS
<1>2. QED
  BY <1>1, Zenon DEF ResponsePoller, ResetPoll

LEMMA OnResponseFragmentType ==
    ASSUME NEW p \in ResponsePoller, NEW m \in Message
    PROVE  OnResponseFragment(p, m) \in ResponsePoller
BY DEF ResponsePoller, OnResponseFragment, Message

\* A subscription that loses its images stays in type.
LEMMA LoseImagesType ==
    ASSUME StreamTypeOK, NEW c \in Clients, LoseImages(c)
    PROVE  StreamTypeOK'
<1>1. [i \in Images |-> <<>>] \in [Images -> Seq(Message)]
  BY EmptySeq
<1>2. QED
  BY <1>1 DEF StreamTypeOK, LoseImages

\* So does everything when a constructor ends.
LEMMA EndType ==
    ASSUME TypeOK, NEW c \in Clients, NEW label \in {"open", "failed"},
           NEW reason \in {"open", "registration", "notSent", "notConnected", "unknownTemplate",
                           "refused", "timeout", "disconnected"},
           End(c, label, reason), controlSessionId' \in [Clients -> Int],
           controlResponsePoller' \in [Clients -> ResponsePoller]
    PROVE  ClientTypeOK' /\ PollTypeOK' /\ StreamTypeOK'
<1>1. ClientTypeOK'
  BY DEF TypeOK, ClientTypeOK, End, Go
<1>2. PollTypeOK'
  BY EmptySeq DEF TypeOK, PollTypeOK, End
<1>3. StreamTypeOK'
  BY LoseImagesType DEF TypeOK, End
<1>4. QED
  BY <1>1, <1>2, <1>3

LEMMA ThrowType ==
    ASSUME TypeOK, NEW c \in Clients,
           NEW reason \in {"registration", "notSent", "notConnected", "unknownTemplate",
                           "refused", "timeout", "disconnected"},
           Throw(c, reason)
    PROVE  ClientTypeOK' /\ PollTypeOK' /\ StreamTypeOK'
<1>1. controlResponsePoller' \in [Clients -> ResponsePoller]
  BY NewPollerType DEF TypeOK, PollTypeOK, Throw
<1>2. controlSessionId' \in [Clients -> Int]
  BY DEF TypeOK, ClientTypeOK, Throw
<1>3. QED
  BY <1>1, <1>2, EndType DEF Throw

\* The fragment that is next, and the stream without it.
LEMMA TakeFragmentType ==
    ASSUME PollTypeOK, StreamTypeOK, NEW c \in Clients, HasFragment(c)
    PROVE  /\ Image(c) \in Images /\ queue[c][Image(c)] \in Seq(Message)
           /\ queue[c][Image(c)] # <<>>
           /\ Fragment(c) \in Message /\ Tail(visit[c]) \in Seq(Images)
           /\ TakeFragment(c) => queue' \in [Clients -> [Images -> Seq(Message)]]
<1>1. visit[c] \in Seq(Images) /\ visit[c] # <<>>
  BY DEF PollTypeOK, HasFragment, IsPolling
<1>2. Image(c) \in Images /\ Tail(visit[c]) \in Seq(Images)
  BY <1>1, HeadTailProperties DEF Image
<1>3. queue[c][Image(c)] \in Seq(Message) /\ queue[c][Image(c)] # <<>>
  BY <1>2 DEF StreamTypeOK, HasFragment
<1>4. Fragment(c) \in Message /\ Tail(queue[c][Image(c)]) \in Seq(Message)
  BY <1>3, HeadTailProperties DEF Fragment
<1>5. TakeFragment(c) => queue' \in [Clients -> [Images -> Seq(Message)]]
  BY <1>2, <1>4 DEF StreamTypeOK, TakeFragment
<1>6. QED
  BY <1>2, <1>3, <1>4, <1>5

LEMMA PublishType ==
    ASSUME StreamTypeOK, NEW i \in Images, NEW m \in Message, Publish(i, m)
    PROVE  queue' \in [Clients -> [Images -> Seq(Message)]]
<1>1. \A c \in Clients : [queue[c] EXCEPT ![i] = Append(@, m)] \in [Images -> Seq(Message)]
  BY DEF StreamTypeOK
<1>2. QED
  BY <1>1 DEF StreamTypeOK, Publish

-----------------------------------------------------------------------------
(***************************************************************************)
(* Type correctness, one lemma per group of actions.                       *)
(***************************************************************************)
LEMMA InitType == Init => TypeOK
<1> SUFFICES ASSUME Init PROVE TypeOK
  OBVIOUS
<1>1. ClientTypeOK
  BY DEF Init, ClientTypeOK
<1>2. PollTypeOK
  BY EmptySeq, NewPollerType DEF Init, PollTypeOK
<1>3. StreamTypeOK
  BY EmptySeq DEF Init, StreamTypeOK
<1>4. ArchiveTypeOK
  BY DEF Init, ArchiveTypeOK
<1>5. QED
  BY <1>1, <1>2, <1>3, <1>4 DEF TypeOK

LEMMA RegistrationType ==
    ASSUME TypeOK, NEW c \in Clients,
           \/ Construct(c) \/ FindSubscription(c) \/ FindPublication(c) \/ RegistrationFails(c)
           \/ Connect(c) \/ FailToConnect(c) \/ AwaitConnection(c)
    PROVE  TypeOK'
<1> USE DEF TypeOK
<1>1. CASE Construct(c)
  BY <1>1 DEF Construct, Go, ClientTypeOK, PollTypeOK, StreamTypeOK, ArchiveTypeOK,
              pollVars, streamVars, archiveVars
<1>2. CASE FindSubscription(c)
  BY <1>2 DEF FindSubscription, Go, ClientTypeOK, PollTypeOK, StreamTypeOK, ArchiveTypeOK,
              pollVars, streamVars, archiveVars
<1>3. CASE FindPublication(c)
  <2>1. ClientTypeOK'
    <3>1. nextCorrelationId' \in 1..(MaxAttempts + 1)
      BY <1>3, ConnectAssumption DEF FindPublication, CorrelationIds
    <3>2. correlationId' \in [Clients -> CorrelationIds \cup {NoId}]
      BY <1>3 DEF FindPublication, ClientTypeOK
    <3>3. pc' \in [Clients -> {"new", "findSubscription", "findPublication", "connect",
                              "awaitConnection", "poll", "fragment", "open", "failed"}]
      BY <1>3 DEF FindPublication, Go, ClientTypeOK
    <3>4. QED
      BY <1>3, <3>1, <3>2, <3>3 DEF FindPublication, ClientTypeOK
  <2>2. PollTypeOK'
    BY <1>3 DEF FindPublication, PollTypeOK, pollVars
  <2>3. StreamTypeOK' /\ ArchiveTypeOK'
    BY <1>3 DEF FindPublication, StreamTypeOK, ArchiveTypeOK, streamVars, archiveVars
  <2>4. QED
    BY <2>1, <2>2, <2>3
<1>4. CASE RegistrationFails(c)
  BY <1>4, ThrowType DEF RegistrationFails, ArchiveTypeOK, archiveVars
<1>5. CASE Connect(c)
  <2>1. ClientTypeOK'
    BY <1>5 DEF Connect, Go, ClientTypeOK
  <2>2. PollTypeOK' /\ StreamTypeOK'
    BY <1>5 DEF Connect, PollTypeOK, StreamTypeOK, pollVars, streamVars
  <2>3. ArchiveTypeOK'
    BY <1>5 DEF Connect, ArchiveTypeOK
  <2>4. QED
    BY <2>1, <2>2, <2>3
<1>6. CASE FailToConnect(c)
  BY <1>6, ThrowType DEF FailToConnect, ArchiveTypeOK, archiveVars
<1>7. CASE AwaitConnection(c)
  <2>1. ArchiveTypeOK'
    BY <1>7 DEF AwaitConnection, ArchiveTypeOK, archiveVars
  <2>2. CASE Throw(c, "notConnected")
    BY <2>1, <2>2, ThrowType
  <2>3. CASE ~Throw(c, "notConnected")
    BY <1>7, <2>1, <2>3 DEF AwaitConnection, Go, ClientTypeOK, PollTypeOK, StreamTypeOK,
                            pollVars, streamVars
  <2>4. QED
    BY <2>2, <2>3
<1>8. QED
  BY <1>1, <1>2, <1>3, <1>4, <1>5, <1>6, <1>7

LEMMA PollingType ==
    ASSUME TypeOK, NEW c \in Clients,
           \/ Poll(c) \/ EmptyImage(c) \/ ResponseFragment(c) \/ AssembleFragment(c)
           \/ ThrowingFragment(c)
    PROVE  TypeOK'
<1> USE DEF TypeOK
<1>1. CASE Poll(c)
  <2>1. controlResponsePoller' \in [Clients -> ResponsePoller]
    BY <1>1, ResetPollType DEF Poll, PollTypeOK
  <2>2. visit' \in [Clients -> Seq(Images)]
    BY <1>1, VisitOrdersType DEF Poll, PollTypeOK
  <2>3. QED
    BY <1>1, <2>1, <2>2 DEF Poll, Go, ClientTypeOK, PollTypeOK, StreamTypeOK, ArchiveTypeOK,
                            streamVars, archiveVars
<1>2. CASE EmptyImage(c)
  <2>1. visit' \in [Clients -> Seq(Images)]
    BY <1>2, HeadTailProperties DEF EmptyImage, IsPolling, NextImage, PollTypeOK
  <2>2. QED
    BY <1>2, <2>1 DEF EmptyImage, ClientTypeOK, PollTypeOK, StreamTypeOK, ArchiveTypeOK,
                      clientVars, streamVars, archiveVars
<1>3. CASE ResponseFragment(c)
  <2>1. Fragment(c) \in Message /\ queue' \in [Clients -> [Images -> Seq(Message)]]
        /\ Tail(visit[c]) \in Seq(Images)
    BY <1>3, TakeFragmentType DEF ResponseFragment
  <2>2. controlResponsePoller' \in [Clients -> ResponsePoller]
    BY <1>3, <2>1, OnResponseFragmentType DEF ResponseFragment, PollTypeOK
  <2>3. ClientTypeOK' /\ ArchiveTypeOK'
    BY <1>3 DEF ResponseFragment, ClientTypeOK, ArchiveTypeOK, clientVars, archiveVars
  <2>4. PollTypeOK'
    BY <1>3, <2>1, <2>2 DEF ResponseFragment, NextImage, PollTypeOK
  <2>5. StreamTypeOK'
    BY <1>3, <2>1 DEF ResponseFragment, StreamTypeOK
  <2>6. QED
    BY <2>3, <2>4, <2>5
<1>4. CASE AssembleFragment(c)
  <2>1. queue' \in [Clients -> [Images -> Seq(Message)]]
    BY <1>4, TakeFragmentType DEF AssembleFragment
  <2>2. ClientTypeOK' /\ ArchiveTypeOK'
    BY <1>4 DEF AssembleFragment, ClientTypeOK, ArchiveTypeOK, clientVars, archiveVars
  <2>3. PollTypeOK'
    BY <1>4 DEF AssembleFragment, PollTypeOK
  <2>4. StreamTypeOK'
    BY <1>4, <2>1 DEF AssembleFragment, StreamTypeOK
  <2>5. QED
    BY <2>2, <2>3, <2>4
<1>5. CASE ThrowingFragment(c)
  <2>1. ArchiveTypeOK'
    BY <1>5 DEF ThrowingFragment, ArchiveTypeOK, archiveVars
  <2>2. CASE Throw(c, "unknownTemplate")
    BY <2>1, <2>2, ThrowType
  <2>3. CASE ~Throw(c, "unknownTemplate")
    <3>1. queue' \in [Clients -> [Images -> Seq(Message)]] /\ Tail(visit[c]) \in Seq(Images)
      BY <1>5, <2>3, TakeFragmentType DEF ThrowingFragment
    <3>2. QED
      BY <1>5, <2>1, <2>3, <3>1 DEF ThrowingFragment, NextImage, ClientTypeOK, PollTypeOK,
                                    StreamTypeOK, clientVars
  <2>4. QED
    BY <2>2, <2>3
<1>6. QED
  BY <1>1, <1>2, <1>3, <1>4, <1>5

LEMMA AwaitType ==
    ASSUME TypeOK, NEW c \in Clients, AwaitSessionOpened(c)
    PROVE  TypeOK'
<1> USE DEF TypeOK
<1> DEFINE p == controlResponsePoller[c]
<1>1. ArchiveTypeOK'
  BY DEF AwaitSessionOpened, ArchiveTypeOK, archiveVars
<1>2. CASE \E reason \in {"refused", "timeout", "disconnected"} : Throw(c, reason)
  BY <1>1, <1>2, ThrowType
<1>3. CASE End(c, "open", "open")
           /\ controlSessionId' = [controlSessionId EXCEPT ![c] = p.controlSessionId]
           /\ UNCHANGED controlResponsePoller
  <2>1. p.controlSessionId \in Int
    BY DEF PollTypeOK, ResponsePoller
  <2>2. controlSessionId' \in [Clients -> Int]
    BY <1>3, <2>1 DEF ClientTypeOK
  <2>3. controlResponsePoller' \in [Clients -> ResponsePoller]
    BY <1>3 DEF PollTypeOK
  <2>4. QED
    BY <1>1, <1>3, <2>2, <2>3, EndType
<1>4. CASE Go(c, "poll") /\ UNCHANGED <<how, correlationId, controlSessionId, nextCorrelationId,
                                        pollVars, expired, streamVars>>
  BY <1>1, <1>4 DEF Go, ClientTypeOK, PollTypeOK, StreamTypeOK, pollVars, streamVars
<1>5. QED
  BY <1>2, <1>3, <1>4 DEF AwaitSessionOpened

LEMMA OutsideType ==
    ASSUME TypeOK,
           \/ \E c \in Clients : ImageAvailable(c) \/ ImageUnavailable(c) \/ DeadlinePasses(c)
           \/ \E id \in CorrelationIds : Answer(id)
           \/ Traffic
    PROVE  TypeOK'
<1> USE DEF TypeOK
<1>1. ASSUME NEW c \in Clients, ImageAvailable(c) \/ DeadlinePasses(c)
      PROVE  TypeOK'
  BY <1>1 DEF ImageAvailable, DeadlinePasses, ClientTypeOK, PollTypeOK, StreamTypeOK,
              ArchiveTypeOK, clientVars, pollVars, streamVars, archiveVars
<1>2. ASSUME NEW c \in Clients, ImageUnavailable(c)
      PROVE  TypeOK'
  BY <1>2, LoseImagesType DEF ImageUnavailable, ClientTypeOK, PollTypeOK, ArchiveTypeOK,
                              clientVars, pollVars, archiveVars
<1>3. ASSUME NEW id \in CorrelationIds, Answer(id)
      PROVE  TypeOK'
  <2>1. PICK code \in {"OK", "ERROR"} :
          /\ Publish(ImageOf[nextSession], ControlResponse(nextSession, id, code, NoId))
          /\ archive' = [archive EXCEPT ![id] =
                           [status |-> IF code = "OK" THEN "opened" ELSE "refused",
                            session |-> nextSession]]
    BY <1>3 DEF Answer
  <2>2. nextSession \in Int /\ nextSession \in NewSessions /\ id \in Int /\ NoId \in Int
        /\ code \in Code /\ ImageOf[nextSession] \in Images
    BY <1>3 DEF Answer, Code
  <2>3. queue' \in [Clients -> [Images -> Seq(Message)]]
    BY <2>1, <2>2, MessageType, PublishType
  <2>4. heard' \subseteq CorrelationIds
    BY <1>3 DEF Answer, StreamTypeOK
  <2>5. ArchiveTypeOK'
    BY <1>3, <2>1, <2>2 DEF Answer, ArchiveTypeOK
  <2>6. QED
    BY <1>3, <2>3, <2>4, <2>5 DEF Answer, ClientTypeOK, PollTypeOK, StreamTypeOK, clientVars, pollVars
<1>4. CASE Traffic
  <2>1. \E i \in Images, m \in Message : Publish(i, m)
    <3>1. /\ OldSession \in Int /\ ImageOf[OldSession] \in Images /\ OtherIds \subseteq Int
          /\ {"OK", "ERROR"} \subseteq Code /\ NoId \in Int
      BY DEF Code
    <3>2. QED
      BY <1>4, <3>1, MessageType DEF Traffic
  <2>2. queue' \in [Clients -> [Images -> Seq(Message)]]
    BY <2>1, PublishType
  <2>3. QED
    BY <1>4, <2>2 DEF Traffic, ClientTypeOK, PollTypeOK, StreamTypeOK, ArchiveTypeOK, clientVars,
                      pollVars
<1>5. QED
  BY <1>1, <1>2, <1>3, <1>4

LEMMA TypeStep ==
    ASSUME TypeOK, [Next]_vars
    PROVE  TypeOK'
<1>1. CASE UNCHANGED vars
  BY <1>1 DEF vars, clientVars, pollVars, streamVars, archiveVars, TypeOK, ClientTypeOK,
              PollTypeOK, StreamTypeOK, ArchiveTypeOK
<1>2. CASE Next
  BY <1>2, RegistrationType, PollingType, AwaitType, OutsideType DEF Next, ClientStep
<1>3. QED
  BY <1>1, <1>2

\* Every variable keeps its type: the constructor's state, the pollers, the
\* streams and the archive, for any number of clients.
THEOREM TypeCorrect == Spec => []TypeOK
<1>1. Init => TypeOK
  BY InitType
<1>2. TypeOK /\ [Next]_vars => TypeOK'
  BY TypeStep
<1>3. QED
  BY <1>1, <1>2, PTL DEF Spec
-----------------------------------------------------------------------------
(***************************************************************************)
(* The inductive invariant.                                                *)
(***************************************************************************)
\* The steps that neither draw an id nor change what became of a request.
QuietStep(c) ==
    \/ FindSubscription(c) \/ RegistrationFails(c) \/ FailToConnect(c) \/ AwaitConnection(c)
    \/ Poll(c) \/ EmptyImage(c) \/ ResponseFragment(c) \/ AssembleFragment(c)
    \/ ThrowingFragment(c) \/ AwaitSessionOpened(c)
    \/ ImageAvailable(c) \/ ImageUnavailable(c) \/ DeadlinePasses(c)

LEMMA Quiet ==
    ASSUME TypeOK, NEW c \in Clients, QuietStep(c)
    PROVE  /\ UNCHANGED <<correlationId, nextCorrelationId, archive, nextSession>>
           /\ \A d \in Clients : d # c => pc'[d] = pc[d]
           /\ \/ pc'[c] = pc[c] \/ pc'[c] \in {"findPublication", "failed"}
              \/ /\ pc[c] \in {"awaitConnection", "poll", "fragment"}
                 /\ pc'[c] \in {"poll", "fragment", "open"}
<1> USE DEF TypeOK, ClientTypeOK, clientVars, archiveVars, Go, Throw, End
<1>1. CASE FindSubscription(c) \/ RegistrationFails(c) \/ FailToConnect(c) \/ AwaitConnection(c)
  BY <1>1 DEF FindSubscription, RegistrationFails, FailToConnect, AwaitConnection
<1>2. CASE Poll(c) \/ EmptyImage(c) \/ ResponseFragment(c) \/ AssembleFragment(c) \/ ThrowingFragment(c)
  BY <1>2 DEF Poll, EmptyImage, ResponseFragment, AssembleFragment, ThrowingFragment
<1>3. CASE AwaitSessionOpened(c)
  BY <1>3 DEF AwaitSessionOpened
<1>4. CASE ImageAvailable(c) \/ ImageUnavailable(c) \/ DeadlinePasses(c)
  BY <1>4 DEF ImageAvailable, ImageUnavailable, DeadlinePasses
<1>5. QED
  BY <1>1, <1>2, <1>3, <1>4 DEF QuietStep

\* Traffic is nobody's step.
LEMMA TrafficIsQuiet ==
    ASSUME Traffic \/ UNCHANGED vars
    PROVE  UNCHANGED <<clientVars, pollVars, archive, nextSession>>
BY DEF Traffic, vars, archiveVars

LEMMA NextCases ==
    ASSUME [Next]_vars
    PROVE  \/ \E c \in Clients : Construct(c) \/ FindPublication(c) \/ Connect(c) \/ QuietStep(c)
           \/ \E id \in CorrelationIds : Answer(id)
           \/ Traffic \/ UNCHANGED vars
BY DEF Next, ClientStep, QuietStep

LEMMA IdStep ==
    ASSUME TypeOK, IdInv, [Next]_vars
    PROVE  IdInv'
<1> USE DEF TypeOK, ClientTypeOK, ArchiveTypeOK, IdInv
<1>1. ASSUME NEW c \in Clients, Construct(c)
      PROVE  IdInv'
  BY <1>1 DEF Construct, Go, archiveVars
<1>2. ASSUME NEW c \in Clients, FindPublication(c)
      PROVE  IdInv'
  BY <1>2 DEF FindPublication, Go, archiveVars
<1>3. ASSUME NEW c \in Clients, Connect(c)
      PROVE  IdInv'
  BY <1>3 DEF Connect, Go
<1>4. ASSUME NEW c \in Clients, QuietStep(c)
      PROVE  IdInv'
  <2>1. UNCHANGED <<correlationId, nextCorrelationId, archive>>
    BY <1>4, Quiet
  <2>2. \A d \in Clients : pc'[d] = "connect" => pc[d] = "connect"
    BY <1>4, Quiet
  <2>3. \A d \in Clients : pc'[d] \in {"awaitConnection", "poll", "fragment", "open"} =>
                            pc[d] \in {"awaitConnection", "poll", "fragment", "open"}
    BY <1>4, Quiet
  <2>4. QED
    BY <2>1, <2>2, <2>3
<1>5. ASSUME NEW id \in CorrelationIds, Answer(id)
      PROVE  IdInv'
  <2>1. /\ UNCHANGED clientVars
        /\ \A i \in CorrelationIds : i # id => archive'[i] = archive[i]
        /\ archive[id].status = "pending"
    BY <1>5 DEF Answer
  <2>2. UNCHANGED <<pc, correlationId, nextCorrelationId>>
    BY <2>1 DEF clientVars
  <2>3. \A c \in Clients : pc[c] = "connect" =>
          /\ correlationId[c] \in CorrelationIds /\ correlationId[c] # id
          /\ archive'[correlationId[c]].status = "unsent"
    BY <2>1
  <2>4. \A i \in CorrelationIds : i >= nextCorrelationId => archive'[i].status = "unsent"
    BY <2>1
  <2>5. QED
    BY <2>2, <2>3, <2>4
<1>6. CASE Traffic \/ UNCHANGED vars
  BY <1>6, TrafficIsQuiet DEF clientVars
<1>7. QED
  BY <1>1, <1>2, <1>3, <1>4, <1>5, <1>6, NextCases

LEMMA OutcomesStep ==
    ASSUME TypeOK, OutcomeInv, [Next]_vars
    PROVE  OutcomeInv'
<1> USE DEF TypeOK, ClientTypeOK, OutcomeInv, Go
<1>1. ASSUME NEW c \in Clients, Construct(c) \/ FindPublication(c) \/ Connect(c)
      PROVE  OutcomeInv'
  BY <1>1 DEF Construct, FindPublication, Connect
<1>2. ASSUME NEW c \in Clients,
             FindSubscription(c) \/ RegistrationFails(c) \/ FailToConnect(c) \/ AwaitConnection(c)
      PROVE  OutcomeInv'
  BY <1>2 DEF FindSubscription, RegistrationFails, FailToConnect, AwaitConnection, Throw, End
<1>3. ASSUME NEW c \in Clients,
             \/ Poll(c) \/ EmptyImage(c) \/ ResponseFragment(c) \/ AssembleFragment(c)
             \/ ThrowingFragment(c)
      PROVE  OutcomeInv'
  BY <1>3 DEF Poll, EmptyImage, ResponseFragment, AssembleFragment, ThrowingFragment, Throw, End,
              clientVars
<1>4. ASSUME NEW c \in Clients, AwaitSessionOpened(c)
      PROVE  OutcomeInv'
  BY <1>4 DEF AwaitSessionOpened, Throw, End
<1>5. CASE \/ \E c \in Clients : ImageAvailable(c) \/ ImageUnavailable(c) \/ DeadlinePasses(c)
           \/ \E id \in CorrelationIds : Answer(id)
           \/ Traffic \/ UNCHANGED vars
  BY <1>5 DEF ImageAvailable, ImageUnavailable, DeadlinePasses, Answer, Traffic, vars, clientVars
<1>6. QED
  BY <1>1, <1>2, <1>3, <1>4, <1>5, NextCases DEF QuietStep

\* A request that was answered stays as it is.
LEMMA AnsweredStays ==
    ASSUME TypeOK, IdInv, [Next]_vars, NEW id \in CorrelationIds,
           archive[id].status \in {"opened", "refused"}
    PROVE  archive'[id] = archive[id]
<1>1. ASSUME NEW c \in Clients, Construct(c) \/ FindPublication(c)
      PROVE  archive' = archive
  BY <1>1 DEF Construct, FindPublication, archiveVars
<1>2. ASSUME NEW c \in Clients, Connect(c)
      PROVE  archive'[id] = archive[id]
  <2>1. archive[correlationId[c]].status = "unsent"
    BY <1>2 DEF Connect, IdInv
  <2>2. QED
    BY <1>2, <2>1 DEF Connect, TypeOK, ArchiveTypeOK
<1>3. ASSUME NEW c \in Clients, QuietStep(c)
      PROVE  archive' = archive
  BY <1>3, Quiet
<1>4. ASSUME NEW i \in CorrelationIds, Answer(i)
      PROVE  archive'[id] = archive[id]
  BY <1>4 DEF Answer, TypeOK, ArchiveTypeOK
<1>5. QED
  BY <1>1, <1>2, <1>3, <1>4, TrafficIsQuiet, NextCases

\* IsTrue of the archive after the step, of a message from before or after it.
IsTrueNext(session, id, code) ==
    id \in CorrelationIds =>
        archive'[id] = [status |-> IF code = "OK" THEN "opened" ELSE "refused",
                        session |-> session]

\* So what a response says stays true.
LEMMA TrueStays ==
    ASSUME TypeOK, IdInv, [Next]_vars, NEW session, NEW id, NEW code, IsTrue(session, id, code)
    PROVE  IsTrueNext(session, id, code)
<1> SUFFICES ASSUME id \in CorrelationIds
             PROVE  archive'[id] = [status |-> IF code = "OK" THEN "opened" ELSE "refused",
                                    session |-> session]
  BY DEF IsTrueNext
<1>1. archive[id] = [status |-> IF code = "OK" THEN "opened" ELSE "refused", session |-> session]
  BY DEF IsTrue
<1>2. archive[id].status \in {"opened", "refused"}
  BY <1>1
<1>3. QED
  BY <1>1, <1>2, AnsweredStays

LEMMA ArchiveStep ==
    ASSUME TypeOK, IdInv, ArchiveInv, [Next]_vars
    PROVE  ArchiveInv'
<1> USE DEF ArchiveInv, TypeOK, ArchiveTypeOK
<1>1. CASE UNCHANGED <<archive, nextSession>>
  BY <1>1
<1>2. ASSUME NEW c \in Clients, Connect(c)
      PROVE  ArchiveInv'
  BY <1>2 DEF Connect, IdInv
<1>3. ASSUME NEW id \in CorrelationIds, Answer(id)
      PROVE  ArchiveInv'
  BY <1>3 DEF Answer
<1>4. ASSUME NEW c \in Clients, Construct(c) \/ FindPublication(c)
      PROVE  UNCHANGED <<archive, nextSession>>
  BY <1>4 DEF Construct, FindPublication, archiveVars
<1>5. ASSUME NEW c \in Clients, QuietStep(c)
      PROVE  UNCHANGED <<archive, nextSession>>
  BY <1>5, Quiet
<1>6. QED
  BY <1>1, <1>2, <1>3, <1>4, <1>5, TrafficIsQuiet, NextCases

-----------------------------------------------------------------------------
\* Where the messages of a subscription come from.
LEMMA QueueStep ==
    ASSUME TypeOK, IdInv, [Next]_vars, NEW d \in Clients, NEW i \in Images,
           NEW k \in DOMAIN queue'[d][i]
    PROVE  \/ \E j \in DOMAIN queue[d][i] : queue'[d][i][k] = queue[d][i][j]
           \/ LET m == queue'[d][i][k] IN
              m.template = "ControlResponse" => IsTrueNext(m.session, m.correlationId, m.code)
<1> USE DEF TypeOK, StreamTypeOK
<1> DEFINE Old == \E j \in DOMAIN queue[d][i] : queue'[d][i][k] = queue[d][i][j]
<1>1. ASSUME UNCHANGED queue
      PROVE  Old
  BY <1>1
<1>2. ASSUME NEW c \in Clients, LoseImages(c)
      PROVE  Old
  BY <1>2 DEF LoseImages
<1>3. ASSUME NEW c \in Clients, HasFragment(c), TakeFragment(c)
      PROVE  Old
  <2>1. Image(c) \in Images /\ queue[c][Image(c)] \in Seq(Message) /\ queue[c][Image(c)] # <<>>
    BY <1>3, TakeFragmentType
  <2>2. CASE d = c /\ i = Image(c)
    <3>1. queue'[d][i] = Tail(queue[d][i])
      BY <1>3, <2>1, <2>2 DEF TakeFragment
    <3>2. k + 1 \in DOMAIN queue[d][i] /\ Tail(queue[d][i])[k] = queue[d][i][k + 1]
      BY <3>1, <2>1, <2>2, HeadTailProperties, LenProperties
    <3>3. QED
      BY <3>1, <3>2
  <2>3. CASE d # c \/ i # Image(c)
    BY <1>3, <2>1, <2>3 DEF TakeFragment
  <2>4. QED
    BY <2>2, <2>3
<1>4. ASSUME NEW image \in Images, NEW m \in Message, Publish(image, m)
      PROVE  Old \/ queue'[d][i][k] = m
  <2>1. CASE connected[d] /\ i = image
    <3>1. queue'[d][i] = Append(queue[d][i], m) /\ queue[d][i] \in Seq(Message)
      BY <1>4, <2>1 DEF Publish
    <3>2. QED
      BY <3>1
  <2>2. CASE ~(connected[d] /\ i = image)
    BY <1>4, <2>2 DEF Publish
  <2>3. QED
    BY <2>1, <2>2
<1>5. CASE \E id \in CorrelationIds : Answer(id)
  <2>1. PICK id \in CorrelationIds : Answer(id)
    BY <1>5
  <2>2. PICK code \in {"OK", "ERROR"} :
          /\ Publish(ImageOf[nextSession], ControlResponse(nextSession, id, code, NoId))
          /\ archive' = [archive EXCEPT ![id] =
                           [status |-> IF code = "OK" THEN "opened" ELSE "refused",
                            session |-> nextSession]]
    BY <2>1 DEF Answer
  <2> DEFINE m == ControlResponse(nextSession, id, code, NoId)
  <2>3. nextSession \in Int /\ id \in Int /\ NoId \in Int /\ code \in Code
        /\ ImageOf[nextSession] \in Images
    BY <2>1 DEF Answer, Code
  <2>4. m \in Message
    BY <2>3, MessageType
  <2>5. IsTrueNext(m.session, m.correlationId, m.code)
    BY <2>2 DEF IsTrueNext, ControlResponse, ArchiveTypeOK
  <2>6. QED
    BY <2>2, <2>3, <2>4, <2>5, <1>4
<1>6. CASE Traffic
  <2>1. PICK image \in Images, m \in Message :
          /\ Publish(image, m)
          /\ m.template = "ControlResponse" => m.correlationId \notin CorrelationIds
    <3>1. /\ OldSession \in Int /\ ImageOf[OldSession] \in Images /\ OtherIds \subseteq Int
          /\ {"OK", "ERROR"} \subseteq Code /\ NoId \in Int
      BY DEF Code
    <3>2. /\ \A id, code : ControlResponse(OldSession, id, code, NoId).correlationId = id
          /\ \A id : RecordingDescriptor(OldSession, id, NoId).template = "RecordingDescriptor"
          /\ UnknownMessage.template = "Unknown" /\ PartialMessage.template = "Partial"
      BY DEF ControlResponse, RecordingDescriptor, UnknownMessage, PartialMessage
    <3>3. CASE \E id \in OtherIds, code \in {"OK", "ERROR"} :
                 Publish(ImageOf[OldSession], ControlResponse(OldSession, id, code, NoId))
      <4>1. PICK id \in OtherIds, code \in {"OK", "ERROR"} :
              Publish(ImageOf[OldSession], ControlResponse(OldSession, id, code, NoId))
        BY <3>3
      <4>2. id \in Int /\ id \notin CorrelationIds /\ code \in Code
        BY <3>1
      <4>3. ControlResponse(OldSession, id, code, NoId) \in Message
        BY <3>1, <4>2, MessageType
      <4>4. QED
        BY <3>1, <3>2, <4>1, <4>2, <4>3
    <3>4. CASE \E id \in OtherIds :
                 Publish(ImageOf[OldSession], RecordingDescriptor(OldSession, id, NoId))
      BY <3>1, <3>2, <3>4, MessageType
    <3>5. CASE \E j \in Images, m \in {UnknownMessage, PartialMessage} : Publish(j, m)
      BY <3>2, <3>5, MessageType
    <3>6. QED
      BY <1>6, <3>3, <3>4, <3>5 DEF Traffic
  <2>2. QED
    BY <2>1, <1>4 DEF IsTrueNext
<1>7. ASSUME NEW c \in Clients, Construct(c) \/ FindPublication(c) \/ Connect(c)
      PROVE  Old
  BY <1>1, <1>7 DEF Construct, FindPublication, Connect, streamVars
<1>8. ASSUME NEW c \in Clients, QuietStep(c)
      PROVE  Old
  <2>1. UNCHANGED queue \/ LoseImages(c) \/ (HasFragment(c) /\ TakeFragment(c))
    BY <1>8 DEF QuietStep, FindSubscription, RegistrationFails, FailToConnect, AwaitConnection,
                Poll, EmptyImage, ResponseFragment, AssembleFragment, ThrowingFragment,
                AwaitSessionOpened, ImageAvailable, ImageUnavailable, DeadlinePasses, Throw, End,
                streamVars
  <2>2. QED
    BY <2>1, <1>1, <1>2, <1>3
<1>9. QED
  BY <1>1, <1>5, <1>6, <1>7, <1>8, NextCases DEF vars, streamVars

LEMMA StreamStep ==
    ASSUME TypeOK, IdInv, StreamInv, [Next]_vars
    PROVE  StreamInv'
<1> SUFFICES ASSUME NEW d \in Clients, NEW i \in Images, NEW k \in DOMAIN queue'[d][i],
                    queue'[d][i][k].template = "ControlResponse"
             PROVE  LET m == queue'[d][i][k] IN IsTrueNext(m.session, m.correlationId, m.code)
  BY DEF StreamInv, IsTrue, IsTrueNext
<1>1. CASE \E j \in DOMAIN queue[d][i] : queue'[d][i][k] = queue[d][i][j]
  <2>1. LET m == queue'[d][i][k] IN IsTrue(m.session, m.correlationId, m.code)
    BY <1>1 DEF StreamInv
  <2>2. QED
    BY <2>1, TrueStays
<1>2. QED
  BY <1>1, QueueStep

\* Only poll() and onFragment() change the poller of a constructor that goes on.
LEMMA PollerStep ==
    ASSUME TypeOK, IdInv, StreamInv, PollerInv, [Next]_vars
    PROVE  PollerInv'
<1> USE DEF TypeOK, ClientTypeOK, PollTypeOK
<1> SUFFICES ASSUME NEW d \in Clients, pc'[d] = "fragment",
                    controlResponsePoller'[d].templateId = "ControlResponse"
             PROVE  LET p == controlResponsePoller'[d] IN
                    IsTrueNext(p.controlSessionId, p.correlationId, p.code)
  BY DEF PollerInv, IsTrue, IsTrueNext
<1>1. CASE controlResponsePoller'[d] = controlResponsePoller[d] /\ pc[d] = "fragment"
  BY <1>1, TrueStays DEF PollerInv
<1>2. ASSUME Poll(d)
      PROVE  FALSE
  BY <1>2 DEF Poll, ResetPoll
<1>3. ASSUME ResponseFragment(d)
      PROVE  LET p == controlResponsePoller'[d] IN
             IsTrueNext(p.controlSessionId, p.correlationId, p.code)
  <2>1. Image(d) \in Images /\ queue[d][Image(d)] \in Seq(Message) /\ queue[d][Image(d)] # <<>>
        /\ HasFragment(d)
    BY <1>3, TakeFragmentType DEF ResponseFragment
  <2>2. 1 \in DOMAIN queue[d][Image(d)] /\ Fragment(d) = queue[d][Image(d)][1]
    BY <2>1, HeadTailProperties, LenProperties DEF Fragment
  <2>3. controlResponsePoller'[d] = OnResponseFragment(controlResponsePoller[d], Fragment(d))
    BY <1>3 DEF ResponseFragment
  <2>4. CASE Fragment(d).template = "ControlResponse"
    <3>1. IsTrue(Fragment(d).session, Fragment(d).correlationId, Fragment(d).code)
      BY <2>1, <2>2, <2>4 DEF StreamInv
    <3>2. QED
      BY <2>3, <2>4, <3>1, TrueStays DEF OnResponseFragment
  <2>5. CASE Fragment(d).template # "ControlResponse"
    <3>1. /\ controlResponsePoller'[d].controlSessionId = controlResponsePoller[d].controlSessionId
          /\ controlResponsePoller'[d].correlationId = controlResponsePoller[d].correlationId
          /\ controlResponsePoller'[d].code = controlResponsePoller[d].code
          /\ controlResponsePoller'[d].templateId = controlResponsePoller[d].templateId
      BY <2>3, <2>5 DEF OnResponseFragment, ResponsePoller
    <3>2. pc[d] = "fragment"
      BY <2>1 DEF HasFragment, IsPolling
    <3>3. QED
      BY <3>1, <3>2, TrueStays DEF PollerInv
  <2>6. QED
    BY <2>4, <2>5
<1>4. ASSUME NEW c \in Clients, QuietStep(c), ~(c = d /\ (Poll(d) \/ ResponseFragment(d)))
      PROVE  controlResponsePoller'[d] = controlResponsePoller[d] /\ pc[d] = "fragment"
  <2>1. CASE c # d
    <3>1. controlResponsePoller'[d] = controlResponsePoller[d]
      BY <1>4, <2>1 DEF QuietStep, FindSubscription, RegistrationFails, FailToConnect,
                AwaitConnection, Poll, EmptyImage, ResponseFragment, AssembleFragment,
                ThrowingFragment, AwaitSessionOpened, ImageAvailable, ImageUnavailable,
                DeadlinePasses, Throw, pollVars
    <3>2. QED
      BY <1>4, <2>1, <3>1, Quiet
  <2>2. CASE c = d
    <3>1. CASE EmptyImage(d) \/ AssembleFragment(d) \/ ThrowingFragment(d)
      BY <3>1 DEF EmptyImage, AssembleFragment, ThrowingFragment, HasFragment, IsPolling, Throw,
                  End, Go
    <3>2. CASE ImageAvailable(d) \/ ImageUnavailable(d) \/ DeadlinePasses(d)
      BY <3>2 DEF ImageAvailable, ImageUnavailable, DeadlinePasses, clientVars, pollVars
    <3>3. CASE FindSubscription(d) \/ RegistrationFails(d) \/ FailToConnect(d)
               \/ AwaitConnection(d) \/ AwaitSessionOpened(d)
      BY <3>3 DEF FindSubscription, RegistrationFails, FailToConnect, AwaitConnection,
                  AwaitSessionOpened, Throw, End, Go
    <3>4. QED
      BY <1>4, <2>2, <3>1, <3>2, <3>3 DEF QuietStep
  <2>3. QED
    BY <2>1, <2>2
<1>5. ASSUME NEW c \in Clients, Construct(c) \/ FindPublication(c) \/ Connect(c)
      PROVE  controlResponsePoller'[d] = controlResponsePoller[d] /\ pc[d] = "fragment"
  BY <1>5 DEF Construct, FindPublication, Connect, Go, pollVars
<1>6. ASSUME NEW id \in CorrelationIds, Answer(id)
      PROVE  controlResponsePoller'[d] = controlResponsePoller[d] /\ pc[d] = "fragment"
  BY <1>6 DEF Answer, clientVars, pollVars
<1>7. CASE Traffic \/ UNCHANGED vars
  BY <1>7, <1>1, TrafficIsQuiet DEF clientVars, pollVars
<1>8. QED
  BY <1>1, <1>2, <1>3, <1>4, <1>5, <1>6, <1>7, NextCases

-----------------------------------------------------------------------------
\* How a constructor comes to return, or to blame the archive.
LEMMA OutcomeStep ==
    ASSUME TypeOK, OutcomeInv, [Next]_vars, NEW d \in Clients
    PROVE  /\ pc'[d] = "open" =>
                \/ /\ pc[d] = "open" /\ correlationId'[d] = correlationId[d]
                   /\ controlSessionId'[d] = controlSessionId[d]
                \/ /\ AwaitSessionOpened(d) /\ IsOwnAnswer(d)
                   /\ controlResponsePoller[d].code = "OK"
                   /\ correlationId'[d] = correlationId[d]
                   /\ controlSessionId'[d] = controlResponsePoller[d].controlSessionId
           /\ how'[d] = "refused" =>
                /\ correlationId'[d] = correlationId[d]
                /\ \/ how[d] = "refused"
                   \/ /\ AwaitSessionOpened(d) /\ IsOwnAnswer(d)
                      /\ controlResponsePoller[d].code # "OK"
<1> USE DEF TypeOK, ClientTypeOK, Go
<1>1. ASSUME NEW c \in Clients, c # d,
             Construct(c) \/ FindPublication(c) \/ Connect(c) \/ QuietStep(c)
      PROVE  /\ pc'[d] = pc[d] /\ how'[d] = how[d] /\ correlationId'[d] = correlationId[d]
             /\ controlSessionId'[d] = controlSessionId[d]
  <2>1. CASE Construct(c) \/ FindPublication(c) \/ Connect(c)
    BY <1>1, <2>1 DEF Construct, FindPublication, Connect
  <2>2. CASE FindSubscription(c) \/ RegistrationFails(c) \/ FailToConnect(c) \/ AwaitConnection(c)
    BY <1>1, <2>2 DEF FindSubscription, RegistrationFails, FailToConnect, AwaitConnection, Throw, End
  <2>3. CASE Poll(c) \/ EmptyImage(c) \/ ResponseFragment(c) \/ AssembleFragment(c)
             \/ ThrowingFragment(c)
    BY <1>1, <2>3 DEF Poll, EmptyImage, ResponseFragment, AssembleFragment, ThrowingFragment,
                      Throw, End, clientVars
  <2>4. CASE AwaitSessionOpened(c)
    BY <1>1, <2>4 DEF AwaitSessionOpened, Throw, End
  <2>5. CASE ImageAvailable(c) \/ ImageUnavailable(c) \/ DeadlinePasses(c)
    BY <2>5 DEF ImageAvailable, ImageUnavailable, DeadlinePasses, clientVars
  <2>6. QED
    BY <1>1, <2>1, <2>2, <2>3, <2>4, <2>5 DEF QuietStep
<1>2. CASE Construct(d) \/ FindPublication(d) \/ Connect(d)
  BY <1>2 DEF Construct, FindPublication, Connect, OutcomeInv
<1>3. CASE FindSubscription(d) \/ RegistrationFails(d) \/ FailToConnect(d) \/ AwaitConnection(d)
           \/ Poll(d) \/ EmptyImage(d) \/ ResponseFragment(d) \/ AssembleFragment(d)
           \/ ThrowingFragment(d)
  BY <1>3 DEF FindSubscription, RegistrationFails, FailToConnect, AwaitConnection, Poll,
              EmptyImage, ResponseFragment, AssembleFragment, ThrowingFragment, Throw, End,
              HasFragment, IsPolling, clientVars
<1>4. CASE AwaitSessionOpened(d)
  BY <1>4 DEF AwaitSessionOpened, Throw, End
<1>5. CASE \/ ImageAvailable(d) \/ ImageUnavailable(d) \/ DeadlinePasses(d)
           \/ \E id \in CorrelationIds : Answer(id)
           \/ Traffic \/ UNCHANGED vars
  BY <1>5 DEF ImageAvailable, ImageUnavailable, DeadlinePasses, Answer, Traffic, vars, clientVars
<1>6. QED
  BY <1>1, <1>2, <1>3, <1>4, <1>5, NextCases DEF QuietStep

\* What a constructor that finds its own answer knows about its request.
LEMMA OwnAnswer ==
    ASSUME TypeOK, IdInv, PollerInv, [Next]_vars, NEW d \in Clients,
           AwaitSessionOpened(d), IsOwnAnswer(d)
    PROVE  LET p == controlResponsePoller[d] IN
           /\ correlationId[d] \in CorrelationIds
           /\ archive[correlationId[d]] =
                [status |-> IF p.code = "OK" THEN "opened" ELSE "refused",
                 session |-> p.controlSessionId]
           /\ archive'[correlationId[d]] = archive[correlationId[d]]
<1>1. pc[d] = "fragment"
  BY DEF AwaitSessionOpened
<1>2. correlationId[d] \in CorrelationIds
  BY <1>1 DEF IdInv, TypeOK, ClientTypeOK
<1>3. archive[correlationId[d]] =
        [status |-> IF controlResponsePoller[d].code = "OK" THEN "opened" ELSE "refused",
         session |-> controlResponsePoller[d].controlSessionId]
  BY <1>1, <1>2 DEF PollerInv, IsTrue, IsOwnAnswer
<1>4. QED
  BY <1>2, <1>3, AnsweredStays

LEMMA SessionStep ==
    ASSUME TypeOK, IdInv, OutcomeInv, ArchiveInv, PollerInv, SessionIsOwn, [Next]_vars
    PROVE  SessionIsOwn'
<1>1. ASSUME NEW d \in Clients, pc'[d] = "open"
      PROVE  /\ correlationId'[d] \in CorrelationIds
             /\ archive'[correlationId'[d]] = [status |-> "opened", session |-> controlSessionId'[d]]
  <2>1. CASE /\ pc[d] = "open" /\ correlationId'[d] = correlationId[d]
             /\ controlSessionId'[d] = controlSessionId[d]
    BY <2>1, AnsweredStays DEF SessionIsOwn
  <2>2. CASE /\ AwaitSessionOpened(d) /\ IsOwnAnswer(d)
             /\ controlResponsePoller[d].code = "OK"
             /\ correlationId'[d] = correlationId[d]
             /\ controlSessionId'[d] = controlResponsePoller[d].controlSessionId
    BY <2>2, OwnAnswer
  <2>3. QED
    BY <1>1, <2>1, <2>2, OutcomeStep
<1>2. TypeOK' /\ IdInv' /\ ArchiveInv'
  BY TypeStep, IdStep, ArchiveStep
<1>3. ASSUME NEW d \in Clients, NEW e \in Clients, d # e, pc'[d] = "open", pc'[e] = "open"
      PROVE  controlSessionId'[d] # controlSessionId'[e]
  <2>1. correlationId'[d] # correlationId'[e]
    BY <1>1, <1>2, <1>3 DEF IdInv
  <2>2. /\ archive'[correlationId'[d]] = [status |-> "opened", session |-> controlSessionId'[d]]
        /\ archive'[correlationId'[e]] = [status |-> "opened", session |-> controlSessionId'[e]]
        /\ correlationId'[d] \in CorrelationIds /\ correlationId'[e] \in CorrelationIds
    BY <1>1, <1>3
  <2>3. QED
    BY <1>2, <2>1, <2>2 DEF ArchiveInv
<1>4. QED
  BY <1>1, <1>3 DEF SessionIsOwn

LEMMA RefusalStep ==
    ASSUME TypeOK, IdInv, OutcomeInv, PollerInv, RefusalIsOwn, [Next]_vars
    PROVE  RefusalIsOwn'
<1> SUFFICES ASSUME NEW d \in Clients, how'[d] = "refused"
             PROVE  /\ correlationId'[d] \in CorrelationIds
                    /\ archive'[correlationId'[d]].status = "refused"
  BY DEF RefusalIsOwn
<1>1. correlationId'[d] = correlationId[d]
  BY OutcomeStep
<1>2. CASE how[d] = "refused"
  BY <1>1, <1>2, AnsweredStays DEF RefusalIsOwn
<1>3. CASE AwaitSessionOpened(d) /\ IsOwnAnswer(d) /\ controlResponsePoller[d].code # "OK"
  <2>1. /\ correlationId[d] \in CorrelationIds
        /\ archive'[correlationId[d]] = [status |-> "refused",
                                         session |-> controlResponsePoller[d].controlSessionId]
    BY <1>3, OwnAnswer
  <2>2. QED
    BY <1>1, <2>1
<1>4. QED
  BY <1>2, <1>3, OutcomeStep

\* Ids and sessions are drawn once; what a response on the stream or in a poller
\* says is what the archive did.
THEOREM InductiveInvariant == Spec => []IInv
<1>1. Init => IInv
  <2> SUFFICES ASSUME Init PROVE IInv
    OBVIOUS
  <2>1. TypeOK
    BY InitType
  <2>2. IdInv /\ OutcomeInv /\ ArchiveInv
    BY DEF Init, IdInv, OutcomeInv, ArchiveInv
  <2>3. StreamInv /\ PollerInv
    BY DEF Init, StreamInv, PollerInv
  <2>4. SessionIsOwn /\ RefusalIsOwn
    BY DEF Init, SessionIsOwn, RefusalIsOwn
  <2>5. QED
    BY <2>1, <2>2, <2>3, <2>4 DEF IInv
<1>2. IInv /\ [Next]_vars => IInv'
  BY TypeStep, IdStep, OutcomesStep, ArchiveStep, StreamStep, PollerStep, SessionStep, RefusalStep DEF IInv
<1>3. QED
  BY <1>1, <1>2, PTL DEF Spec

\* A constructor that returns has the session that the archive opened for its
\* own request, and shares it with no other client.
THEOREM OwnSession == Spec => []SessionIsOwn
<1>1. IInv => SessionIsOwn
  BY DEF IInv
<1>2. QED
  BY <1>1, InductiveInvariant, PTL

\* A constructor blames the archive only for a refusal of its own request.
THEOREM OwnRefusal == Spec => []RefusalIsOwn
<1>1. IInv => RefusalIsOwn
  BY DEF IInv
<1>2. QED
  BY <1>1, InductiveInvariant, PTL
-----------------------------------------------------------------------------
(***************************************************************************)
(* With one image no poll() loses the answer to a constructor that waits.  *)
(***************************************************************************)
IsWaiting(c) == pc[c] \in {"awaitConnection", "poll", "fragment"}

\* Only what the archive has answered was heard.
HeardInv == \A id \in heard : archive[id].status \in {"opened", "refused"}

\* A handled message has ended its poll: BREAK ends the poll of the image and
\* there is no other, so that the constructor looks at it before the next.
VisitInv ==
    \A c \in Clients :
        /\ Len(visit[c]) <= 1
        /\ (pc[c] = "fragment" /\ controlResponsePoller[c].isPollComplete) => visit[c] = <<>>

\* The answer to id is on its way to client c.
OnItsWay(c, id) ==
    \E i \in Images : \E k \in DOMAIN queue[c][i] :
        queue[c][i][k].template = "ControlResponse" /\ queue[c][i][k].correlationId = id

\* It is in the poller of client c, which looks at it next.
Polled(c, id) ==
    /\ pc[c] = "fragment" /\ controlResponsePoller[c].isPollComplete
    /\ controlResponsePoller[c].templateId = "ControlResponse"
    /\ controlResponsePoller[c].correlationId = id

SeenInv ==
    \A c \in Clients :
        (IsWaiting(c) /\ correlationId[c] \in heard) =>
            OnItsWay(c, correlationId[c]) \/ Polled(c, correlationId[c])

LEMMA HeardStep ==
    ASSUME TypeOK, IdInv, HeardInv, [Next]_vars
    PROVE  HeardInv'
<1> USE DEF TypeOK, StreamTypeOK
<1>1. ASSUME NEW id \in heard
      PROVE  archive'[id].status \in {"opened", "refused"}
  <2>1. id \in CorrelationIds /\ archive[id].status \in {"opened", "refused"}
    BY DEF HeardInv
  <2>2. QED
    BY <2>1, AnsweredStays
<1>2. ASSUME NEW id \in CorrelationIds, Answer(id)
      PROVE  heard' \subseteq heard \cup {id} /\ archive'[id].status \in {"opened", "refused"}
  BY <1>2 DEF Answer, ArchiveTypeOK
<1>3. ASSUME NEW c \in Clients, Construct(c) \/ FindPublication(c) \/ Connect(c) \/ QuietStep(c)
      PROVE  heard' \subseteq heard
  <2>1. CASE Construct(c) \/ FindPublication(c) \/ Connect(c)
    BY <2>1 DEF Construct, FindPublication, Connect, streamVars
  <2>2. CASE QuietStep(c)
    BY <2>2 DEF QuietStep, FindSubscription, RegistrationFails, FailToConnect, AwaitConnection,
                Poll, EmptyImage, ResponseFragment, AssembleFragment, ThrowingFragment,
                AwaitSessionOpened, ImageAvailable, ImageUnavailable, DeadlinePasses, Throw, End,
                LoseImages, streamVars
  <2>3. QED
    BY <1>3, <2>1, <2>2
<1>4. CASE Traffic \/ UNCHANGED vars
  BY <1>4, <1>1 DEF Traffic, vars, streamVars, HeardInv
<1>5. QED
  BY <1>1, <1>2, <1>3, <1>4, NextCases DEF HeardInv

\* With one image a poll has one image to visit.
LEMMA OneVisit ==
    ASSUME Cardinality(Images) = 1
    PROVE  \A order \in VisitOrders : Len(order) = 1
<1>1. \A order \in VisitOrders : order \in [1..1 -> Images]
  BY DEF VisitOrders
<1>2. QED
  BY <1>1, LenProperties, SeqDef

LEMMA VisitStep ==
    ASSUME Cardinality(Images) = 1, TypeOK, VisitInv, [Next]_vars
    PROVE  VisitInv'
<1> USE DEF TypeOK, ClientTypeOK, PollTypeOK
<1> SUFFICES ASSUME NEW d \in Clients
             PROVE  /\ Len(visit'[d]) <= 1
                    /\ (pc'[d] = "fragment" /\ controlResponsePoller'[d].isPollComplete) =>
                          visit'[d] = <<>>
  BY DEF VisitInv
<1> DEFINE Old == /\ visit'[d] = visit[d]
                  /\ pc'[d] = "fragment" => pc[d] = "fragment"
                  /\ controlResponsePoller'[d] = controlResponsePoller[d]
<1>1. visit[d] \in Seq(Images) /\ Len(visit[d]) \in Nat /\ Len(visit[d]) <= 1 /\ Len(<<>>) = 0
  BY LenProperties, EmptySeq DEF VisitInv
<1>2. visit[d] # <<>> => Tail(visit[d]) = <<>>
  BY <1>1, HeadTailProperties, EmptySeq
<1>3. ASSUME Old
      PROVE  /\ Len(visit'[d]) <= 1
             /\ (pc'[d] = "fragment" /\ controlResponsePoller'[d].isPollComplete) => visit'[d] = <<>>
  BY <1>3 DEF VisitInv
<1>4. ASSUME visit'[d] = <<>>
      PROVE  /\ Len(visit'[d]) <= 1
             /\ (pc'[d] = "fragment" /\ controlResponsePoller'[d].isPollComplete) => visit'[d] = <<>>
  BY <1>1, <1>4
<1>5. ASSUME Poll(d)
      PROVE  Len(visit'[d]) <= 1 /\ ~controlResponsePoller'[d].isPollComplete
  <2>1. visit'[d] \in VisitOrders /\ controlResponsePoller'[d] = ResetPoll(controlResponsePoller[d])
    BY <1>5 DEF Poll
  <2>2. Len(visit'[d]) = 1
    BY <2>1, OneVisit
  <2>3. \A p \in ResponsePoller : ~ResetPoll(p).isPollComplete
    BY DEF ResetPoll, ResponsePoller
  <2>4. ~controlResponsePoller'[d].isPollComplete
    BY <2>1, <2>3
  <2>5. QED
    BY <2>2, <2>4
<1>6. ASSUME EmptyImage(d) \/ ResponseFragment(d)
      PROVE  visit'[d] = <<>>
  BY <1>2, <1>6 DEF EmptyImage, ResponseFragment, HasFragment, IsPolling, NextImage
<1>7. ASSUME AssembleFragment(d)
      PROVE  Old
  BY <1>7 DEF AssembleFragment, clientVars
<1>8. ASSUME ThrowingFragment(d)
      PROVE  visit'[d] = <<>>
  BY <1>2, <1>8 DEF ThrowingFragment, HasFragment, IsPolling, NextImage, Throw, End
<1>9. ASSUME FindSubscription(d) \/ RegistrationFails(d) \/ FailToConnect(d) \/ AwaitConnection(d)
             \/ AwaitSessionOpened(d)
      PROVE  visit'[d] = <<>> \/ (visit'[d] = visit[d] /\ pc'[d] # "fragment")
  BY <1>9 DEF FindSubscription, RegistrationFails, FailToConnect, AwaitConnection,
              AwaitSessionOpened, Throw, End, Go, pollVars
<1>10. ASSUME NEW c \in Clients, c # d, QuietStep(c)
       PROVE  Old
  <2>1. pc'[d] = pc[d]
    BY <1>10, Quiet
  <2>2. visit'[d] = visit[d] /\ controlResponsePoller'[d] = controlResponsePoller[d]
    BY <1>10 DEF QuietStep, FindSubscription, RegistrationFails, FailToConnect, AwaitConnection,
                 Poll, EmptyImage, ResponseFragment, AssembleFragment, ThrowingFragment,
                 AwaitSessionOpened, ImageAvailable, ImageUnavailable, DeadlinePasses, NextImage,
                 Throw, End, pollVars
  <2>3. QED
    BY <2>1, <2>2
<1>11. ASSUME ImageAvailable(d) \/ ImageUnavailable(d) \/ DeadlinePasses(d)
       PROVE  Old
  BY <1>11 DEF ImageAvailable, ImageUnavailable, DeadlinePasses, clientVars, pollVars
<1>12. ASSUME NEW c \in Clients, Construct(c) \/ FindPublication(c) \/ Connect(c)
       PROVE  Old
  BY <1>12 DEF Construct, FindPublication, Connect, Go, pollVars
<1>13. ASSUME NEW id \in CorrelationIds, Answer(id)
       PROVE  Old
  BY <1>13 DEF Answer, clientVars, pollVars
<1>14. ASSUME Traffic \/ UNCHANGED vars
       PROVE  Old
  BY <1>14, TrafficIsQuiet DEF clientVars, pollVars
<1> HIDE DEF Old
<1>15. ASSUME NEW c \in Clients, QuietStep(c)
       PROVE  /\ Len(visit'[d]) <= 1
              /\ (pc'[d] = "fragment" /\ controlResponsePoller'[d].isPollComplete) => visit'[d] = <<>>
  BY <1>1, <1>3, <1>4, <1>5, <1>6, <1>7, <1>8, <1>9, <1>10, <1>11, <1>15 DEF QuietStep
<1>16. QED
  BY <1>3, <1>12, <1>13, <1>14, <1>15, NextCases

-----------------------------------------------------------------------------
\* An answer on its way is overtaken by nothing but what is taken before it.
LEMMA TakeKeeps ==
    ASSUME TypeOK, NEW c \in Clients, HasFragment(c), TakeFragment(c), NEW d \in Clients, NEW id,
           OnItsWay(d, id)
    PROVE  \/ OnItsWay(d, id)'
           \/ /\ d = c /\ Fragment(c).template = "ControlResponse"
              /\ Fragment(c).correlationId = id
<1> USE DEF TypeOK, StreamTypeOK
<1>1. PICK i \in Images : \E k \in DOMAIN queue[d][i] :
        queue[d][i][k].template = "ControlResponse" /\ queue[d][i][k].correlationId = id
  BY DEF OnItsWay
<1>2. PICK k \in DOMAIN queue[d][i] :
        queue[d][i][k].template = "ControlResponse" /\ queue[d][i][k].correlationId = id
  BY <1>1
<1>3. Image(c) \in Images /\ queue[c][Image(c)] \in Seq(Message) /\ queue[c][Image(c)] # <<>>
  BY TakeFragmentType
<1>4. CASE d = c /\ i = Image(c)
  <2>1. queue'[d][i] = Tail(queue[d][i])
    BY <1>3, <1>4 DEF TakeFragment
  <2>2. CASE k = 1
    BY <1>2, <1>3, <1>4, <2>2, HeadTailProperties DEF Fragment
  <2>3. CASE k # 1
    <3>1. k \in 1..Len(queue[d][i]) /\ Len(queue[d][i]) \in Nat
      BY <1>2, <1>3, <1>4, LenProperties
    <3>2. k - 1 \in 1..(Len(queue[d][i]) - 1)
      BY <3>1, <2>3
    <3>3. k - 1 \in DOMAIN queue'[d][i] /\ queue'[d][i][k - 1] = queue[d][i][k]
      BY <1>3, <1>4, <2>1, <3>1, <3>2, HeadTailProperties, LenProperties
    <3>4. QED
      BY <1>2, <3>3 DEF OnItsWay
  <2>4. QED
    BY <2>2, <2>3
<1>5. CASE d # c \/ i # Image(c)
  <2>1. queue'[d][i] = queue[d][i]
    BY <1>3, <1>5 DEF TakeFragment
  <2>2. QED
    BY <1>2, <2>1 DEF OnItsWay
<1>6. QED
  BY <1>4, <1>5

\* What is published goes behind it.
LEMMA PublishKeeps ==
    ASSUME TypeOK, NEW image \in Images, NEW m \in Message, Publish(image, m), NEW d \in Clients,
           NEW id
    PROVE  /\ OnItsWay(d, id) => OnItsWay(d, id)'
           /\ (connected[d] /\ m.template = "ControlResponse" /\ m.correlationId = id) =>
                 OnItsWay(d, id)'
<1> USE DEF TypeOK, StreamTypeOK
<1>1. ASSUME NEW i \in Images
      PROVE  queue'[d][i] = IF connected[d] /\ i = image THEN Append(queue[d][i], m) ELSE queue[d][i]
  BY DEF Publish
<1>2. \A i \in Images : queue[d][i] \in Seq(Message) /\ Len(queue[d][i]) \in Nat
  BY LenProperties
<1>3. ASSUME NEW i \in Images, NEW k \in DOMAIN queue[d][i]
      PROVE  k \in DOMAIN queue'[d][i] /\ queue'[d][i][k] = queue[d][i][k]
  <2>1. CASE connected[d] /\ i = image
    <3>1. queue'[d][i] = Append(queue[d][i], m)
      BY <1>1, <2>1
    <3>2. k \in 1..Len(queue[d][i])
      BY <1>2, <1>3, LenProperties
    <3>3. k \in 1..(Len(queue[d][i]) + 1)
      BY <1>2, <3>2
    <3>4. QED
      BY <1>2, <3>1, <3>2, <3>3, AppendProperties, LenProperties
  <2>2. CASE ~(connected[d] /\ i = image)
    BY <1>1, <1>3, <2>2
  <2>3. QED
    BY <2>1, <2>2
<1>4. OnItsWay(d, id) => OnItsWay(d, id)'
  BY <1>3 DEF OnItsWay
<1>5. ASSUME connected[d]
      PROVE  /\ Len(queue[d][image]) + 1 \in DOMAIN queue'[d][image]
             /\ queue'[d][image][Len(queue[d][image]) + 1] = m
  <2>1. queue'[d][image] = Append(queue[d][image], m)
    BY <1>1, <1>5
  <2>2. Len(queue[d][image]) + 1 \in 1..(Len(queue[d][image]) + 1)
    BY <1>2
  <2>3. QED
    BY <1>2, <2>1, <2>2, AppendProperties, LenProperties
<1>6. QED
  BY <1>4, <1>5 DEF OnItsWay

\* The archive's answer reaches the client that it makes it heard for.
LEMMA AnswerSeen ==
    ASSUME TypeOK, IdInv, HeardInv, SeenInv, NEW id \in CorrelationIds, Answer(id)
    PROVE  SeenInv'
<1> USE DEF TypeOK, StreamTypeOK, ClientTypeOK
<1>1. PICK code \in {"OK", "ERROR"} :
          Publish(ImageOf[nextSession], ControlResponse(nextSession, id, code, NoId))
  BY DEF Answer
<1> DEFINE m == ControlResponse(nextSession, id, code, NoId)
<1>2. nextSession \in Int /\ id \in Int /\ NoId \in Int /\ code \in Code
      /\ ImageOf[nextSession] \in Images
  BY DEF Answer, Code
<1>3. m \in Message /\ m.template = "ControlResponse" /\ m.correlationId = id
  BY <1>2, MessageType DEF ControlResponse
<1>4. UNCHANGED <<pc, correlationId, controlResponsePoller>>
  BY DEF Answer, clientVars, pollVars
<1> HIDE DEF m
<1>5. ASSUME NEW c \in Clients, IsWaiting(c), correlationId[c] \in heard'
      PROVE  OnItsWay(c, correlationId[c])' \/ Polled(c, correlationId[c])'
  <2>1. CASE correlationId[c] \in heard
    <3>1. CASE Polled(c, correlationId[c])
      BY <1>4, <3>1 DEF Polled
    <3>2. PICK own : own = correlationId[c]
      OBVIOUS
    <3>3. CASE OnItsWay(c, own)
      <4>1. OnItsWay(c, own)'
        BY <1>1, <1>2, <1>3, <3>3, PublishKeeps DEF m
      <4>2. QED
        BY <1>4, <3>2, <4>1 DEF OnItsWay
    <3>4. QED
      BY <1>5, <2>1, <3>1, <3>2, <3>3 DEF SeenInv
  <2>2. CASE correlationId[c] \notin heard
    <3>1. correlationId[c] = id
      BY <1>5, <2>2 DEF Answer
    <3>2. PICK d \in Clients : connected[d] /\ correlationId[d] = id
      BY <1>5, <2>2 DEF Answer
    <3>3. d = c
      BY <3>1, <3>2 DEF IdInv
    <3>4. OnItsWay(c, id)'
      BY <1>1, <1>2, <1>3, <3>2, <3>3, PublishKeeps DEF m
    <3>5. QED
      BY <1>4, <3>1, <3>4 DEF OnItsWay
  <2>3. QED
    BY <2>1, <2>2
<1>6. QED
  BY <1>4, <1>5 DEF SeenInv, IsWaiting

LEMMA TrafficSeen ==
    ASSUME TypeOK, SeenInv, Traffic
    PROVE  SeenInv'
<1>1. \E i \in Images, m \in Message : Publish(i, m)
  <2>1. /\ OldSession \in Int /\ ImageOf[OldSession] \in Images /\ OtherIds \subseteq Int
        /\ {"OK", "ERROR"} \subseteq Code /\ NoId \in Int
    BY DEF Code
  <2>2. QED
    BY <2>1, MessageType DEF Traffic
<1>2. UNCHANGED <<pc, correlationId, controlResponsePoller, heard>>
  BY DEF Traffic, clientVars, pollVars
<1>3. \A c \in Clients, id \in CorrelationIds : OnItsWay(c, id) => OnItsWay(c, id)'
  BY <1>1, PublishKeeps
<1>4. \A c \in Clients : (IsWaiting(c) /\ correlationId[c] \in heard) => correlationId[c] \in CorrelationIds
  BY DEF TypeOK, StreamTypeOK
<1>5. QED
  BY <1>2, <1>3, <1>4 DEF SeenInv, IsWaiting, Polled, OnItsWay

\* A client's own step takes no answer but into the poller, where it is looked at.
LEMMA OwnStepSeen ==
    ASSUME TypeOK, IdInv, HeardInv, VisitInv, NEW c \in Clients,
           Connect(c) \/ QuietStep(c),
           pc'[c] \in {"awaitConnection", "poll", "fragment"}, correlationId[c] \in heard',
           IsWaiting(c) => OnItsWay(c, correlationId[c]) \/ Polled(c, correlationId[c])
    PROVE  OnItsWay(c, correlationId[c])' \/ Polled(c, correlationId[c])'
<1> USE DEF TypeOK, ClientTypeOK, PollTypeOK
<1> DEFINE p == controlResponsePoller[c]
           id == correlationId[c]
           Seen == OnItsWay(c, id) \/ Polled(c, id)
           SeenNext == OnItsWay(c, id)' \/ Polled(c, id)'
<1>1. ASSUME Connect(c)
      PROVE  FALSE
  BY <1>1 DEF Connect, streamVars, IdInv, HeardInv
<1>2. ASSUME \/ FindSubscription(c) \/ RegistrationFails(c) \/ FailToConnect(c)
             \/ ImageUnavailable(c)
      PROVE  FALSE
  BY <1>2 DEF FindSubscription, RegistrationFails, FailToConnect, ImageUnavailable, Throw, End, Go,
              LoseImages, clientVars
<1>3. correlationId' = correlationId
  BY <1>1, Quiet
<1>4. ASSUME queue' = queue, IsWaiting(c), ~Polled(c, id) \/ (pc'[c] = pc[c] /\ p' = p)
      PROVE  SeenNext
  BY <1>3, <1>4 DEF OnItsWay, Polled
<1>5. ASSUME AwaitConnection(c)
      PROVE  SeenNext
  BY <1>4, <1>5 DEF AwaitConnection, Throw, End, Go, streamVars, IsWaiting, Polled
<1>6. ASSUME Poll(c)
      PROVE  SeenNext
  BY <1>4, <1>6 DEF Poll, streamVars, IsWaiting, Polled
<1>7. ASSUME EmptyImage(c) \/ ImageAvailable(c) \/ DeadlinePasses(c)
      PROVE  SeenNext
  <2>1. queue' = queue /\ pc'[c] = pc[c] /\ p' = p
    BY <1>7 DEF EmptyImage, ImageAvailable, DeadlinePasses, clientVars, pollVars, streamVars
  <2>2. IsWaiting(c)
    BY <2>1 DEF IsWaiting
  <2>3. QED
    BY <1>4, <2>1, <2>2
<1>8. ASSUME AwaitSessionOpened(c)
      PROVE  SeenNext
  <2>1. /\ queue' = queue /\ pc[c] = "fragment"
        /\ ~(p.isPollComplete /\ IsOwnAnswer(c))
    BY <1>8 DEF AwaitSessionOpened, Throw, End, Go, streamVars
  <2>2. ~Polled(c, id) /\ IsWaiting(c)
    BY <2>1 DEF Polled, IsWaiting, IsOwnAnswer
  <2>3. QED
    BY <1>4, <2>1, <2>2
<1>9. ASSUME ResponseFragment(c) \/ AssembleFragment(c) \/ ThrowingFragment(c)
      PROVE  SeenNext
  <2>1. HasFragment(c) /\ pc[c] = "fragment" /\ visit[c] # <<>>
    BY <1>9 DEF ResponseFragment, AssembleFragment, ThrowingFragment, HasFragment, IsPolling
  <2>2. IsWaiting(c) /\ ~Polled(c, id)
    BY <2>1 DEF IsWaiting, VisitInv, Polled
  <2>3. OnItsWay(c, id)
    BY <2>2
  <2>4. TakeFragment(c) /\ pc'[c] = "fragment"
    BY <1>9, <2>1 DEF ResponseFragment, AssembleFragment, ThrowingFragment, Throw, End, Go, clientVars
  <2>5. CASE OnItsWay(c, id)'
    BY <2>5
  <2>6. CASE Fragment(c).template = "ControlResponse" /\ Fragment(c).correlationId = id
    <3>1. ResponseFragment(c)
      BY <1>9, <2>6 DEF AssembleFragment, ThrowingFragment, ResponseHandlerThrows
    <3>2. p' = OnResponseFragment(p, Fragment(c))
      BY <3>1 DEF ResponseFragment
    <3>3. Polled(c, id)'
      BY <1>3, <2>4, <2>6, <3>2 DEF OnResponseFragment, Polled
    <3>4. QED
      BY <3>3
  <2>7. PICK own : own = id
    OBVIOUS
  <2>8. OnItsWay(c, own)' \/ (Fragment(c).template = "ControlResponse" /\ Fragment(c).correlationId = own)
    BY <2>1, <2>3, <2>4, <2>7, TakeKeeps
  <2>9. OnItsWay(c, own)' => OnItsWay(c, id)'
    BY <1>3, <2>7 DEF OnItsWay
  <2>10. QED
    BY <2>5, <2>6, <2>7, <2>8, <2>9
<1>10. QED
  BY <1>1, <1>2, <1>5, <1>6, <1>7, <1>8, <1>9 DEF QuietStep

\* What the others do leaves it where it is.
LEMMA OthersSeen ==
    ASSUME TypeOK, IdInv, NEW c \in Clients, NEW d \in Clients, c # d,
           Construct(c) \/ FindPublication(c) \/ Connect(c) \/ QuietStep(c)
    PROVE  /\ pc'[d] = pc[d] /\ correlationId'[d] = correlationId[d] /\ heard' \subseteq heard
           /\ queue'[d] = queue[d] /\ controlResponsePoller'[d] = controlResponsePoller[d]
<1> USE DEF TypeOK, ClientTypeOK, PollTypeOK, StreamTypeOK
<1>1. CASE Construct(c) \/ FindPublication(c) \/ Connect(c)
  BY <1>1 DEF Construct, FindPublication, Connect, Go, pollVars, streamVars
<1>2. CASE FindSubscription(c) \/ RegistrationFails(c) \/ FailToConnect(c) \/ AwaitConnection(c)
  BY <1>2 DEF FindSubscription, RegistrationFails, FailToConnect, AwaitConnection, Throw, End,
              LoseImages, Go, pollVars, streamVars
<1>3. CASE Poll(c) \/ EmptyImage(c) \/ ResponseFragment(c) \/ AssembleFragment(c) \/ ThrowingFragment(c)
  BY <1>3 DEF Poll, EmptyImage, ResponseFragment, AssembleFragment, ThrowingFragment, TakeFragment,
              Throw, End, LoseImages, Go, clientVars, pollVars, streamVars
<1>4. CASE AwaitSessionOpened(c)
  BY <1>4 DEF AwaitSessionOpened, Throw, End, LoseImages, Go, pollVars, streamVars
<1>5. CASE ImageAvailable(c) \/ ImageUnavailable(c) \/ DeadlinePasses(c)
  BY <1>5 DEF ImageAvailable, ImageUnavailable, DeadlinePasses, LoseImages, clientVars, pollVars,
              streamVars
<1>6. QED
  BY <1>1, <1>2, <1>3, <1>4, <1>5 DEF QuietStep

LEMMA SeenStep ==
    ASSUME TypeOK, IdInv, HeardInv, VisitInv, SeenInv, [Next]_vars
    PROVE  SeenInv'
<1>1. ASSUME NEW c \in Clients, Construct(c) \/ FindPublication(c) \/ Connect(c) \/ QuietStep(c)
      PROVE  SeenInv'
  <2>1. ASSUME NEW d \in Clients, IsWaiting(d)', correlationId'[d] \in heard'
        PROVE  OnItsWay(d, correlationId[d])' \/ Polled(d, correlationId[d])'
    <3>1. CASE d # c
      <4>1. /\ pc'[d] = pc[d] /\ correlationId'[d] = correlationId[d] /\ heard' \subseteq heard
            /\ queue'[d] = queue[d] /\ controlResponsePoller'[d] = controlResponsePoller[d]
        BY <1>1, <3>1, OthersSeen
      <4>2. OnItsWay(d, correlationId[d]) \/ Polled(d, correlationId[d])
        BY <2>1, <4>1 DEF SeenInv, IsWaiting
      <4>3. QED
        BY <4>1, <4>2 DEF OnItsWay, Polled
    <3>2. CASE d = c
      <4>1. ASSUME Construct(c) \/ FindPublication(c)
            PROVE  FALSE
        BY <2>1, <3>2, <4>1 DEF Construct, FindPublication, Go, IsWaiting, TypeOK, ClientTypeOK
      <4>2. Connect(c) \/ QuietStep(c)
        BY <1>1, <4>1
      <4>3. correlationId' = correlationId
        BY <4>2, Quiet DEF Connect
      <4>4. IsWaiting(c) => correlationId[c] \in heard
        <5>1. heard' \subseteq heard
          BY <4>2 DEF QuietStep, Connect, FindSubscription, RegistrationFails, FailToConnect,
                AwaitConnection, Poll, EmptyImage, ResponseFragment, AssembleFragment,
                ThrowingFragment, AwaitSessionOpened, ImageAvailable, ImageUnavailable,
                DeadlinePasses, Throw, End, LoseImages, streamVars
        <5>2. QED
          BY <2>1, <3>2, <4>3, <5>1
      <4>5. IsWaiting(c) => OnItsWay(c, correlationId[c]) \/ Polled(c, correlationId[c])
        BY <4>4 DEF SeenInv
      <4>6. pc'[c] \in {"awaitConnection", "poll", "fragment"} /\ correlationId[c] \in heard'
        BY <2>1, <3>2, <4>3 DEF IsWaiting
      <4>7. QED
        BY <3>2, <4>2, <4>5, <4>6, OwnStepSeen
    <3>3. QED
      BY <3>1, <3>2
  <2>2. QED
    BY <2>1 DEF SeenInv
<1>2. CASE UNCHANGED vars
  BY <1>2 DEF vars, clientVars, pollVars, streamVars, SeenInv, IsWaiting, OnItsWay, Polled
<1>3. QED
  BY <1>1, <1>2, AnswerSeen, TrafficSeen, NextCases

\* With one image, an answer that reached the subscription of a constructor that
\* waits is still to be handled or is looked at next, whatever came before it.
THEOREM AnswersAreSeen ==
    ASSUME Cardinality(Images) = 1
    PROVE  Spec => []AnswerIsSeen
<1> DEFINE Inv == HeardInv /\ VisitInv /\ SeenInv
<1>1. Init => Inv
  <2> SUFFICES ASSUME Init PROVE Inv
    OBVIOUS
  <2>1. Len(<<>>) = 0
    BY EmptySeq
  <2>2. HeardInv /\ VisitInv /\ SeenInv
    BY <2>1 DEF Init, HeardInv, VisitInv, SeenInv, IsWaiting
  <2>3. QED
    BY <2>2
<1>2. IInv /\ Inv /\ [Next]_vars => Inv'
  BY HeardStep, VisitStep, SeenStep DEF IInv
<1>3. Inv => AnswerIsSeen
  BY DEF SeenInv, IsWaiting, OnItsWay, Polled, IsOwnAnswer, AnswerIsSeen
<1>4. QED
  BY <1>1, <1>2, <1>3, InductiveInvariant, PTL DEF Spec

-----------------------------------------------------------------------------
(***************************************************************************)
(* The constructors implement ArchiveSessions: Connect is Ask, the own     *)
(* answer is Open or Refused, what else throws after the request is        *)
(* GiveUp, and the polling stutters.                                       *)
(***************************************************************************)
State == [c \in Clients |-> IF IsOver(pc[c]) THEN pc[c] ELSE "connecting"]

\* Before it has drawn an id an attempt has none, and when it waits its request
\* has reached the archive.
AttemptInv ==
    \A c \in Clients :
        /\ pc[c] \in {"findSubscription", "findPublication"} => correlationId[c] = NoId
        /\ pc[c] \in {"awaitConnection", "poll", "fragment"} =>
             archive[correlationId[c]].status # "unsent"

LEMMA AttemptStep ==
    ASSUME TypeOK, IdInv, AttemptInv, [Next]_vars
    PROVE  AttemptInv'
<1> USE DEF TypeOK, ClientTypeOK, ArchiveTypeOK, AttemptInv
<1>1. ASSUME NEW c \in Clients, Construct(c)
      PROVE  AttemptInv'
  BY <1>1 DEF Construct, Go, archiveVars
<1>2. ASSUME NEW c \in Clients, FindPublication(c)
      PROVE  AttemptInv'
  BY <1>2 DEF FindPublication, Go, archiveVars
<1>3. ASSUME NEW c \in Clients, Connect(c)
      PROVE  AttemptInv'
  <2>1. /\ correlationId' = correlationId /\ correlationId[c] \in CorrelationIds
        /\ pc' = [pc EXCEPT ![c] = "awaitConnection"]
        /\ archive' = [archive EXCEPT ![correlationId[c]].status = "pending"]
    BY <1>3 DEF Connect, Go, IdInv
  <2>2. \A id \in CorrelationIds : archive[id].status # "unsent" => archive'[id].status # "unsent"
    BY <2>1
  <2>3. \A d \in Clients : pc[d] \in {"awaitConnection", "poll", "fragment"} =>
                            correlationId[d] \in CorrelationIds
    BY DEF IdInv
  <2>4. QED
    BY <2>1, <2>2, <2>3
<1>4. ASSUME NEW c \in Clients, QuietStep(c)
      PROVE  AttemptInv'
  <2>1. UNCHANGED <<correlationId, archive>> /\ \A d \in Clients : d # c => pc'[d] = pc[d]
    BY <1>4, Quiet
  <2>2. pc'[c] \in {"findSubscription", "findPublication"} =>
          pc[c] \in {"findSubscription", "findPublication"}
    BY <1>4 DEF QuietStep, FindSubscription, RegistrationFails, FailToConnect, AwaitConnection,
                Poll, EmptyImage, ResponseFragment, AssembleFragment, ThrowingFragment,
                AwaitSessionOpened, ImageAvailable, ImageUnavailable, DeadlinePasses, Throw, End, Go,
                clientVars
  <2>3. pc'[c] \in {"awaitConnection", "poll", "fragment"} =>
          pc[c] \in {"awaitConnection", "poll", "fragment"}
    BY <1>4, Quiet
  <2>4. QED
    BY <2>1, <2>2, <2>3
<1>5. ASSUME NEW id \in CorrelationIds, Answer(id)
      PROVE  AttemptInv'
  <2>1. /\ UNCHANGED <<pc, correlationId>>
        /\ \A i \in CorrelationIds : archive[i].status # "unsent" => archive'[i].status # "unsent"
    BY <1>5 DEF Answer, clientVars
  <2>2. \A d \in Clients : pc[d] \in {"awaitConnection", "poll", "fragment"} =>
                            correlationId[d] \in CorrelationIds
    BY DEF IdInv
  <2>3. QED
    BY <2>1, <2>2
<1>6. CASE Traffic \/ UNCHANGED vars
  BY <1>6, TrafficIsQuiet DEF clientVars
<1>7. QED
  BY <1>1, <1>2, <1>3, <1>4, <1>5, <1>6, NextCases

LEMMA OpenedInit == Init => Opened!Init
BY DEF Init, Opened!Init, IsOver

\* What is seen of a constructor that goes from one place to the next.
LEMMA StateStep ==
    ASSUME TypeOK, NEW c \in Clients, NEW label, Go(c, label)
    PROVE  State' = [State EXCEPT ![c] = IF IsOver(label) THEN label ELSE "connecting"]
<1>1. pc' = [pc EXCEPT ![c] = label] /\ DOMAIN pc = Clients
  BY DEF Go, TypeOK, ClientTypeOK
<1>2. \A d \in Clients : pc'[d] = IF d = c THEN label ELSE pc[d]
  BY <1>1
<1>3. QED
  BY <1>2 DEF State

\* Steps that ArchiveSessions does not see.
LEMMA OpenedStutters ==
    ASSUME State' = State,
           UNCHANGED <<how, correlationId, controlSessionId, nextCorrelationId, archive, nextSession>>
    PROVE  UNCHANGED Opened!vars
BY DEF Opened!vars, State

\* A step within the constructor that tells nobody.
LEMMA StepStutters ==
    ASSUME TypeOK, NEW c \in Clients, ~IsOver(pc[c]), NEW label, ~IsOver(label), Go(c, label),
           UNCHANGED <<how, correlationId, controlSessionId, nextCorrelationId, archiveVars>>
    PROVE  UNCHANGED Opened!vars
<1>1. State' = [State EXCEPT ![c] = "connecting"]
  BY StateStep
<1>2. State[c] = "connecting"
  BY DEF State
<1>3. State' = State
  BY <1>1, <1>2 DEF State
<1>4. QED
  BY <1>3, OpenedStutters DEF archiveVars

\* A constructor that throws ends there, and nothing else that ArchiveSessions sees.
LEMMA ThrowFails ==
    ASSUME TypeOK, NEW c \in Clients, NEW reason, Throw(c, reason), UNCHANGED archiveVars
    PROVE  Opened!Fail(c, reason)
<1>1. State' = [State EXCEPT ![c] = "failed"]
  BY StateStep DEF Throw, End, IsOver
<1>2. /\ how' = [how EXCEPT ![c] = reason]
      /\ UNCHANGED <<correlationId, controlSessionId, nextCorrelationId, archive, nextSession>>
  BY DEF Throw, End, archiveVars
<1>3. QED
  BY <1>1, <1>2 DEF Opened!Fail, Opened!End, State

\* It throws after the request, so the archive may have a session for it.
LEMMA ThrowGivesUp ==
    ASSUME TypeOK, IdInv, AttemptInv, NEW c \in Clients,
           pc[c] \in {"awaitConnection", "poll", "fragment"}, UNCHANGED archiveVars,
           NEW reason \in {"notConnected", "timeout", "disconnected", "unknownTemplate"},
           Throw(c, reason)
    PROVE  Opened!GiveUp(c)
<1>1. correlationId[c] \in CorrelationIds /\ archive[correlationId[c]].status # "unsent"
  BY DEF TypeOK, ClientTypeOK, IdInv, AttemptInv
<1>2. State[c] = "connecting"
  BY DEF State, IsOver
<1>3. Opened!IsAsking(c) /\ ~Opened!Became(c, "unsent")
  BY <1>1, <1>2 DEF Opened!IsAsking, Opened!IsConnecting, Opened!Became, State
<1>4. Opened!Fail(c, reason)
  BY ThrowFails
<1>5. QED
  BY <1>3, <1>4 DEF Opened!GiveUp

LEMMA RegistrationOpened ==
    ASSUME TypeOK, IdInv, AttemptInv, NEW c \in Clients,
           \/ Construct(c) \/ FindSubscription(c) \/ FindPublication(c) \/ RegistrationFails(c)
           \/ Connect(c) \/ FailToConnect(c) \/ AwaitConnection(c)
    PROVE  Opened!Next \/ UNCHANGED Opened!vars
<1>1. CASE Construct(c)
  <2>1. State' = [State EXCEPT ![c] = "connecting"]
    BY <1>1, StateStep DEF Construct, IsOver
  <2>2. State[c] \in {"new", "failed"}
    BY <1>1 DEF Construct, State, IsOver
  <2>3. /\ how' = [how EXCEPT ![c] = "none"] /\ correlationId' = [correlationId EXCEPT ![c] = NoId]
        /\ UNCHANGED <<controlSessionId, nextCorrelationId, archive, nextSession>>
    BY <1>1 DEF Construct, archiveVars
  <2>4. Opened!Try(c)
    BY <2>1, <2>2, <2>3 DEF Opened!Try, State
  <2>5. QED
    BY <2>4 DEF Opened!Next
<1>2. CASE FindSubscription(c)
  BY <1>2, StepStutters DEF FindSubscription, IsOver
<1>3. CASE FindPublication(c)
  <2>1. State' = [State EXCEPT ![c] = "connecting"] /\ State[c] = "connecting"
    BY <1>3, StateStep DEF FindPublication, IsOver, State
  <2>2. State' = State
    BY <2>1 DEF State
  <2>3. /\ correlationId[c] = NoId /\ nextCorrelationId \in CorrelationIds
        /\ nextCorrelationId' = nextCorrelationId + 1
        /\ correlationId' = [correlationId EXCEPT ![c] = nextCorrelationId]
        /\ UNCHANGED <<how, controlSessionId, archive, nextSession>>
    BY <1>3 DEF FindPublication, AttemptInv, archiveVars
  <2>4. nextCorrelationId - 1 + 1 = nextCorrelationId
        /\ nextCorrelationId' - 1 = nextCorrelationId
    BY <2>3
  <2>5. Opened!DrawId(c)
    BY <2>1, <2>2, <2>3, <2>4 DEF Opened!DrawId, Opened!IsConnecting, State
  <2>6. QED
    BY <2>5 DEF Opened!Next
<1>4. CASE RegistrationFails(c)
  <2>1. State[c] = "connecting" /\ correlationId[c] = NoId
    BY <1>4 DEF RegistrationFails, State, IsOver, AttemptInv
  <2>2. Opened!Fail(c, "registration")
    BY <1>4, ThrowFails DEF RegistrationFails
  <2>3. Opened!FailToRegister(c)
    BY <2>1, <2>2 DEF Opened!FailToRegister, Opened!IsConnecting, State
  <2>4. QED
    BY <2>3 DEF Opened!Next
<1>5. CASE pc[c] = "connect" /\ (Connect(c) \/ FailToConnect(c))
  <2>1. correlationId[c] \in CorrelationIds /\ archive[correlationId[c]].status = "unsent"
    BY <1>5 DEF IdInv, TypeOK, ClientTypeOK
  <2>2. State[c] = "connecting"
    BY <1>5 DEF State, IsOver
  <2>3. Opened!IsAsking(c) /\ Opened!Became(c, "unsent")
    BY <2>1, <2>2 DEF Opened!IsAsking, Opened!IsConnecting, Opened!Became, State
  <2>4. CASE Connect(c)
    <3>1. State' = [State EXCEPT ![c] = "connecting"]
      BY <2>4, StateStep DEF Connect, IsOver
    <3>2. State' = State
      BY <2>2, <3>1 DEF State
    <3>3. Opened!Ask(c)
      BY <2>3, <2>4, <3>2 DEF Connect, Opened!Ask, State
    <3>4. QED
      BY <3>3 DEF Opened!Next
  <2>5. CASE FailToConnect(c)
    <3>1. Opened!Fail(c, "notSent")
      BY <2>5, ThrowFails DEF FailToConnect
    <3>2. QED
      BY <2>3, <3>1 DEF Opened!FailToAsk, Opened!Next
  <2>6. QED
    BY <1>5, <2>4, <2>5
<1>6. CASE AwaitConnection(c)
  <2>1. CASE Throw(c, "notConnected")
    BY <1>6, <2>1, ThrowGivesUp DEF AwaitConnection, Opened!Next
  <2>2. CASE ~Throw(c, "notConnected")
    BY <1>6, <2>2, StepStutters DEF AwaitConnection, IsOver
  <2>3. QED
    BY <2>1, <2>2
<1>7. QED
  BY <1>1, <1>2, <1>3, <1>4, <1>5, <1>6 DEF Connect, FailToConnect

LEMMA PollingOpened ==
    ASSUME TypeOK, IdInv, AttemptInv, PollerInv, NEW c \in Clients, [Next]_vars,
           \/ Poll(c) \/ EmptyImage(c) \/ ResponseFragment(c) \/ AssembleFragment(c)
           \/ ThrowingFragment(c) \/ AwaitSessionOpened(c)
    PROVE  Opened!Next \/ UNCHANGED Opened!vars
<1>1. CASE Poll(c)
  BY <1>1, StepStutters DEF Poll, IsOver
<1>2. ASSUME UNCHANGED clientVars, UNCHANGED archiveVars
      PROVE  UNCHANGED Opened!vars
  BY <1>2, OpenedStutters DEF clientVars, archiveVars, State
<1>3. CASE EmptyImage(c) \/ ResponseFragment(c) \/ AssembleFragment(c)
  BY <1>2, <1>3 DEF EmptyImage, ResponseFragment, AssembleFragment
<1>4. CASE ThrowingFragment(c)
  <2>1. pc[c] = "fragment" /\ UNCHANGED archiveVars
    BY <1>4 DEF ThrowingFragment, HasFragment, IsPolling
  <2>2. CASE Throw(c, "unknownTemplate")
    BY <2>1, <2>2, ThrowGivesUp DEF Opened!Next
  <2>3. CASE UNCHANGED clientVars
    BY <1>2, <2>1, <2>3
  <2>4. QED
    BY <1>4, <2>2, <2>3 DEF ThrowingFragment
<1>5. CASE AwaitSessionOpened(c)
  <2> DEFINE p == controlResponsePoller[c]
  <2>1. pc[c] = "fragment" /\ UNCHANGED archiveVars
    BY <1>5 DEF AwaitSessionOpened
  <2>2. State[c] = "connecting"
    BY <2>1 DEF State, IsOver
  <2>3. ASSUME IsOwnAnswer(c)
        PROVE  /\ Opened!IsAsking(c)
               /\ archive[correlationId[c]] =
                    [status |-> IF p.code = "OK" THEN "opened" ELSE "refused",
                     session |-> p.controlSessionId]
    <3>1. /\ correlationId[c] \in CorrelationIds
          /\ archive[correlationId[c]] =
               [status |-> IF p.code = "OK" THEN "opened" ELSE "refused",
                session |-> p.controlSessionId]
      BY <1>5, <2>3, OwnAnswer
    <3>2. QED
      BY <2>2, <3>1 DEF Opened!IsAsking, Opened!IsConnecting, State
  <2>4. CASE /\ IsOwnAnswer(c) /\ p.code = "OK" /\ End(c, "open", "open")
             /\ controlSessionId' = [controlSessionId EXCEPT ![c] = p.controlSessionId]
    <3>1. archive[correlationId[c]] = [status |-> "opened", session |-> p.controlSessionId]
      BY <2>3, <2>4
    <3>2. State' = [State EXCEPT ![c] = "open"]
      BY <2>4, StateStep DEF End, IsOver
    <3>3. /\ how' = [how EXCEPT ![c] = "open"]
          /\ UNCHANGED <<correlationId, nextCorrelationId, archive, nextSession>>
      BY <2>1, <2>4 DEF End, archiveVars
    <3>4. Opened!End(c, "open", "open")
      BY <3>2, <3>3 DEF Opened!End, State
    <3>5. Opened!Open(c)
      BY <2>3, <2>4, <3>1, <3>4 DEF Opened!Open, Opened!Became
    <3>6. QED
      BY <3>5 DEF Opened!Next
  <2>5. CASE IsOwnAnswer(c) /\ p.code # "OK" /\ Throw(c, "refused")
    <3>1. archive[correlationId[c]].status = "refused"
      BY <2>3, <2>5
    <3>2. Opened!Fail(c, "refused")
      BY <2>1, <2>5, ThrowFails
    <3>3. QED
      BY <2>3, <2>5, <3>1, <3>2 DEF Opened!Refused, Opened!Became, Opened!Next
  <2>6. ASSUME NEW reason \in {"timeout", "disconnected"}, Throw(c, reason)
        PROVE  Opened!Next
    BY <2>1, <2>6, ThrowGivesUp DEF Opened!Next
  <2>7. CASE /\ Go(c, "poll")
             /\ UNCHANGED <<how, correlationId, controlSessionId, nextCorrelationId>>
    BY <2>1, <2>7, StepStutters DEF IsOver
  <2>8. QED
    BY <1>5, <2>4, <2>5, <2>6, <2>7 DEF AwaitSessionOpened
<1>6. QED
  BY <1>1, <1>3, <1>4, <1>5

LEMMA OutsideOpened ==
    ASSUME TypeOK,
           \/ \E c \in Clients : ImageAvailable(c) \/ ImageUnavailable(c) \/ DeadlinePasses(c)
           \/ \E id \in CorrelationIds : Answer(id)
           \/ Traffic \/ UNCHANGED vars
    PROVE  Opened!Next \/ UNCHANGED Opened!vars
<1>1. ASSUME UNCHANGED clientVars, UNCHANGED <<archive, nextSession>>
      PROVE  UNCHANGED Opened!vars
  BY <1>1, OpenedStutters DEF clientVars, State
<1>2. ASSUME NEW c \in Clients, ImageAvailable(c) \/ ImageUnavailable(c) \/ DeadlinePasses(c)
      PROVE  UNCHANGED Opened!vars
  BY <1>1, <1>2 DEF ImageAvailable, ImageUnavailable, DeadlinePasses, archiveVars
<1>3. ASSUME NEW id \in CorrelationIds, Answer(id)
      PROVE  Opened!Next
  <2>1. \E code \in {"OK", "ERROR"} :
          archive' = [archive EXCEPT ![id] = [status |-> IF code = "OK" THEN "opened" ELSE "refused",
                                              session |-> nextSession]]
    BY <1>3 DEF Answer
  <2>2. \E status \in {"opened", "refused"} :
          archive' = [archive EXCEPT ![id] = [status |-> status, session |-> nextSession]]
    BY <2>1
  <2>3. archive[id].status = "pending" /\ nextSession' = nextSession + 1
    BY <1>3 DEF Answer
  <2>4. UNCHANGED <<pc, how, correlationId, controlSessionId, nextCorrelationId>>
    BY <1>3 DEF Answer, clientVars
  <2>5. Opened!Answer(id)
    BY <2>2, <2>3, <2>4 DEF Opened!Answer
  <2>6. QED
    BY <2>5 DEF Opened!Next
<1>4. CASE Traffic \/ UNCHANGED vars
  BY <1>1, <1>4, TrafficIsQuiet
<1>5. QED
  BY <1>2, <1>3, <1>4

LEMMA OpenedStep == IInv /\ AttemptInv /\ [Next]_vars => [Opened!Next]_(Opened!vars)
<1> SUFFICES ASSUME IInv, AttemptInv, [Next]_vars
             PROVE  Opened!Next \/ UNCHANGED Opened!vars
  OBVIOUS
<1>1. TypeOK /\ IdInv /\ PollerInv
  BY DEF IInv
<1>2. QED
  BY <1>1, RegistrationOpened, PollingOpened, OutsideOpened DEF Next, ClientStep

\* Whatever else is on the stream and however attempts overlap: a constructor
\* asks at most once for an attempt, returns with the session that was opened for
\* it, and blames the archive only for a refusal of its own.
THEOREM SessionRefinement == Spec => ImplementsSessions
<1>1. Init => AttemptInv
  BY DEF Init, AttemptInv
<1>2. IInv /\ AttemptInv /\ [Next]_vars => AttemptInv'
  BY AttemptStep DEF IInv
<1>3. QED
  BY <1>1, <1>2, OpenedInit, OpenedStep, InductiveInvariant, PTL
     DEF Spec, ImplementsSessions, Opened!Spec
=============================================================================
