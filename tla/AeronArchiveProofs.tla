-------------------------- MODULE AeronArchiveProofs --------------------------
(***************************************************************************)
(* Proofs about AeronArchive for any number of threads, sessions, images,  *)
(* requests and messages.                                                  *)
(***************************************************************************)
EXTENDS AeronArchive, SequenceTheorems, FiniteSetTheorems, TLAPS

USE SessionAssumption, DataAssumption, BoundAssumption
    DEF SessionAssumption, DataAssumption, BoundAssumption, NoId, NoTemplate

-----------------------------------------------------------------------------
(***************************************************************************)
(* Lemmas about the pieces that several actions share.                     *)
(***************************************************************************)
\* A poll visits images only.
LEMMA VisitOrdersType == VisitOrders \subseteq Seq(Images)
<1>1. Cardinality(Images) \in Nat
  BY FS_CardinalityType
<1>2. QED
  BY <1>1, SeqDef DEF VisitOrders

\* What the archive and the pollers pass around is a message.
LEMMA MessageType ==
    /\ \A s, c, v \in Int : \A code \in Code :
         ControlResponse(s, c, code, v) \in Message
    /\ \A s, c, v \in Int : RecordingDescriptor(s, c, v) \in Message
    /\ UnknownMessage \in Message
    /\ PartialMessage \in Message
BY DEF ControlResponse, RecordingDescriptor, UnknownMessage, PartialMessage, Message, Code, Template

\* The pollers' own operations keep the pollers in type.
LEMMA ResetPollType ==
    ASSUME NEW p \in ResponsePoller
    PROVE  ResetPoll(p) \in ResponsePoller
<1>1. NoId \in Int /\ NoTemplate \in Template \cup {NoTemplate}
  OBVIOUS
<1>2. QED
  BY <1>1, Zenon DEF ResponsePoller, ResetPoll

LEMMA OnResponseFragmentType ==
    ASSUME NEW p \in ResponsePoller, NEW m \in Message
    PROVE  OnResponseFragment(p, m) \in ResponsePoller
BY DEF ResponsePoller, OnResponseFragment, Message

LEMMA ResetDispatchType ==
    ASSUME NEW p \in DescriptorPoller, NEW c \in Int, NEW n \in Int
    PROVE  ResetDispatch(p, c, n, c) \in DescriptorPoller
BY Zenon DEF DescriptorPoller, ResetDispatch

LEMMA OnDescriptorFragmentType ==
    ASSUME NEW p \in DescriptorPoller, NEW m \in Message
    PROVE  OnDescriptorFragment(p, m) \in DescriptorPoller
<1>1. (IF IsDispatched(p, m) THEN p.remainingRecordCount - 1 ELSE p.remainingRecordCount) \in Int
  BY DEF DescriptorPoller
<1>2. (p.isDispatchComplete \/ BreaksPoll(p, m)) \in BOOLEAN
  OBVIOUS
<1>3. QED
  BY <1>1, <1>2, Zenon DEF DescriptorPoller, OnDescriptorFragment

\* However a call ends, the state of the threads and the locals stay in type.
LEMMA LeaveType ==
    ASSUME ThreadTypeOK, NEW t \in Threads,
           NEW how \in {"value", "count", "error", "unexpected", "timeout", "disconnected",
                        "notSent", "unknownTemplate", "noError", "reported"},
           NEW value \in Int, NEW cause \in Int,
           Leave(t, how, value, cause)
    PROVE  /\ ThreadTypeOK'
           /\ existingRemainCount' \in Int /\ expired' \in BOOLEAN
           /\ visit' \in Seq(Images) /\ fragments' \in 0..FragmentLimit
<1>1. NoRequest \in [kind : Kind, count : Nat, correlationId : Int]
  BY DEF NoRequest, Kind
<1>2. ThreadTypeOK'
  <2>1. request[t].correlationId \in Int
    BY DEF ThreadTypeOK
  <2>2. QED
    BY <1>1, <2>1 DEF ThreadTypeOK, Leave, Go
<1>3. visit' \in Seq(Images)
  BY EmptySeq DEF Leave
<1>4. existingRemainCount' \in Int
  BY DEF Leave
<1>5. expired' \in BOOLEAN
  BY DEF Leave
<1>6. fragments' \in 0..FragmentLimit
  BY DEF Leave
<1>7. QED
  BY <1>2, <1>3, <1>4, <1>5, <1>6

LEMMA PollAgainType ==
    ASSUME ThreadTypeOK, NEW t \in Threads, PollAgain(t)
    PROVE  ThreadTypeOK' /\ fragments' \in 0..FragmentLimit /\ visit' = visit
BY DEF ThreadTypeOK, PollAgain, Go

\* Taking a fragment off an image, or putting a message on one.
LEMMA TakeFragmentType ==
    ASSUME PollTypeOK, StreamTypeOK, NEW t \in Threads, HasFragment(t), TakeFragment
    PROVE  /\ Image \in Images /\ Fragment \in Message /\ Tail(visit) \in Seq(Images)
           /\ queue' \in [Images -> Seq(Message)]
           /\ fragments + 1 \in 0..FragmentLimit
BY HeadTailProperties
   DEF PollTypeOK, StreamTypeOK, HasFragment, TakeFragment, Image, Fragment

LEMMA DeliverType ==
    ASSUME StreamTypeOK, NEW i \in Images, NEW m \in Message, Deliver(i, m)
    PROVE  queue' \in [Images -> Seq(Message)]
BY DEF StreamTypeOK, Deliver

-----------------------------------------------------------------------------
LEMMA InitType == Init => TypeOK
<1> SUFFICES ASSUME Init PROVE TypeOK
  OBVIOUS
<1>1. ThreadTypeOK
  BY DEF Init, ThreadTypeOK, NoRequest, NoResult, Kind
<1>2. PollTypeOK
  <2>1. visit \in Seq(Images)
    BY EmptySeq DEF Init
  <2>2. controlResponsePoller \in ResponsePoller
    BY DEF Init, ResponsePoller, Template, Code
  <2>3. recordingDescriptorPoller \in DescriptorPoller
    BY DEF Init, DescriptorPoller, NewDescriptorPoller
  <2>4. existingRemainCount \in Int /\ fragments \in 0..FragmentLimit
    BY DEF Init
  <2>5. expired \in BOOLEAN
    BY DEF Init
  <2>6. QED
    BY <2>1, <2>2, <2>3, <2>4, <2>5 DEF PollTypeOK
<1>3. StreamTypeOK
  <2>1. queue \in [Images -> Seq(Message)] /\ delivered \in [CorrelationIds -> Seq(Int)]
    BY EmptySeq DEF Init
  <2>2. QED
    BY <2>1 DEF Init, StreamTypeOK, Unsent, Kind
<1>4. QED
  BY <1>1, <1>2, <1>3 DEF TypeOK

(***************************************************************************)
(* One lemma per group of actions: what each of them does to the types.    *)
(***************************************************************************)
LEMMA CallType ==
    ASSUME TypeOK, NEW t \in Threads, Call(t)
    PROVE  TypeOK'
<1> USE DEF TypeOK
<1>1. PICK r \in Requests : request' = [request EXCEPT ![t] = r]
  BY DEF Call
<1>2. r \in [kind : Kind, count : Nat, correlationId : Int]
  <2>1. CASE r \in [kind : Kinds \ {"descriptors"}, count : {0}, correlationId : {NoId}]
    BY <2>1
  <2>2. CASE r \in [kind : Kinds \cap {"descriptors"}, count : RecordCounts, correlationId : {NoId}]
    <3>1. r.kind \in Kind /\ r.count \in Nat
      BY <2>2
    <3>2. r.correlationId = NoId
      BY <2>2
    <3>3. r = [kind |-> r.kind, count |-> r.count, correlationId |-> r.correlationId]
      BY <2>2
    <3>4. QED
      BY <3>1, <3>2, <3>3
  <2>3. QED
    BY <2>1, <2>2 DEF Requests
<1>3. ThreadTypeOK'
  BY <1>1, <1>2 DEF ThreadTypeOK, Call, Go
<1>4. PollTypeOK' /\ StreamTypeOK'
  BY DEF Call, PollTypeOK, StreamTypeOK, pollerVars, pollVars, archiveVars
<1>5. QED
  BY <1>3, <1>4

LEMMA LockType ==
    ASSUME TypeOK, NEW t \in Threads, Lock(t)
    PROVE  TypeOK'
<1> USE DEF TypeOK
<1>1. ThreadTypeOK'
  <2>1. nextCorrelationId' \in 1..(MaxCorrelationId + 1)
    BY DEF ThreadTypeOK, Lock, CorrelationIds
  <2>2. request' \in [Threads -> [kind : Kind, count : Nat, correlationId : Int]]
    BY DEF ThreadTypeOK, Lock
  <2>3. pc' \in [Threads -> {"idle", "lock", "send", "poll", "fragment"}]
    BY DEF ThreadTypeOK, Lock, Go
  <2>4. lock' \in Threads \cup {Nobody} /\ result' = NoResult
    BY DEF Lock
  <2>5. QED
    BY <2>1, <2>2, <2>3, <2>4 DEF ThreadTypeOK, NoResult
<1>2. PollTypeOK' /\ StreamTypeOK'
  BY DEF Lock, PollTypeOK, StreamTypeOK, pollerVars, pollVars, archiveVars
<1>3. QED
  BY <1>1, <1>2

LEMMA SendType ==
    ASSUME TypeOK, NEW t \in Threads, Send(t)
    PROVE  TypeOK'
<1> USE DEF TypeOK
<1>1. request[t] \in [kind : Kind, count : Nat, correlationId : Int]
  BY DEF ThreadTypeOK
<1>2. ThreadTypeOK'
  BY DEF ThreadTypeOK, Send, Go
<1>3. PollTypeOK'
  <2>1. recordingDescriptorPoller' \in DescriptorPoller
    BY <1>1, ResetDispatchType DEF PollTypeOK, Send
  <2>2. existingRemainCount' \in Int
    BY <1>1 DEF PollTypeOK, Send
  <2>3. expired' \in BOOLEAN
    BY DEF Send
  <2>4. QED
    BY <2>1, <2>2, <2>3 DEF PollTypeOK, Send, pollVars
<1>4. StreamTypeOK'
  BY <1>1 DEF StreamTypeOK, Send
<1>5. QED
  BY <1>2, <1>3, <1>4

LEMMA FailToSendType ==
    ASSUME TypeOK, NEW t \in Threads, FailToSend(t)
    PROVE  TypeOK'
<1> USE DEF TypeOK
<1>1. Leave(t, "notSent", NoId, NoId)
  BY DEF FailToSend
<1>2. PollTypeOK' /\ ThreadTypeOK'
  BY <1>1, LeaveType DEF PollTypeOK, FailToSend
<1>3. StreamTypeOK'
  BY DEF FailToSend, StreamTypeOK, archiveVars
<1>4. QED
  BY <1>2, <1>3

LEMMA PollType ==
    ASSUME TypeOK, NEW t \in Threads, Poll(t)
    PROVE  TypeOK'
<1> USE DEF TypeOK
<1>1. ThreadTypeOK'
  BY DEF ThreadTypeOK, Poll, Go
<1>2. PollTypeOK'
  <2>1. controlResponsePoller' \in ResponsePoller
    BY ResetPollType DEF PollTypeOK, Poll
  <2>2. recordingDescriptorPoller' \in DescriptorPoller
    BY DEF PollTypeOK, Poll, DescriptorPoller
  <2>3. visit' \in Seq(Images)
    BY VisitOrdersType DEF Poll
  <2>4. QED
    BY <2>1, <2>2, <2>3 DEF PollTypeOK, Poll
<1>3. StreamTypeOK'
  BY DEF StreamTypeOK, Poll, archiveVars
<1>4. QED
  BY <1>1, <1>2, <1>3

LEMMA NextImageType ==
    ASSUME TypeOK, NEW t \in Threads, NextImage(t)
    PROVE  TypeOK'
<1> USE DEF TypeOK
<1>1. visit' \in Seq(Images)
  BY HeadTailProperties DEF PollTypeOK, NextImage
<1>2. QED
  BY <1>1 DEF NextImage, ThreadTypeOK, PollTypeOK, StreamTypeOK, threadVars, pollerVars, archiveVars

LEMMA FragmentType ==
    ASSUME TypeOK, NEW t \in Threads,
           AssembleFragment(t) \/ ResponseFragment(t) \/ DescriptorFragment(t)
    PROVE  TypeOK'
<1> USE DEF TypeOK
<1>1. HasFragment(t) /\ TakeFragment
  BY DEF AssembleFragment, ResponseFragment, DescriptorFragment
<1>2. /\ Fragment \in Message /\ Tail(visit) \in Seq(Images)
      /\ queue' \in [Images -> Seq(Message)]
      /\ fragments + 1 \in 0..FragmentLimit
  BY <1>1, TakeFragmentType
<1>3. ThreadTypeOK'
  BY DEF AssembleFragment, ResponseFragment, DescriptorFragment, threadVars, ThreadTypeOK
<1>4. controlResponsePoller' \in ResponsePoller
  BY <1>2, OnResponseFragmentType
     DEF AssembleFragment, ResponseFragment, DescriptorFragment, PollTypeOK, pollerVars
<1>5. recordingDescriptorPoller' \in DescriptorPoller
  BY <1>2, OnDescriptorFragmentType
     DEF AssembleFragment, ResponseFragment, DescriptorFragment, PollTypeOK, pollerVars
<1>6. visit' \in Seq(Images) /\ fragments' \in 0..FragmentLimit
  BY <1>2 DEF AssembleFragment, ResponseFragment, DescriptorFragment, PollTypeOK
<1>7. existingRemainCount' = existingRemainCount /\ expired' = expired
  BY DEF AssembleFragment, ResponseFragment, DescriptorFragment, pollerVars
<1>8. PollTypeOK'
  BY <1>4, <1>5, <1>6, <1>7 DEF PollTypeOK
<1>9. delivered' \in [CorrelationIds -> Seq(Int)]
  <2>1. Fragment.relevantId \in Int
    BY <1>2 DEF Message
  <2>2. delivered \in [CorrelationIds -> Seq(Int)]
    BY DEF StreamTypeOK
  <2>3. \A c \in CorrelationIds : Append(delivered[c], Fragment.relevantId) \in Seq(Int)
    BY <2>1, <2>2
  <2>4. \/ delivered' = delivered
        \/ delivered' = [delivered EXCEPT ![recordingDescriptorPoller.consumer] =
                            Append(@, Fragment.relevantId)]
    BY DEF AssembleFragment, ResponseFragment, DescriptorFragment
  <2>5. CASE delivered' = delivered
    BY <2>2, <2>5
  <2>6. CASE delivered' = [delivered EXCEPT ![recordingDescriptorPoller.consumer] =
                             Append(@, Fragment.relevantId)]
    BY <2>2, <2>3, <2>6, Zenon
  <2>7. QED
    BY <2>4, <2>5, <2>6
<1>10. connected' = connected /\ archive' = archive /\ sent' = sent /\ noise' = noise
  BY DEF AssembleFragment, ResponseFragment, DescriptorFragment, archiveVars
<1>11. StreamTypeOK'
  BY <1>2, <1>9, <1>10 DEF StreamTypeOK
<1>12. QED
  BY <1>3, <1>8, <1>11

LEMMA ThrowingFragmentType ==
    ASSUME TypeOK, NEW t \in Threads, ThrowingFragment(t)
    PROVE  TypeOK'
<1> USE DEF TypeOK
<1>1. HasFragment(t) /\ TakeFragment
  BY DEF ThrowingFragment
<1>2. /\ Fragment \in Message /\ Tail(visit) \in Seq(Images)
      /\ queue' \in [Images -> Seq(Message)]
  BY <1>1, TakeFragmentType
<1>3. /\ ThreadTypeOK' /\ existingRemainCount' \in Int /\ expired' \in BOOLEAN
      /\ visit' \in Seq(Images) /\ fragments' \in 0..FragmentLimit
  <2>1. CASE HandlerPropagates
    <3>1. Fragment.correlationId \in Int
      BY <1>2 DEF Message
    <3>2. \/ Leave(t, "error", NoId, Fragment.correlationId)
          \/ Leave(t, "unknownTemplate", NoId, NoId)
      BY <2>1 DEF ThrowingFragment
    <3>3. QED
      BY <3>1, <3>2, LeaveType
  <2>2. CASE ~HandlerPropagates
    <3>1. UNCHANGED <<threadVars, existingRemainCount, expired, fragments>> /\ visit' = Tail(visit)
      BY <2>2 DEF ThrowingFragment
    <3>2. QED
      BY <3>1, <1>2 DEF threadVars, ThreadTypeOK, PollTypeOK
  <2>3. QED
    BY <2>1, <2>2
<1>4. PollTypeOK'
  BY <1>3 DEF ThrowingFragment, PollTypeOK
<1>5. StreamTypeOK'
  BY <1>2 DEF ThrowingFragment, StreamTypeOK, archiveVars
<1>6. QED
  BY <1>3, <1>4, <1>5

LEMMA PollForResponseType ==
    ASSUME TypeOK, NEW t \in Threads, PollForResponse(t)
    PROVE  TypeOK'
<1> USE DEF TypeOK
<1>1. controlResponsePoller.correlationId \in Int /\ controlResponsePoller.relevantId \in Int
  BY DEF PollTypeOK, ResponsePoller
<1>2. /\ ThreadTypeOK' /\ existingRemainCount' \in Int /\ expired' \in BOOLEAN
      /\ visit' \in Seq(Images) /\ fragments' \in 0..FragmentLimit
  <2>1. \/ Leave(t, "error", NoId, controlResponsePoller.correlationId)
        \/ Leave(t, "unexpected", NoId, controlResponsePoller.correlationId)
        \/ Leave(t, "value", controlResponsePoller.relevantId, controlResponsePoller.correlationId)
        \/ Leave(t, "timeout", NoId, NoId)
        \/ Leave(t, "disconnected", NoId, NoId)
        \/ PollAgain(t) /\ UNCHANGED <<existingRemainCount, expired>>
    BY DEF PollForResponse, GiveUp
  <2>2. CASE PollAgain(t) /\ UNCHANGED <<existingRemainCount, expired>>
    BY <2>2, PollAgainType DEF PollTypeOK
  <2>3. QED
    BY <1>1, <2>1, <2>2, LeaveType
<1>3. PollTypeOK'
  BY <1>2 DEF PollForResponse, PollTypeOK
<1>4. StreamTypeOK'
  BY DEF PollForResponse, StreamTypeOK, archiveVars
<1>5. QED
  BY <1>2, <1>3, <1>4

LEMMA PollForDescriptorsType ==
    ASSUME TypeOK, NEW t \in Threads, PollForDescriptors(t)
    PROVE  TypeOK'
<1> USE DEF TypeOK
<1> DEFINE remaining == recordingDescriptorPoller.remainingRecordCount
<1>1. remaining \in Int /\ request[t].count - remaining \in Int
  BY DEF PollTypeOK, DescriptorPoller, ThreadTypeOK
<1>2. /\ ThreadTypeOK' /\ existingRemainCount' \in Int /\ expired' \in BOOLEAN
      /\ visit' \in Seq(Images) /\ fragments' \in 0..FragmentLimit
  <2>1. \/ Leave(t, "count", request[t].count - remaining, NoId)
        \/ Leave(t, "timeout", NoId, NoId)
        \/ Leave(t, "disconnected", NoId, NoId)
        \/ /\ PollAgain(t)
           /\ existingRemainCount' = remaining
           /\ expired' = (expired /\ existingRemainCount = remaining)
    BY DEF PollForDescriptors, GiveUp
  <2>2. CASE /\ PollAgain(t)
             /\ existingRemainCount' = remaining
             /\ expired' = (expired /\ existingRemainCount = remaining)
    <3>1. expired' \in BOOLEAN
      BY <2>2
    <3>2. QED
      BY <2>2, <3>1, <1>1, PollAgainType DEF PollTypeOK
  <2>3. QED
    BY <1>1, <2>1, <2>2, LeaveType
<1>3. PollTypeOK'
  BY <1>2 DEF PollForDescriptors, PollTypeOK
<1>4. StreamTypeOK'
  BY DEF PollForDescriptors, StreamTypeOK, archiveVars
<1>5. QED
  BY <1>2, <1>3, <1>4

LEMMA PollForErrorType ==
    ASSUME TypeOK, NEW t \in Threads, PollForError(t)
    PROVE  TypeOK'
<1> USE DEF TypeOK
<1>1. controlResponsePoller.correlationId \in Int
  BY DEF PollTypeOK, ResponsePoller
<1>2. /\ ThreadTypeOK' /\ existingRemainCount' \in Int /\ expired' \in BOOLEAN
      /\ visit' \in Seq(Images) /\ fragments' \in 0..FragmentLimit
  BY <1>1, LeaveType DEF PollForError
<1>3. PollTypeOK'
  BY <1>2 DEF PollForError, PollTypeOK
<1>4. StreamTypeOK'
  BY DEF PollForError, StreamTypeOK, archiveVars
<1>5. QED
  BY <1>2, <1>3, <1>4

LEMMA ArchiveType ==
    ASSUME TypeOK, NEW c \in CorrelationIds,
           Answer(c) \/ ListRecording(c) \/ EndListing(c) \/ AsyncError(c)
    PROVE  TypeOK'
<1> USE DEF TypeOK
<1>1. ImageOf[Session] \in Images /\ c \in Int /\ Session \in Int
  BY DEF Sessions, CorrelationIds
<1>2. PollTypeOK' /\ ThreadTypeOK' /\ connected' = connected /\ delivered' = delivered
  BY DEF Answer, ListRecording, EndListing, AsyncError, UnchangedByArchive,
         threadVars, pollerVars, pollVars, PollTypeOK, ThreadTypeOK
<1>3. archive[c].listed \in Nat
  BY DEF StreamTypeOK
<1>4. \/ \E code \in Code, v \in Int : RespondTo(c, code, v)
      \/ Deliver(ImageOf[Session], RecordingDescriptor(Session, c, archive[c].listed + 1))
         /\ sent' = sent
  BY DEF Answer, ListRecording, EndListing, AsyncError, Code
<1>5. queue' \in [Images -> Seq(Message)] /\ sent' \subseteq Message
  <2>1. ASSUME NEW code \in Code, NEW v \in Int, RespondTo(c, code, v)
        PROVE  queue' \in [Images -> Seq(Message)] /\ sent' \subseteq Message
    <3>1. ControlResponse(Session, c, code, v) \in Message
      BY <1>1, MessageType
    <3>2. QED
      BY <1>1, <2>1, <3>1, DeliverType DEF RespondTo, StreamTypeOK
  <2>2. CASE Deliver(ImageOf[Session], RecordingDescriptor(Session, c, archive[c].listed + 1))
             /\ sent' = sent
    <3>1. RecordingDescriptor(Session, c, archive[c].listed + 1) \in Message
      BY <1>1, <1>3, MessageType
    <3>2. QED
      BY <1>1, <2>2, <3>1, DeliverType DEF StreamTypeOK
  <2>3. QED
    BY <1>4, <2>1, <2>2
<1>6. archive' \in [CorrelationIds -> [status : {"unsent", "pending", "done"}, kind : Kind,
                                       count : Nat, listed : Nat]]
  <2>1. archive \in [CorrelationIds -> [status : {"unsent", "pending", "done"}, kind : Kind,
                                       count : Nat, listed : Nat]]
    BY DEF StreamTypeOK
  <2>2. CASE archive' = archive
    BY <2>1, <2>2
  <2>3. CASE archive' = [archive EXCEPT ![c].status = "done"]
    BY <2>1, <2>3
  <2>4. CASE ListRecording(c)
    <3>1. archive[c].listed + 1 \in Nat
      BY <1>3
    <3>2. \/ archive' = [archive EXCEPT ![c].listed = archive[c].listed + 1, ![c].status = "done"]
          \/ archive' = [archive EXCEPT ![c].listed = archive[c].listed + 1, ![c].status = @]
      BY <2>4 DEF ListRecording
    <3>3. QED
      BY <2>1, <3>1, <3>2
  <2>5. QED
    BY <2>2, <2>3, <2>4 DEF Answer, EndListing, AsyncError
<1>7. noise' \in [foreign : Nat, errors : Nat]
  BY DEF Answer, ListRecording, EndListing, AsyncError, StreamTypeOK
<1>8. StreamTypeOK'
  BY <1>2, <1>5, <1>6, <1>7 DEF StreamTypeOK
<1>9. QED
  BY <1>2, <1>8

LEMMA NoiseType ==
    ASSUME TypeOK, Noise
    PROVE  TypeOK'
<1> USE DEF TypeOK
<1>1. PollTypeOK' /\ ThreadTypeOK' /\ connected' = connected /\ delivered' = delivered
      /\ archive' = archive /\ sent' = sent
  BY DEF Noise, UnchangedByArchive, threadVars, pollerVars, pollVars, PollTypeOK, ThreadTypeOK
<1>2. \E i \in Images, m \in Message : Deliver(i, m)
  <2>1. \A s \in OtherSessions : s \in Int /\ ImageOf[s] \in Images
    BY DEF Sessions
  <2>2. \A c \in CorrelationIds : c \in Int
    BY DEF CorrelationIds
  <2>3. NoId \in Int /\ {"OK", "ERROR"} \subseteq Code
    BY DEF Code
  <2>4. QED
    BY <2>1, <2>2, <2>3, MessageType DEF Noise
<1>3. queue' \in [Images -> Seq(Message)]
  BY <1>2, DeliverType
<1>4. noise' \in [foreign : Nat, errors : Nat]
  <2>1. noise' = [noise EXCEPT !.foreign = @ + 1] \/ noise' = noise
    BY DEF Noise
  <2>2. noise \in [foreign : Nat, errors : Nat]
    BY DEF StreamTypeOK
  <2>3. QED
    BY <2>1, <2>2
<1>5. StreamTypeOK'
  BY <1>1, <1>3, <1>4 DEF StreamTypeOK
<1>6. QED
  BY <1>1, <1>5

LEMMA OutsideType ==
    ASSUME TypeOK, Disconnect \/ DeadlinePasses
    PROVE  TypeOK'
<1> USE DEF TypeOK
<1>1. ThreadTypeOK'
  BY DEF Disconnect, DeadlinePasses, threadVars, ThreadTypeOK
<1>2. expired' \in BOOLEAN
  BY DEF Disconnect, DeadlinePasses, PollTypeOK
<1>3. PollTypeOK'
  BY <1>2 DEF Disconnect, DeadlinePasses, pollerVars, pollVars, PollTypeOK
<1>4. queue' \in [Images -> Seq(Message)]
  <2>1. queue' = [i \in Images |-> <<>>] \/ queue' = queue
    BY DEF Disconnect, DeadlinePasses
  <2>2. <<>> \in Seq(Message)
    BY EmptySeq
  <2>3. queue \in [Images -> Seq(Message)]
    BY DEF StreamTypeOK
  <2>4. QED
    BY <2>1, <2>2, <2>3
<1>5. connected' \in BOOLEAN
  BY DEF Disconnect, DeadlinePasses, StreamTypeOK
<1>6. StreamTypeOK'
  BY <1>4, <1>5 DEF Disconnect, DeadlinePasses, archiveVars, StreamTypeOK
<1>7. QED
  BY <1>1, <1>3, <1>6

LEMMA TypeStep ==
    ASSUME TypeOK, [Next]_vars
    PROVE  TypeOK'
<1>1. CASE \E t \in Threads : Call(t) \/ ThreadStep(t)
  BY <1>1, CallType, LockType, SendType, FailToSendType, PollType, NextImageType, FragmentType,
     ThrowingFragmentType, PollForResponseType, PollForDescriptorsType, PollForErrorType
     DEF ThreadStep
<1>2. CASE Environment
  BY <1>2, ArchiveType, NoiseType, OutsideType DEF Environment
<1>3. CASE UNCHANGED vars
  BY <1>3 DEF vars, threadVars, pollerVars, pollVars, archiveVars, TypeOK, ThreadTypeOK,
              PollTypeOK, StreamTypeOK
<1>4. QED
  BY <1>1, <1>2, <1>3 DEF Next

\* Every variable always has its type: no field of a poller is read before a
\* message or reset set it to a value of the right kind, and no poll visits an
\* image that is not there.
THEOREM TypeCorrect == Spec => []TypeOK
BY InitType, TypeStep, PTL DEF Spec

-----------------------------------------------------------------------------
(***************************************************************************)
(* The inductive invariant.                                                *)
(***************************************************************************)
Busy == {"send", "poll", "fragment"}

\* What a step of the thread that holds the lock does to the threads' state:
\* it ends the call, or goes on with it.
LEMMA HolderStep ==
    ASSUME NEW t \in Threads, ThreadStep(t), ~Lock(t)
    PROVE  /\ pc[t] \in Busy
           /\ \/ \E how, value, cause : Leave(t, how, value, cause)
              \/ /\ pc' = pc \/ Go(t, "poll") \/ (Poll(t) /\ Go(t, "fragment"))
                 /\ UNCHANGED <<request, result, lock, nextCorrelationId>>
<1> USE DEF Busy
<1>1. CASE Send(t) \/ FailToSend(t) \/ Poll(t)
  BY <1>1 DEF Send, FailToSend, Poll
<1>2. CASE NextImage(t) \/ AssembleFragment(t) \/ ResponseFragment(t) \/ DescriptorFragment(t)
  BY <1>2 DEF NextImage, AssembleFragment, ResponseFragment, DescriptorFragment, HasFragment,
              threadVars
<1>3. CASE ThrowingFragment(t)
  BY <1>3 DEF ThrowingFragment, HasFragment, threadVars
<1>4. CASE PollForResponse(t)
  BY <1>4 DEF PollForResponse, PollIsOver, PollAgain, GiveUp
<1>5. CASE PollForDescriptors(t)
  BY <1>5 DEF PollForDescriptors, PollIsOver, PollAgain, GiveUp
<1>6. CASE PollForError(t)
  BY <1>6 DEF PollForError, PollIsOver
<1>7. QED
  BY <1>1, <1>2, <1>3, <1>4, <1>5, <1>6 DEF ThreadStep

\* The archive, the network and the clock leave the threads alone.
LEMMA EnvironmentStep ==
    ASSUME Environment
    PROVE  UNCHANGED <<threadVars, pollerVars, pollVars, delivered>>
BY DEF Environment, Answer, ListRecording, EndListing, AsyncError, Noise, Disconnect,
       DeadlinePasses, UnchangedByArchive

LEMMA LockStep ==
    ASSUME TypeOK, LockInv, [Next]_vars
    PROVE  LockInv'
<1> USE ThreadAssumption DEF LockInv, TypeOK, ThreadTypeOK, ThreadAssumption
<1>1. CASE \E t \in Threads : Call(t)
  BY <1>1 DEF Call, Go
<1>2. ASSUME NEW t \in Threads, Lock(t)
      PROVE  LockInv'
  BY <1>2 DEF Lock, Go
<1>3. ASSUME NEW t \in Threads, ThreadStep(t), ~Lock(t)
      PROVE  LockInv'
  <2>1. pc[t] \in Busy /\ lock = t
    BY <1>3, HolderStep DEF Busy
  <2>2. CASE \E how, value, cause : Leave(t, how, value, cause)
    <3>1. lock' = Nobody /\ pc' = [pc EXCEPT ![t] = "idle"]
      BY <2>2 DEF Leave, Go
    <3>2. \A s \in Threads : s # t => pc[s] \notin Busy
      BY <2>1 DEF Busy
    <3>3. QED
      BY <3>1, <3>2 DEF Busy
  <2>3. CASE ~ \E how, value, cause : Leave(t, how, value, cause)
    <3>1. lock' = t
      BY <2>1, <2>3, <1>3, HolderStep
    <3>2. pc' = pc \/ pc' = [pc EXCEPT ![t] = "poll"] \/ pc' = [pc EXCEPT ![t] = "fragment"]
      BY <2>3, <1>3, HolderStep DEF Go
    <3>3. QED
      BY <2>1, <3>1, <3>2 DEF Busy
  <2>4. QED
    BY <2>2, <2>3
<1>4. CASE Environment \/ UNCHANGED vars
  BY <1>4, EnvironmentStep DEF threadVars, vars
<1>5. QED
  BY <1>1, <1>2, <1>3, <1>4 DEF Next

LEMMA LatestStep ==
    ASSUME TypeOK, LockInv, LatestInv, [Next]_vars
    PROVE  LatestInv'
<1> USE ThreadAssumption DEF LockInv, LatestInv, TypeOK, ThreadTypeOK, ThreadAssumption
<1>1. CASE \E t \in Threads : Call(t)
  <2>1. PICK t \in Threads : Call(t)
    BY <1>1
  <2>2. PICK r \in Requests : request' = [request EXCEPT ![t] = r]
    BY <2>1 DEF Call
  <2>3. r.correlationId = NoId
    BY <2>2 DEF Requests
  <2>4. QED
    BY <2>1, <2>2, <2>3 DEF Call, Go
<1>2. CASE \E t \in Threads : Lock(t)
  BY <1>2 DEF Lock, Go
<1>3. ASSUME NEW t \in Threads, ThreadStep(t), ~Lock(t)
      PROVE  LatestInv'
  <2>1. CASE \E how, value, cause : Leave(t, how, value, cause)
    BY <2>1, <1>3, HolderStep DEF Busy, Leave, Go, NoRequest
  <2>2. CASE ~ \E how, value, cause : Leave(t, how, value, cause)
    BY <2>2, <1>3, HolderStep DEF Busy, Go
  <2>3. QED
    BY <2>1, <2>2
<1>4. CASE Environment \/ UNCHANGED vars
  BY <1>4, EnvironmentStep DEF threadVars, vars
<1>5. QED
  BY <1>1, <1>2, <1>3, <1>4 DEF Next

\* A response of the archive is about the request that it answers.
LEMMA ArchiveStep ==
    ASSUME NEW c \in CorrelationIds,
           Answer(c) \/ ListRecording(c) \/ EndListing(c) \/ AsyncError(c)
    PROVE  sent \subseteq sent' /\ \A m \in sent' : m \in sent \/ m.correlationId = c
<1>1. sent' = sent \/ \E code, v : sent' = sent \cup {ControlResponse(Session, c, code, v)}
  <2>1. ASSUME NEW code, NEW v, RespondTo(c, code, v)
        PROVE  sent' = sent \cup {ControlResponse(Session, c, code, v)}
    BY <2>1 DEF RespondTo
  <2>2. CASE ListRecording(c)
    BY <2>2 DEF ListRecording
  <2>3. CASE ~ListRecording(c)
    <3>1. \E code, v : RespondTo(c, code, v)
      BY <2>3 DEF Answer, EndListing, AsyncError
    <3>2. QED
      BY <3>1, <2>1
  <2>4. QED
    BY <2>2, <2>3
<1>2. QED
  BY <1>1 DEF ControlResponse

\* What was sent stays sent, and ids are only ever drawn.
LEMMA Monotonic ==
    ASSUME TypeOK, [Next]_vars
    PROVE  sent \subseteq sent' /\ nextCorrelationId' >= nextCorrelationId
<1> USE DEF TypeOK, ThreadTypeOK
<1>1. CASE \E t \in Threads : Call(t) \/ ThreadStep(t)
  BY <1>1 DEF Call, ThreadStep, Lock, Send, FailToSend, Poll, NextImage, AssembleFragment,
              ResponseFragment, DescriptorFragment, ThrowingFragment, PollForResponse,
              PollForDescriptors, PollForError, Leave, PollAgain, GiveUp, threadVars, archiveVars
<1>2. CASE Environment
  <2>1. nextCorrelationId' = nextCorrelationId
    BY <1>2, EnvironmentStep DEF threadVars
  <2>2. CASE Noise \/ Disconnect \/ DeadlinePasses
    BY <2>1, <2>2 DEF Noise, Disconnect, DeadlinePasses, archiveVars
  <2>3. CASE ~(Noise \/ Disconnect \/ DeadlinePasses)
    BY <1>2, <2>1, <2>3, ArchiveStep DEF Environment
  <2>4. QED
    BY <2>1, <2>2, <2>3
<1>3. CASE UNCHANGED vars
  BY <1>3 DEF vars, threadVars, archiveVars
<1>4. QED
  BY <1>1, <1>2, <1>3 DEF Next

LEMMA SentStep ==
    ASSUME TypeOK, LockInv, LatestInv, SentInv, [Next]_vars
    PROVE  SentInv'
<1> USE DEF SentInv, TypeOK, ThreadTypeOK, StreamTypeOK
<1>0. nextCorrelationId' \in Int /\ nextCorrelationId \in Int /\ nextCorrelationId <= nextCorrelationId'
  <2>1. TypeOK'
    BY TypeStep
  <2>2. QED
    BY <2>1, Monotonic
<1>1. ASSUME UNCHANGED <<archive, sent>>
      PROVE  SentInv'
  BY <1>0, <1>1 DEF CorrelationIds, Message
<1>2. ASSUME NEW t \in Threads, Send(t)
      PROVE  SentInv'
  <2>1. lock = t
    BY <1>2 DEF Send, LockInv
  <2>2. request[t].correlationId \in {NoId, nextCorrelationId - 1}
    BY <2>1 DEF LatestInv
  <2>3. nextCorrelationId' = nextCorrelationId /\ sent' = sent
    BY <1>2 DEF Send
  <2>4. ASSUME NEW c \in CorrelationIds, archive'[c].status # "unsent"
        PROVE  c < nextCorrelationId
    <3>1. CASE c = request[t].correlationId
      <4>1. c > 0 /\ c \in Int
        BY DEF CorrelationIds
      <4>2. c = nextCorrelationId - 1
        BY <4>1, <3>1, <2>2 DEF NoId
      <4>3. QED
        BY <4>2, <1>0
    <3>2. CASE c # request[t].correlationId
      <4>1. archive' = [archive EXCEPT ![request[t].correlationId] = archive'[request[t].correlationId]]
        BY <1>2 DEF Send
      <4>2. archive'[c] = archive[c]
        BY <4>1, <3>2
      <4>3. QED
        BY <4>2, <2>4
    <3>3. QED
      BY <3>1, <3>2
  <2>5. QED
    BY <2>3, <2>4
<1>3. ASSUME NEW c \in CorrelationIds, Answer(c) \/ ListRecording(c) \/ EndListing(c) \/ AsyncError(c)
      PROVE  SentInv'
  <2>1. archive[c].status # "unsent"
    BY <1>3 DEF Answer, ListRecording, EndListing, AsyncError
  <2>2. c < nextCorrelationId
    BY <2>1
  <2>3. nextCorrelationId' = nextCorrelationId
    BY <1>3, EnvironmentStep DEF Environment, threadVars
  <2>4. \A m \in sent' : m \in sent \/ m.correlationId = c
    BY <1>3, ArchiveStep
  <2>5. \A d \in CorrelationIds : archive'[d].status # "unsent" => archive[d].status # "unsent"
    <3>1. ASSUME NEW d \in CorrelationIds, d # c
          PROVE  archive'[d] = archive[d]
      BY <1>3, <3>1 DEF Answer, ListRecording, EndListing, AsyncError
    <3>2. QED
      BY <2>1, <3>1
  <2>6. QED
    BY <2>2, <2>3, <2>4, <2>5
<1>4. QED
  <2>1. CASE \E t \in Threads : Call(t) \/ (ThreadStep(t) /\ ~Send(t))
    <3>1. UNCHANGED <<archive, sent>>
      BY <2>1 DEF Call, ThreadStep, Lock, FailToSend, Poll, NextImage, AssembleFragment,
              ResponseFragment, DescriptorFragment, ThrowingFragment, PollForResponse,
              PollForDescriptors, PollForError, archiveVars
    <3>2. QED
      BY <3>1, <1>1
  <2>2. CASE Environment /\ ~ \E c \in CorrelationIds :
                Answer(c) \/ ListRecording(c) \/ EndListing(c) \/ AsyncError(c)
    BY <2>2, <1>1 DEF Environment, Noise, Disconnect, DeadlinePasses, archiveVars
  <2>3. CASE UNCHANGED vars
    BY <2>3, <1>1 DEF vars, archiveVars
  <2>4. QED
    BY <2>1, <2>2, <2>3, <1>2, <1>3 DEF Next, Environment, ThreadStep

\* Only this session's messages are recorded in sent, and every one of them is.
LEMMA StreamStep ==
    ASSUME TypeOK, StreamInv, [Next]_vars
    PROVE  StreamInv'
<1> USE DEF TypeOK, StreamTypeOK
<1>0. sent \subseteq sent'
  BY Monotonic
<1>1. ASSUME UNCHANGED queue
      PROVE  StreamInv'
  BY <1>0, <1>1 DEF StreamInv
<1>2. ASSUME NEW t \in Threads, HasFragment(t), TakeFragment
      PROVE  StreamInv'
  <2>1. Image \in Images /\ queue[Image] \in Seq(Message) /\ queue[Image] # <<>>
    BY <1>2, TakeFragmentType DEF HasFragment
  <2>2. \A i \in Images : \A k \in DOMAIN queue'[i] : \E j \in DOMAIN queue[i] : queue'[i][k] = queue[i][j]
    <3>1. ASSUME NEW i \in Images, NEW k \in DOMAIN queue'[i]
          PROVE  \E j \in DOMAIN queue[i] : queue'[i][k] = queue[i][j]
      <4>1. CASE i # Image
        BY <4>1, <1>2 DEF TakeFragment
      <4>2. CASE i = Image
        <5>1. queue'[i] = Tail(queue[i])
          BY <4>2, <1>2, <2>1 DEF TakeFragment
        <5>2. k + 1 \in DOMAIN queue[i] /\ Tail(queue[i])[k] = queue[i][k + 1]
          BY <5>1, <4>2, <2>1, HeadTailProperties, LenProperties
        <5>3. QED
          BY <5>1, <5>2
      <4>3. QED
        BY <4>1, <4>2
    <3>2. QED
      BY <3>1
  <2>3. QED
    BY <1>0, <2>2 DEF StreamInv
<1>3. ASSUME NEW i \in Images, NEW m \in Message, Deliver(i, m),
             IsSessionResponse(m) => m \in sent'
      PROVE  StreamInv'
  <2>1. ASSUME NEW j \in Images, NEW k \in DOMAIN queue'[j]
        PROVE  queue'[j][k] = m \/ (k \in DOMAIN queue[j] /\ queue'[j][k] = queue[j][k])
    <3>1. CASE j # i
      BY <3>1, <1>3 DEF Deliver
    <3>2. CASE j = i
      <4>1. queue'[j] = Append(queue[j], m) /\ queue[j] \in Seq(Message)
        BY <3>2, <1>3 DEF Deliver
      <4>2. QED
        BY <4>1
    <3>3. QED
      BY <3>1, <3>2
  <2>2. QED
    BY <1>0, <1>3, <2>1 DEF StreamInv
<1>4. CASE Environment
  <2>1. ASSUME NEW c \in CorrelationIds, NEW code \in Code, NEW v \in Int, RespondTo(c, code, v)
        PROVE  StreamInv'
    <3>1. ImageOf[Session] \in Images /\ c \in Int /\ Session \in Int
      BY DEF Sessions, CorrelationIds
    <3>2. ControlResponse(Session, c, code, v) \in Message
      BY <3>1, MessageType
    <3>3. Deliver(ImageOf[Session], ControlResponse(Session, c, code, v))
          /\ ControlResponse(Session, c, code, v) \in sent'
      BY <2>1 DEF RespondTo
    <3>4. QED
      BY <3>1, <3>2, <3>3, <1>3
  <2>2. ASSUME NEW c \in CorrelationIds, ListRecording(c)
        PROVE  StreamInv'
    <3> DEFINE m == RecordingDescriptor(Session, c, archive[c].listed + 1)
    <3>1. ImageOf[Session] \in Images /\ c \in Int /\ Session \in Int /\ archive[c].listed + 1 \in Int
      BY DEF Sessions, CorrelationIds
    <3>2. m \in Message
      BY <3>1, MessageType
    <3>3. Deliver(ImageOf[Session], m) /\ ~IsSessionResponse(m)
      BY <2>2 DEF ListRecording, RecordingDescriptor, IsSessionResponse
    <3>4. QED
      BY <3>1, <3>2, <3>3, <1>3
  <2>3. ASSUME Noise
        PROVE  StreamInv'
    <3>1. \E i \in Images, m \in Message : Deliver(i, m) /\ ~IsSessionResponse(m)
      <4>1. \A s \in OtherSessions : s \in Int /\ s # Session /\ ImageOf[s] \in Images
        BY DEF Sessions
      <4>2. /\ \A c \in CorrelationIds : c \in Int
            /\ NoId \in Int /\ {"OK", "ERROR"} \subseteq Code
        BY DEF CorrelationIds, Code
      <4>3. /\ \A s \in OtherSessions, c \in CorrelationIds :
                 /\ \A code \in Code : ~IsSessionResponse(ControlResponse(s, c, code, NoId))
                 /\ ~IsSessionResponse(RecordingDescriptor(s, c, NoId))
            /\ ~IsSessionResponse(UnknownMessage) /\ ~IsSessionResponse(PartialMessage)
        BY <4>1 DEF IsSessionResponse, ControlResponse, RecordingDescriptor, UnknownMessage,
                    PartialMessage
      <4>4. QED
        BY <2>3, <4>1, <4>2, <4>3, MessageType DEF Noise
    <3>2. QED
      BY <3>1, <1>3
  <2>4. CASE Disconnect
    BY <2>4 DEF Disconnect, StreamInv
  <2>5. CASE DeadlinePasses
    BY <2>5, <1>1 DEF DeadlinePasses
  <2>6. {"OK", "ERROR", "RECORDING_UNKNOWN"} = Code /\ NoId \in Int
    BY DEF Code
  <2>7. QED
    BY <1>4, <2>1, <2>2, <2>3, <2>4, <2>5, <2>6 DEF Environment, Answer, EndListing, AsyncError
<1>5. CASE \E t \in Threads : Call(t) \/ ThreadStep(t)
  <2>1. \/ UNCHANGED queue
        \/ \E t \in Threads : HasFragment(t) /\ TakeFragment
    BY <1>5 DEF Call, ThreadStep, Lock, Send, FailToSend, Poll, NextImage, AssembleFragment,
              ResponseFragment, DescriptorFragment, ThrowingFragment, PollForResponse,
              PollForDescriptors, PollForError
  <2>2. QED
    BY <2>1, <1>1, <1>2
<1>6. CASE UNCHANGED vars
  BY <1>6, <1>1 DEF vars
<1>7. QED
  BY <1>4, <1>5, <1>6 DEF Next

\* Only poll() and onFragment() of the holder of the lock touch the poller.
LEMMA PollerStep ==
    ASSUME TypeOK, LockInv, StreamInv, PollerInv, [Next]_vars
    PROVE  PollerInv'
<1> USE DEF TypeOK, ThreadTypeOK, UsesDescriptorPoller
<1>0. sent \subseteq sent'
  BY Monotonic
<1>1. ASSUME UNCHANGED controlResponsePoller,
             \A u \in Threads : pc'[u] = "fragment" => pc[u] = "fragment" /\ request'[u] = request[u]
      PROVE  PollerInv'
  BY <1>0, <1>1 DEF PollerInv, IsResponseToSession
<1>2. ASSUME NEW t \in Threads, Poll(t)
      PROVE  PollerInv'
  <2>1. CASE UsesDescriptorPoller(t)
    <3>1. \A u \in Threads : pc[u] # "fragment"
      BY <1>2 DEF Poll, LockInv
    <3>2. \A u \in Threads : pc'[u] = "fragment" => u = t
      BY <3>1, <1>2 DEF Poll, Go
    <3>3. request' = request
      BY <1>2 DEF Poll
    <3>4. QED
      BY <2>1, <3>2, <3>3 DEF PollerInv
  <2>2. CASE ~UsesDescriptorPoller(t)
    <3>1. controlResponsePoller'.templateId = NoTemplate
      <4>1. controlResponsePoller' = ResetPoll(controlResponsePoller)
        BY <2>2, <1>2 DEF Poll
      <4>2. controlResponsePoller \in ResponsePoller
        BY DEF PollTypeOK
      <4>3. QED
        BY <4>1, <4>2, Zenon DEF ResetPoll, ResponsePoller
    <3>2. QED
      BY <3>1 DEF PollerInv, IsResponseToSession
  <2>3. QED
    BY <2>1, <2>2
<1>3. ASSUME NEW t \in Threads, ResponseFragment(t)
      PROVE  PollerInv'
  <2> DEFINE m == Fragment
             p == controlResponsePoller'
  <2>1. /\ Image \in Images /\ m \in Message
        /\ queue[Image] \in Seq(Message) /\ queue[Image] # <<>> /\ m = queue[Image][1]
    BY <1>3, TakeFragmentType DEF ResponseFragment, HasFragment, StreamTypeOK, Fragment
  <2>2. IsSessionResponse(m) => m \in sent
    <3>1. 1 \in DOMAIN queue[Image]
      BY <2>1, LenProperties, EmptySeq
    <3>2. QED
      BY <2>1, <3>1 DEF StreamInv
  <2>3. p = OnResponseFragment(controlResponsePoller, m)
    BY <1>3 DEF ResponseFragment
  <2>4. CASE m.template = "ControlResponse"
    <3>1. IsResponseToSession(p) => ControlResponse(Session, p.correlationId, p.code, p.relevantId) = m
      BY <2>1, <2>3, <2>4 DEF OnResponseFragment, IsResponseToSession, ControlResponse, Message
    <3>2. IsResponseToSession(p) => IsSessionResponse(m)
      BY <2>3, <2>4 DEF OnResponseFragment, IsResponseToSession, IsSessionResponse
    <3>3. QED
      BY <1>0, <2>2, <3>1, <3>2 DEF PollerInv, IsResponseToSession
  <2>5. CASE m.template # "ControlResponse"
    <3>1. /\ p.templateId = controlResponsePoller.templateId
          /\ p.controlSessionId = controlResponsePoller.controlSessionId
          /\ p.correlationId = controlResponsePoller.correlationId
          /\ p.relevantId = controlResponsePoller.relevantId
          /\ p.code = controlResponsePoller.code
      BY <2>3, <2>5, Zenon DEF OnResponseFragment, PollTypeOK, ResponsePoller
    <3>2. pc' = pc /\ request' = request
      BY <1>3 DEF ResponseFragment, threadVars
    <3>3. QED
      BY <1>0, <3>1, <3>2 DEF PollerInv, IsResponseToSession
  <2>6. QED
    BY <2>4, <2>5
<1>4. CASE \E t \in Threads : Call(t) \/ Lock(t)
  BY <1>4, <1>1 DEF Call, Lock, Go, pollerVars
<1>5. ASSUME NEW t \in Threads, ThreadStep(t), ~Lock(t), ~Poll(t), ~ResponseFragment(t)
      PROVE  PollerInv'
  <2>1. UNCHANGED controlResponsePoller
    BY <1>5 DEF ThreadStep, Send, FailToSend, NextImage, AssembleFragment, DescriptorFragment,
       ThrowingFragment, PollForResponse, PollForDescriptors, PollForError, pollerVars
  <2>2. \/ Go(t, "idle")
        \/ (pc' = pc \/ Go(t, "poll")) /\ request' = request
    BY <1>5, HolderStep DEF Leave
  <2>3. \A u \in Threads : u # t => request'[u] = request[u]
    BY <1>5, HolderStep DEF Leave
  <2>4. QED
    BY <1>1, <2>1, <2>2, <2>3 DEF Go
<1>6. CASE Environment \/ UNCHANGED vars
  BY <1>6, <1>1, EnvironmentStep DEF vars, threadVars, pollerVars
<1>7. QED
  BY <1>2, <1>3, <1>4, <1>5, <1>6 DEF Next

LEMMA SessionStep ==
    ASSUME TypeOK, SessionInv, [Next]_vars
    PROVE  SessionInv'
<1> USE DEF SessionInv, TypeOK, PollTypeOK, DescriptorPoller
<1>1. recordingDescriptorPoller'.controlSessionId = recordingDescriptorPoller.controlSessionId
  <2>1. CASE UNCHANGED recordingDescriptorPoller
    BY <2>1
  <2>2. ASSUME NEW t \in Threads, Send(t) \/ Poll(t) \/ DescriptorFragment(t)
        PROVE  recordingDescriptorPoller'.controlSessionId = recordingDescriptorPoller.controlSessionId
    BY <2>2, Zenon DEF Send, Poll, DescriptorFragment, ResetDispatch, OnDescriptorFragment
  <2>3. CASE \E t \in Threads : Call(t) \/ (ThreadStep(t) /\ ~Send(t) /\ ~Poll(t) /\ ~DescriptorFragment(t))
    BY <2>1, <2>3 DEF Call, ThreadStep, Lock, FailToSend, NextImage, AssembleFragment, ResponseFragment,
       ThrowingFragment, PollForResponse, PollForDescriptors, PollForError, pollerVars
  <2>4. CASE Environment \/ UNCHANGED vars
    BY <2>1, <2>4, EnvironmentStep DEF vars, pollerVars
  <2>5. QED
    BY <2>2, <2>3, <2>4 DEF Next
<1>2. QED
  BY <1>1

LEMMA ConsumerStep ==
    ASSUME TypeOK, LockInv, ConsumerInv, [Next]_vars
    PROVE  ConsumerInv'
<1> USE DEF ConsumerInv, Waiting, TypeOK, ThreadTypeOK
<1> DEFINE p == recordingDescriptorPoller
<1>1. ASSUME UNCHANGED <<p, pc, request>>
      PROVE  ConsumerInv'
  BY <1>1
<1>2. CASE \E t \in Threads : Call(t) \/ Lock(t)
  BY <1>2 DEF Call, Lock, Go, SendingKind, pollerVars
<1>3. ASSUME NEW t \in Threads, Send(t)
      PROVE  ConsumerInv'
  <2>1. /\ request' = request /\ pc' = [pc EXCEPT ![t] = "poll"] /\ pc[t] = "send"
        /\ request[t].kind = "descriptors" =>
             p' = ResetDispatch(p, request[t].correlationId, request[t].count, request[t].correlationId)
    BY <1>3 DEF Send, Go
  <2>2. \A u \in Threads : u # t => pc'[u] \notin {"poll", "fragment"}
    BY <2>1 DEF LockInv
  <2>3. request[t].kind = "descriptors" =>
           p'.correlationId = request[t].correlationId /\ p'.consumer = request[t].correlationId
    BY <2>1, Zenon DEF ResetDispatch, PollTypeOK, DescriptorPoller
  <2>4. QED
    BY <2>1, <2>2, <2>3
<1>4. ASSUME NEW t \in Threads, ThreadStep(t), ~Lock(t), ~Send(t)
      PROVE  ConsumerInv'
  <2>1. p'.correlationId = p.correlationId /\ p'.consumer = p.consumer
    <3>1. CASE Poll(t) \/ DescriptorFragment(t)
      BY <3>1, Zenon DEF Poll, DescriptorFragment, OnDescriptorFragment, PollTypeOK, DescriptorPoller
    <3>2. CASE ~Poll(t) /\ ~DescriptorFragment(t)
      BY <1>4, <3>2 DEF ThreadStep, FailToSend, NextImage, AssembleFragment, ResponseFragment,
         ThrowingFragment, PollForResponse, PollForDescriptors, PollForError, pollerVars
    <3>3. QED
      BY <3>1, <3>2
  <2>2. pc[t] \in {"poll", "fragment"} \/ Go(t, "idle")
    BY <1>4 DEF ThreadStep, FailToSend, Leave, Poll, NextImage, AssembleFragment, ResponseFragment,
       DescriptorFragment, HasFragment, ThrowingFragment, PollForResponse, PollForDescriptors,
       PollForError, PollIsOver
  <2>3. QED
    BY <1>4, <2>1, <2>2, HolderStep DEF Leave, Go
<1>5. CASE Environment \/ UNCHANGED vars
  BY <1>1, <1>5, EnvironmentStep DEF vars, threadVars, pollerVars
<1>6. QED
  BY <1>2, <1>3, <1>4, <1>5 DEF Next

\* A call ends with a response only if the archive sent that response, which is
\* about the call's own request or an earlier one.
LEMMA ResultStep ==
    ASSUME TypeOK, IInv, [Next]_vars
    PROVE  ValueIsOwnAnswer' /\ ErrorIsOfThisSession'
<1> USE DEF TypeOK, ThreadTypeOK
<1>0. sent \subseteq sent'
  BY Monotonic
<1>1. ASSUME result' = result \/ result'.how \notin {"value", "error", "reported"}
      PROVE  ValueIsOwnAnswer' /\ ErrorIsOfThisSession'
  BY <1>0, <1>1 DEF IInv, ValueIsOwnAnswer, ErrorIsOfThisSession
<1>11. ASSUME NEW t \in Threads, NEW how, NEW value, NEW cause, Leave(t, how, value, cause),
              how \notin {"value", "error", "reported"}
       PROVE  ValueIsOwnAnswer' /\ ErrorIsOfThisSession'
  <2>1. result'.how = how
    BY <1>11 DEF Leave
  <2>2. QED
    BY <1>1, <1>11, <2>1
\* An error the archive sent is about no later request than the holder's own.
<1>2. ASSUME NEW t \in Threads, pc[t] \in Busy, NEW m \in sent
      PROVE  request[t].correlationId # NoId => m.correlationId <= request[t].correlationId
  <2>1. lock = t
    BY <1>2 DEF IInv, LockInv, Busy
  <2>2. request[t].correlationId \in {NoId, nextCorrelationId - 1}
    BY <2>1 DEF IInv, LatestInv
  <2>3. m.correlationId < nextCorrelationId /\ m.correlationId \in Int
    BY DEF IInv, SentInv, StreamTypeOK, Message
  <2>4. QED
    BY <2>2, <2>3
<1>3. ASSUME NEW t \in Threads, pc[t] \in Busy, NEW m \in sent, NEW how, NEW value,
             how \in {"error", "reported"}, m.code = "ERROR",
             Leave(t, how, value, m.correlationId)
      PROVE  ValueIsOwnAnswer' /\ ErrorIsOfThisSession'
  <2>1. /\ result'.how = how /\ result'.cause = m.correlationId
        /\ result'.correlationId = request[t].correlationId
    BY <1>3 DEF Leave
  <2>2. how # "value"
    BY <1>3
  <2>3. ValueIsOwnAnswer'
    BY <2>1, <2>2 DEF ValueIsOwnAnswer
  <2>4. ErrorIsOfThisSession'
    BY <1>0, <1>2, <1>3, <2>1 DEF ErrorIsOfThisSession
  <2>5. QED
    BY <2>3, <2>4
<1> DEFINE p == controlResponsePoller
           own == ControlResponse(Session, p.correlationId, p.code, p.relevantId)
<1>4. ASSUME NEW t \in Threads, pc[t] = "fragment", ~UsesDescriptorPoller(t), IsResponseToSession(p)
      PROVE  own \in sent /\ own.code = p.code /\ own.correlationId = p.correlationId
  BY <1>4 DEF IInv, PollerInv, ControlResponse
<1>5. ASSUME NEW t \in Threads, PollForResponse(t)
      PROVE  ValueIsOwnAnswer' /\ ErrorIsOfThisSession'
  <2>0. pc[t] = "fragment" /\ ~UsesDescriptorPoller(t)
    BY <1>5 DEF PollForResponse, PollIsOver, UsesDescriptorPoller
  <2>1. CASE /\ IsResponseToSession(p) /\ p.code = "ERROR"
             /\ Leave(t, "error", NoId, p.correlationId)
    BY <1>3, <1>4, <2>0, <2>1 DEF Busy
  <2>2. CASE /\ IsResponseToSession(p) /\ p.code = "OK"
             /\ p.correlationId = request[t].correlationId
             /\ Leave(t, "value", p.relevantId, p.correlationId)
    <3>1. /\ result'.how = "value" /\ result'.correlationId = p.correlationId
          /\ result'.value = p.relevantId
      BY <2>2 DEF Leave
    <3>2. own \in sent /\ own = ControlResponse(Session, p.correlationId, "OK", p.relevantId)
      BY <1>4, <2>0, <2>2
    <3>3. QED
      BY <1>0, <3>1, <3>2 DEF ValueIsOwnAnswer, ErrorIsOfThisSession
  <2>3. CASE PollAgain(t)
    BY <2>3, <1>1 DEF PollAgain
  <2>4. CASE GiveUp(t)
    BY <2>4, <1>11 DEF GiveUp
  <2>5. CASE Leave(t, "unexpected", NoId, p.correlationId)
    BY <2>5, <1>11
  <2>6. QED
    BY <1>5, <2>1, <2>2, <2>3, <2>4, <2>5 DEF PollForResponse
<1>6. ASSUME NEW t \in Threads, PollForError(t)
      PROVE  ValueIsOwnAnswer' /\ ErrorIsOfThisSession'
  <2>0. pc[t] = "fragment" /\ ~UsesDescriptorPoller(t)
    BY <1>6 DEF PollForError, PollIsOver, UsesDescriptorPoller
  <2>1. CASE Leave(t, "noError", NoId, NoId)
    BY <2>1, <1>1 DEF Leave
  <2>2. CASE /\ IsResponseToSession(p) /\ p.code = "ERROR"
             /\ \E how \in {"error", "reported"} : Leave(t, how, NoId, p.correlationId)
    <3>1. PICK how \in {"error", "reported"} : Leave(t, how, NoId, p.correlationId)
      BY <2>2
    <3>2. own \in sent /\ own.code = "ERROR" /\ own.correlationId = p.correlationId
      BY <1>4, <2>0, <2>2
    <3>3. Leave(t, how, NoId, own.correlationId)
      BY <3>1, <3>2
    <3>4. pc[t] \in Busy
      BY <2>0 DEF Busy
    <3>5. QED
      BY <1>3, <3>1, <3>2, <3>3, <3>4
  <2>3. QED
    BY <1>6, <2>1, <2>2 DEF PollForError
<1>7. ASSUME NEW t \in Threads, ThrowingFragment(t)
      PROVE  ValueIsOwnAnswer' /\ ErrorIsOfThisSession'
  <2> DEFINE m == Fragment
  <2>2. CASE m.template = "ControlResponse" /\ Leave(t, "error", NoId, m.correlationId)
    <3>1. HasFragment(t) /\ TakeFragment /\ Throws(t, m)
      BY <1>7 DEF ThrowingFragment
    <3>2. m.session = Session /\ m.code = "ERROR"
      BY <2>2, <3>1
         DEF Throws, DescriptorHandlerThrows, ResponseHandlerThrows, IInv, SessionInv
    <3>3. /\ Image \in Images /\ m = queue[Image][1] /\ queue[Image] \in Seq(Message)
          /\ queue[Image] # <<>>
      BY <3>1, TakeFragmentType DEF HasFragment, StreamTypeOK, Fragment
    <3>4. 1 \in DOMAIN queue[Image]
      BY <3>3, LenProperties, EmptySeq
    <3>5. m \in sent
      BY <2>2, <3>2, <3>3, <3>4 DEF IInv, StreamInv, IsSessionResponse
    <3>6. pc[t] \in Busy
      BY <3>1 DEF HasFragment, Busy
    <3>7. QED
      BY <1>3, <2>2, <3>2, <3>5, <3>6
  <2>3. CASE Leave(t, "unknownTemplate", NoId, NoId)
    BY <2>3, <1>11
  <2>4. CASE UNCHANGED threadVars
    BY <2>4, <1>1 DEF threadVars
  <2>5. QED
    BY <1>7, <2>2, <2>3, <2>4 DEF ThrowingFragment
<1>8. CASE \E t \in Threads : Call(t) \/ Lock(t) \/ Send(t) \/ FailToSend(t) \/ Poll(t)
                              \/ NextImage(t) \/ AssembleFragment(t) \/ ResponseFragment(t)
                              \/ DescriptorFragment(t) \/ PollForDescriptors(t)
  <2>1. result' = result \/ result'.how \in {"none", "notSent", "count", "timeout", "disconnected"}
    BY <1>8 DEF Call, Lock, Send, FailToSend, Poll, NextImage, AssembleFragment, ResponseFragment,
                DescriptorFragment, PollForDescriptors, PollAgain, GiveUp, Leave, NoResult, threadVars
  <2>2. QED
    BY <2>1, <1>1
<1>9. CASE Environment \/ UNCHANGED vars
  BY <1>9, <1>1, EnvironmentStep DEF vars, threadVars
<1>10. QED
  BY <1>5, <1>6, <1>7, <1>8, <1>9 DEF Next, ThreadStep

\* The inductive invariant holds in every state: lock_ protects the call under
\* way, and nothing on the stream or in the poller passes for a response to
\* this session that the archive did not send.
THEOREM InductiveInvariant == Spec => []IInv
<1>1. Init => IInv
  <2> SUFFICES ASSUME Init PROVE IInv
    OBVIOUS
  <2>1. LockInv /\ LatestInv
    BY ThreadAssumption DEF ThreadAssumption, Init, LockInv, LatestInv, NoRequest
  <2>2. SentInv /\ StreamInv
    BY DEF Init, SentInv, StreamInv, Unsent
  <2>3. PollerInv /\ SessionInv /\ ConsumerInv
    BY DEF Init, PollerInv, SessionInv, ConsumerInv, Waiting, NewDescriptorPoller
  <2>4. ValueIsOwnAnswer /\ ErrorIsOfThisSession
    BY DEF Init, ValueIsOwnAnswer, ErrorIsOfThisSession, NoResult
  <2>5. QED
    BY <2>1, <2>2, <2>3, <2>4 DEF IInv
<1>2. TypeOK /\ IInv /\ [Next]_vars => IInv'
  BY LockStep, LatestStep, SentStep, StreamStep, PollerStep, SessionStep, ConsumerStep, ResultStep
     DEF IInv
<1>3. QED
  BY <1>1, <1>2, TypeCorrect, PTL DEF Spec

\* A call returns a value only if the archive answered this very request, on
\* this session, with OK and that value; however many threads, sessions, images
\* and late answers there are.
THEOREM OwnAnswer == Spec => []ValueIsOwnAnswer
<1>1. IInv => ValueIsOwnAnswer
  BY DEF IInv
<1>2. QED
  BY <1>1, InductiveInvariant, PTL

\* No caller sees an error of another client, or one about a later request.
THEOREM OwnErrors == Spec => []ErrorIsOfThisSession
<1>1. IInv => ErrorIsOfThisSession
  BY DEF IInv
<1>2. QED
  BY <1>1, InductiveInvariant, PTL

\* A consumer runs only while the call it was passed to holds the lock, however
\* many threads list recordings and however late the descriptors are.
THEOREM OwnConsumer == Spec => ConsumerRunsInItsCall
<1>1. ASSUME TypeOK, IInv, Next, NEW c \in CorrelationIds, delivered'[c] # delivered[c]
      PROVE  \E t \in Threads : lock = t /\ pc[t] = "fragment" /\ request[t].correlationId = c
  <2>1. PICK t \in Threads : DescriptorFragment(t)
    BY <1>1, EnvironmentStep
       DEF Next, Call, ThreadStep, Lock, Send, FailToSend, Poll, NextImage, AssembleFragment,
           ResponseFragment, ThrowingFragment, PollForResponse, PollForDescriptors, PollForError
  <2>2. pc[t] = "fragment" /\ request[t].kind = "descriptors"
    BY <2>1 DEF DescriptorFragment, HasFragment, UsesDescriptorPoller
  <2>3. lock = t /\ recordingDescriptorPoller.consumer = request[t].correlationId
    BY <1>1, <2>2 DEF IInv, LockInv, ConsumerInv, Waiting
  <2>4. c = recordingDescriptorPoller.consumer
    BY <1>1, <2>1 DEF DescriptorFragment, TypeOK, StreamTypeOK
  <2>5. QED
    BY <2>2, <2>3, <2>4
<1>2. TypeOK /\ IInv /\ [Next]_vars =>
        [\A c \in CorrelationIds : delivered'[c] # delivered[c] =>
           \E t \in Threads : lock = t /\ pc[t] = "fragment" /\ request[t].correlationId = c]_vars
  BY <1>1
<1>3. QED
  BY <1>2, TypeCorrect, InductiveInvariant, PTL DEF Spec, ConsumerRunsInItsCall
=============================================================================
