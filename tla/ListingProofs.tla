---------------------------- MODULE ListingProofs ----------------------------
(***************************************************************************)
(* For any number of threads, sessions, images and messages: a listing's   *)
(* consumer sees the recordings of that listing, once and in order, and    *)
(* the count that is returned is all there was; where one publisher        *)
(* carries the control responses, no poll loses the answer to the call     *)
(* that waits; and AeronArchive implements ArchiveCalls.                   *)
(***************************************************************************)
EXTENDS AeronArchiveProofs

\* The image that carries this session's messages, and what it holds.
own == ImageOf[Session]

\* What a listing is answered with: descriptors, and perhaps an early end.
IsDescriptorOf(m, c) ==
    m.template = "RecordingDescriptor" /\ m.session = Session /\ m.correlationId = c
IsEndOf(m, c) ==
    /\ m.template = "ControlResponse" /\ m.session = Session
    /\ m.code = "RECORDING_UNKNOWN" /\ m.correlationId = c

\* What the archive has said of a listing is numbered from 1, and it says no
\* more than it was asked for; what is not asked yet has no consumer.
ListedInv ==
    \A c \in CorrelationIds :
        /\ archive[c].listed <= archive[c].count
        /\ archive[c].status = "unsent" => archive[c].listed = 0 /\ delivered[c] = <<>>
        /\ archive[c].status = "pending" =>
              archive[c].listed < archive[c].count \/ archive[c].listed = 0

\* The request that is about to be sent is new.
FreshInv ==
    \A t \in Threads : pc[t] = "send" =>
        /\ request[t].correlationId \in CorrelationIds
        /\ archive[request[t].correlationId].status = "unsent"

\* No other image carries anything of this session, and none is left that does
\* once they are gone.
PlaceInv ==
    /\ \A i \in Images \ {own} : \A k \in DOMAIN queue[i] : queue[i][k].session # Session
    /\ ~connected => DOMAIN queue[own] = {}

\* What is on its way was said by the archive,
SaidInv ==
    \A c \in CorrelationIds : \A k \in DOMAIN queue[own] :
        /\ IsDescriptorOf(queue[own][k], c) =>
              /\ archive[c].status # "unsent"
              /\ queue[own][k].relevantId \in 1..archive[c].listed
        /\ IsEndOf(queue[own][k], c) => archive[c].status = "done"

\* in this order.
OrderInv ==
    \A c \in CorrelationIds : \A k, l \in DOMAIN queue[own] :
        k < l /\ IsDescriptorOf(queue[own][l], c) =>
            /\ ~IsEndOf(queue[own][k], c)
            /\ IsDescriptorOf(queue[own][k], c) =>
                  queue[own][k].relevantId < queue[own][l].relevantId

\* How far the listing c of n recordings has got: what was delivered and what is
\* on its way, in this order, are what the archive has said.
Progress(c, n) ==
    LET p == recordingDescriptorPoller
        d == Len(delivered[c])
    IN
    /\ c \in CorrelationIds
    /\ archive[c].status # "unsent" /\ archive[c].count = n
    /\ p.remainingRecordCount = n - d
    /\ d <= archive[c].listed
    /\ \A k \in DOMAIN queue[own] :
          IsDescriptorOf(queue[own][k], c) => d < queue[own][k].relevantId
    /\ connected =>
          \A v \in (d + 1)..archive[c].listed : \E k \in DOMAIN queue[own] :
              IsDescriptorOf(queue[own][k], c) /\ queue[own][k].relevantId = v
    /\ p.isDispatchComplete => archive[c].status = "done" /\ d = archive[c].listed

ProgressInv ==
    \A t \in Threads : Waiting(t, "descriptors") => Progress(request[t].correlationId, request[t].count)

\* A count is there to be read only while nobody is in a call.
ResultInv ==
    /\ result.how # "none" => lock = Nobody
    /\ result.how = "count" => result.correlationId \in CorrelationIds

\* What is true of the stream, whoever reads it.
StreamListingInv == ListedInv /\ PlaceInv /\ SaidInv /\ OrderInv

ListingInv ==
    /\ StreamListingInv /\ FreshInv /\ ProgressInv /\ ResultInv
    /\ DeliveredInOrder /\ CountIsComplete

-----------------------------------------------------------------------------
(***************************************************************************)
(* What a step does to the messages that are on their way.                 *)
(***************************************************************************)
LEMMA OwnImage == own \in Images
BY SessionAssumption DEF SessionAssumption, own, Sessions

\* Taking the first message of an image moves the others up by one.
LEMMA TakeOne ==
    ASSUME TypeOK, NEW t \in Threads, HasFragment(t), TakeFragment
    PROVE  /\ Image \in Images /\ Fragment \in Message
           /\ \A i \in Images : i # Image => queue'[i] = queue[i]
           /\ 1 \in DOMAIN queue[Image] /\ Fragment = queue[Image][1]
           /\ \A k \in DOMAIN queue'[Image] :
                 /\ k \in Nat \ {0} /\ k + 1 \in DOMAIN queue[Image]
                 /\ queue'[Image][k] = queue[Image][k + 1]
           /\ \A k \in DOMAIN queue[Image] : k \in Nat \ {0} /\
                 (k # 1 => k - 1 \in DOMAIN queue'[Image] /\ queue'[Image][k - 1] = queue[Image][k])
<1>1. /\ Image \in Images /\ Fragment \in Message
      /\ queue[Image] \in Seq(Message) /\ queue[Image] # <<>>
      /\ queue \in [Images -> Seq(Message)]
  BY TakeFragmentType DEF TypeOK, StreamTypeOK, HasFragment
<1>2. queue'[Image] = Tail(queue[Image]) /\ \A i \in Images : i # Image => queue'[i] = queue[i]
  BY <1>1 DEF TakeFragment
<1>3. PICK n \in Nat : n = Len(queue[Image]) /\ n > 0 /\ DOMAIN queue[Image] = 1..n
  BY <1>1, EmptySeq, LenProperties
<1>4. /\ DOMAIN queue'[Image] = 1..(n - 1)
      /\ \A k \in 1..(n - 1) : queue'[Image][k] = queue[Image][k + 1]
  BY <1>1, <1>2, <1>3, HeadTailProperties, LenProperties
<1>5. Fragment = queue[Image][1]
  BY <1>1 DEF Fragment
<1>6. QED
  BY <1>1, <1>2, <1>3, <1>4, <1>5

\* A message that arrives comes behind all the others of its image.
LEMMA PutOne ==
    ASSUME TypeOK, NEW i \in Images, NEW m \in Message, Deliver(i, m)
    PROVE  /\ connected
           /\ \A j \in Images : j # i => queue'[j] = queue[j]
           /\ \E n \in Nat :
                 /\ DOMAIN queue[i] = 1..n /\ DOMAIN queue'[i] = 1..(n + 1)
                 /\ queue'[i][n + 1] = m
                 /\ \A k \in 1..n : queue'[i][k] = queue[i][k]
<1>1. queue \in [Images -> Seq(Message)] /\ queue[i] \in Seq(Message)
  BY DEF TypeOK, StreamTypeOK
<1>2. connected /\ queue'[i] = Append(queue[i], m) /\ \A j \in Images : j # i => queue'[j] = queue[j]
  BY <1>1 DEF Deliver
<1>3. PICK n \in Nat : n = Len(queue[i]) /\ DOMAIN queue[i] = 1..n
  BY <1>1, LenProperties
<1>4. /\ DOMAIN queue'[i] = 1..(n + 1) /\ queue'[i][n + 1] = m
      /\ \A k \in 1..n : queue'[i][k] = queue[i][k]
  BY <1>1, <1>2, <1>3, AppendProperties, LenProperties
<1>5. QED
  BY <1>2, <1>3, <1>4

\* A message that is taken leaves the rest in order.
LEMMA TakeKeepsStream ==
    ASSUME TypeOK, StreamListingInv, NEW t \in Threads, HasFragment(t), TakeFragment,
           UNCHANGED <<archive, connected>>
    PROVE  PlaceInv' /\ SaidInv' /\ OrderInv'
<1> DEFINE q == queue[own]
           r == queue'[own]
<1> USE DEF StreamListingInv
\* Every message that is left was there, in the same order.
<1>1. \/ r = q
      \/ \A k \in DOMAIN r : k \in Int /\ k + 1 \in DOMAIN q /\ r[k] = q[k + 1]
  BY TakeOne, OwnImage
<1>2. PlaceInv'
  <2>1. ASSUME NEW i \in Images \ {own}, NEW k \in DOMAIN queue'[i]
        PROVE  queue'[i][k].session # Session
    <3>1. \E j \in DOMAIN queue[i] : queue'[i][k] = queue[i][j]
      BY TakeOne
    <3>2. QED
      BY <3>1 DEF PlaceInv
  <2>2. ~connected => DOMAIN r = {}
    BY <1>1 DEF PlaceInv
  <2>3. QED
    BY <2>1, <2>2 DEF PlaceInv
<1>3. ASSUME NEW c \in CorrelationIds, NEW k \in DOMAIN r
      PROVE  /\ IsDescriptorOf(r[k], c) =>
                   archive[c].status # "unsent" /\ r[k].relevantId \in 1..archive[c].listed
             /\ IsEndOf(r[k], c) => archive[c].status = "done"
  BY <1>1 DEF SaidInv
<1>4. ASSUME NEW c \in CorrelationIds, NEW k \in DOMAIN r, NEW l \in DOMAIN r, k < l,
             IsDescriptorOf(r[l], c)
      PROVE  ~IsEndOf(r[k], c) /\ (IsDescriptorOf(r[k], c) => r[k].relevantId < r[l].relevantId)
  <2>1. CASE r = q
    BY <1>4, <2>1 DEF OrderInv
  <2>2. CASE r # q
    <3>1. /\ k + 1 \in DOMAIN q /\ r[k] = q[k + 1] /\ k \in Int
          /\ l + 1 \in DOMAIN q /\ r[l] = q[l + 1] /\ l \in Int
      BY <1>1, <2>2
    <3>2. k + 1 < l + 1
      BY <1>4, <3>1
    <3>3. QED
      BY <1>4, <3>1, <3>2 DEF OrderInv
  <2>3. QED
    BY <2>1, <2>2
<1>5. SaidInv' /\ OrderInv'
  BY <1>3, <1>4, Zenon DEF SaidInv, OrderInv, IsDescriptorOf, IsEndOf
<1>6. QED
  BY <1>2, <1>5
(***************************************************************************)
(* What the archive, the other clients and the network say.                *)
(***************************************************************************)
\* The archive goes on with its requests: it takes none back.
ArchiveGoesOn ==
    \A c \in CorrelationIds :
        /\ archive'[c].status = "unsent" <=> archive[c].status = "unsent"
        /\ archive[c].status = "done" => archive'[c] = archive[c]
        /\ archive'[c].count = archive[c].count

\* A message m that arrives in the image i follows on what was said before.
Follows(i, m) ==
    /\ i # own => m.session # Session
    /\ \A c \in CorrelationIds :
          /\ IsDescriptorOf(m, c) =>
                /\ archive[c].status = "pending"
                /\ m.relevantId = archive[c].listed + 1 /\ archive'[c].listed = m.relevantId
          /\ ~IsDescriptorOf(m, c) => archive'[c].listed = archive[c].listed
          /\ IsEndOf(m, c) => archive'[c].status = "done"

\* A response that ends a request, or is about one that has ended.
LEMMA RespondFollows ==
    ASSUME TypeOK, NEW c \in CorrelationIds, NEW code \in Code, NEW v \in Int,
           RespondTo(c, code, v), archive[c].status # "unsent",
           \/ archive[c].status = "pending" /\ archive' = [archive EXCEPT ![c].status = "done"]
           \/ code # "RECORDING_UNKNOWN" /\ archive' = archive
    PROVE  \E i \in Images, m \in Message : Deliver(i, m) /\ ArchiveGoesOn /\ Follows(i, m)
<1> DEFINE m == ControlResponse(Session, c, code, v)
<1>0. archive \in [CorrelationIds -> [status : {"unsent", "pending", "done"}, kind : Kind,
                                       count : Nat, listed : Nat]]
  BY DEF TypeOK, StreamTypeOK
<1>1. m \in Message /\ Deliver(own, m)
  BY SessionAssumption, MessageType DEF SessionAssumption, CorrelationIds, RespondTo, own
<1>2. ArchiveGoesOn
  BY <1>0 DEF ArchiveGoesOn
<1>3. \A d \in CorrelationIds : ~IsDescriptorOf(m, d) /\ (IsEndOf(m, d) => d = c /\ code = "RECORDING_UNKNOWN")
  BY DEF IsDescriptorOf, IsEndOf, ControlResponse
<1>4. Follows(own, m)
  <2>1. \A d \in CorrelationIds : archive'[d].listed = archive[d].listed
    BY <1>0
  <2>2. code = "RECORDING_UNKNOWN" => archive'[c].status = "done"
    BY <1>0
  <2>3. QED
    BY <1>3, <2>1, <2>2 DEF Follows
<1>5. QED
  BY <1>1, <1>2, <1>4, OwnImage

LEMMA ListRecordingFollows ==
    ASSUME TypeOK, NEW c \in CorrelationIds, ListRecording(c)
    PROVE  \E i \in Images, m \in Message : Deliver(i, m) /\ ArchiveGoesOn /\ Follows(i, m)
<1> DEFINE n == archive[c].listed + 1
           m == RecordingDescriptor(Session, c, n)
<1>0. archive \in [CorrelationIds -> [status : {"unsent", "pending", "done"}, kind : Kind,
                                       count : Nat, listed : Nat]]
  BY DEF TypeOK, StreamTypeOK
<1>1. m \in Message /\ Deliver(own, m)
  BY <1>0, SessionAssumption, MessageType DEF SessionAssumption, CorrelationIds, ListRecording, own
<1>2. archive[c].status = "pending"
  BY DEF ListRecording
<1>3. /\ archive'[c].listed = n /\ archive'[c].count = archive[c].count
      /\ archive'[c].status # "unsent"
      /\ \A d \in CorrelationIds : d # c => archive'[d] = archive[d]
  BY <1>0 DEF ListRecording
<1>4. ArchiveGoesOn
  BY <1>2, <1>3 DEF ArchiveGoesOn
<1>5. /\ m.relevantId = n
      /\ \A d \in CorrelationIds : ~IsEndOf(m, d) /\ (IsDescriptorOf(m, d) <=> d = c)
  BY DEF IsDescriptorOf, IsEndOf, RecordingDescriptor
<1>6. Follows(own, m)
  BY <1>2, <1>3, <1>5 DEF Follows
<1>7. QED
  BY <1>1, <1>4, <1>6, OwnImage

\* Other clients are told of other sessions.
LEMMA NoiseFollows ==
    ASSUME TypeOK, Noise
    PROVE  \E i \in Images, m \in Message : Deliver(i, m) /\ ArchiveGoesOn /\ Follows(i, m)
<1>1. archive' = archive
  BY DEF Noise
<1>2. ArchiveGoesOn
  BY <1>1 DEF ArchiveGoesOn
<1>3. \E i \in Images, m \in Message : Deliver(i, m) /\ m.session # Session
  <2>1. \A s \in OtherSessions : s \in Int /\ s # Session /\ ImageOf[s] \in Images
    BY SessionAssumption DEF SessionAssumption, Sessions
  <2>2. /\ \A c \in CorrelationIds : c \in Int
        /\ NoId \in Int /\ NoId # Session /\ {"OK", "ERROR"} \subseteq Code
    BY SessionAssumption DEF SessionAssumption, CorrelationIds, Code, NoId
  <2>3. /\ \A s \in OtherSessions, c \in CorrelationIds :
               /\ \A code \in Code : ControlResponse(s, c, code, NoId).session = s
               /\ RecordingDescriptor(s, c, NoId).session = s
        /\ UnknownMessage.session = NoId /\ PartialMessage.session = NoId
    BY DEF ControlResponse, RecordingDescriptor, UnknownMessage, PartialMessage
  <2>4. QED
    BY <2>1, <2>2, <2>3, MessageType DEF Noise
<1>4. \A i \in Images, m \in Message : m.session # Session => Follows(i, m)
  BY <1>1 DEF Follows, IsDescriptorOf, IsEndOf
<1>5. QED
  BY <1>2, <1>3, <1>4

LEMMA EnvironmentFollows ==
    ASSUME TypeOK, Environment, ~Disconnect, ~DeadlinePasses
    PROVE  \E i \in Images, m \in Message : Deliver(i, m) /\ ArchiveGoesOn /\ Follows(i, m)
<1>1. ASSUME NEW c \in CorrelationIds, Answer(c) \/ EndListing(c) \/ AsyncError(c)
      PROVE  \E i \in Images, m \in Message : Deliver(i, m) /\ ArchiveGoesOn /\ Follows(i, m)
  <2>1. {"OK", "ERROR", "RECORDING_UNKNOWN"} = Code /\ NoId \in Int /\ RelevantIds \subseteq Int
    BY DataAssumption DEF DataAssumption, Code, NoId
  <2>2. PICK code \in Code, v \in Int : RespondTo(c, code, v) /\ (AsyncError(c) => code = "ERROR")
    BY <1>1, <2>1 DEF Answer, EndListing, AsyncError
  <2>3. archive[c].status # "unsent"
    BY <1>1 DEF Answer, EndListing, AsyncError
  <2>4. \/ archive[c].status = "pending" /\ archive' = [archive EXCEPT ![c].status = "done"]
        \/ AsyncError(c) /\ archive' = archive
    BY <1>1 DEF Answer, EndListing, AsyncError
  <2>5. QED
    BY <2>2, <2>3, <2>4, RespondFollows
<1>2. QED
  BY <1>1, ListRecordingFollows, NoiseFollows DEF Environment

LEMMA PutKeepsStream ==
    ASSUME TypeOK, StreamListingInv, connected' = connected, ArchiveGoesOn,
           NEW i \in Images, NEW m \in Message, Deliver(i, m), Follows(i, m)
    PROVE  PlaceInv' /\ SaidInv' /\ OrderInv'
<1> DEFINE q == queue[own]
           r == queue'[own]
<1> USE DEF StreamListingInv
<1>0. archive \in [CorrelationIds -> [status : {"unsent", "pending", "done"}, kind : Kind,
                                       count : Nat, listed : Nat]]
  BY DEF TypeOK, StreamTypeOK
\* Whatever is in an image was there, or is the new message behind the rest.
<1>1. \A j \in Images : \A k \in DOMAIN queue'[j] :
         \/ k \in DOMAIN queue[j] /\ queue'[j][k] = queue[j][k]
         \/ j = i /\ queue'[j][k] = m
  BY PutOne
<1>2. i = own => \E n \in Nat : /\ DOMAIN q = 1..n /\ DOMAIN r = 1..(n + 1) /\ r[n + 1] = m
                                /\ \A k \in 1..n : r[k] = q[k]
  BY PutOne
<1>3. PlaceInv'
  <2>1. \A j \in Images \ {own} : \A k \in DOMAIN queue'[j] : queue'[j][k].session # Session
    BY <1>1 DEF PlaceInv, Follows
  <2>2. connected'
    BY PutOne
  <2>3. QED
    BY <2>1, <2>2 DEF PlaceInv
<1>4. ASSUME NEW c \in CorrelationIds, NEW k \in DOMAIN r
      PROVE  /\ IsDescriptorOf(r[k], c) =>
                   archive'[c].status # "unsent" /\ r[k].relevantId \in 1..archive'[c].listed
             /\ IsEndOf(r[k], c) => archive'[c].status = "done"
  <2>1. CASE k \in DOMAIN q /\ r[k] = q[k]
    <3>1. archive'[c].listed \in Int /\ archive'[c].listed >= archive[c].listed
      BY <1>0 DEF Follows
    <3>2. QED
      BY <2>1, <3>1, <1>0 DEF SaidInv, ArchiveGoesOn
  <2>2. CASE r[k] = m
    BY <2>2, <1>0 DEF Follows, ArchiveGoesOn
  <2>3. QED
    BY <1>1, <2>1, <2>2, OwnImage
<1>5. ASSUME NEW c \in CorrelationIds, NEW k \in DOMAIN r, NEW l \in DOMAIN r, k < l,
             IsDescriptorOf(r[l], c)
      PROVE  ~IsEndOf(r[k], c) /\ (IsDescriptorOf(r[k], c) => r[k].relevantId < r[l].relevantId)
  <2>1. CASE i # own
    <3>1. r = q
      BY <2>1, PutOne, OwnImage
    <3>2. QED
      BY <1>5, <3>1 DEF OrderInv
  <2>2. CASE i = own
    <3>1. PICK n \in Nat : /\ DOMAIN q = 1..n /\ DOMAIN r = 1..(n + 1) /\ r[n + 1] = m
                           /\ \A j \in 1..n : r[j] = q[j]
      BY <2>2, <1>2
    <3>2. k \in 1..n /\ r[k] = q[k]
      BY <1>5, <3>1
    <3>3. CASE l = n + 1
      <4>1. /\ archive[c].status = "pending" /\ r[l].relevantId = archive[c].listed + 1
        BY <1>5, <3>1, <3>3 DEF Follows
      <4>2. ~IsEndOf(q[k], c)
        BY <3>1, <3>2, <4>1 DEF SaidInv
      <4>3. IsDescriptorOf(q[k], c) => q[k].relevantId \in 1..archive[c].listed
        BY <3>1, <3>2 DEF SaidInv
      <4>4. QED
        BY <1>0, <3>2, <4>1, <4>2, <4>3
    <3>4. CASE l # n + 1
      <4>1. l \in 1..n /\ r[l] = q[l]
        BY <3>1, <3>4
      <4>2. k \in DOMAIN q /\ l \in DOMAIN q /\ k < l /\ IsDescriptorOf(q[l], c)
        BY <1>5, <3>1, <3>2, <4>1
      <4>3. ~IsEndOf(q[k], c) /\ (IsDescriptorOf(q[k], c) => q[k].relevantId < q[l].relevantId)
        BY <4>2 DEF OrderInv
      <4>4. QED
        BY <3>2, <4>1, <4>3
    <3>5. QED
      BY <3>3, <3>4
  <2>3. QED
    BY <2>1, <2>2
<1>6. SaidInv' /\ OrderInv'
  BY <1>4, <1>5, Zenon DEF SaidInv, OrderInv, IsDescriptorOf, IsEndOf
<1>7. QED
  BY <1>3, <1>6
-----------------------------------------------------------------------------
(***************************************************************************)
(* What a step does to the listing that waits.                             *)
(***************************************************************************)
\* The numbers a listing counts with.
LEMMA ProgressType ==
    ASSUME TypeOK, NEW c \in CorrelationIds
    PROVE  /\ Len(delivered[c]) \in Nat /\ delivered[c] \in Seq(Int)
           /\ archive[c].listed \in Nat /\ archive[c].count \in Nat
           /\ recordingDescriptorPoller.remainingRecordCount \in Int
           /\ \A k \in DOMAIN queue[own] : queue[own][k].relevantId \in Int
<1>1. delivered[c] \in Seq(Int) /\ queue[own] \in Seq(Message)
  BY OwnImage DEF TypeOK, StreamTypeOK
<1>2. Len(delivered[c]) \in Nat /\ \A k \in DOMAIN queue[own] : queue[own][k] \in Message
  BY <1>1, LenProperties, ElementOfSeq
<1>3. QED
  BY <1>1, <1>2 DEF TypeOK, StreamTypeOK, PollTypeOK, DescriptorPoller, Message

\* What leaves the stream, the archive and the count alone leaves the listing
\* where it is.
LEMMA ProgressStays ==
    ASSUME NEW c, NEW n, Progress(c, n), UNCHANGED <<queue, connected, archive, delivered>>,
           recordingDescriptorPoller'.remainingRecordCount = recordingDescriptorPoller.remainingRecordCount,
           recordingDescriptorPoller'.isDispatchComplete => recordingDescriptorPoller.isDispatchComplete
    PROVE  Progress(c, n)'
BY DEF Progress

\* A message is taken that brings the listing no further; if it ends the
\* listing, nothing of the listing is behind it.
LEMMA ProgressTake ==
    ASSUME TypeOK, StreamListingInv, NEW c, NEW n, Progress(c, n),
           NEW t \in Threads, HasFragment(t), TakeFragment, ~IsDescriptorOf(Fragment, c),
           UNCHANGED <<connected, archive, delivered>>,
           recordingDescriptorPoller'.remainingRecordCount = recordingDescriptorPoller.remainingRecordCount,
           recordingDescriptorPoller'.isDispatchComplete =>
              recordingDescriptorPoller.isDispatchComplete \/ IsEndOf(Fragment, c)
    PROVE  Progress(c, n)'
<1> DEFINE q == queue[own]
           r == queue'[own]
           d == Len(delivered[c])
           listed == archive[c].listed
<1>0. /\ c \in CorrelationIds /\ d \in Nat /\ listed \in Nat
      /\ archive[c].status # "unsent" /\ archive[c].count = n
      /\ recordingDescriptorPoller.remainingRecordCount = n - d /\ d <= listed
  BY ProgressType DEF Progress
<1>1. \A k \in DOMAIN r : IsDescriptorOf(r[k], c) => d < r[k].relevantId
  <2>1. \A k \in DOMAIN r : \E j \in DOMAIN q : r[k] = q[j]
    BY TakeOne, OwnImage
  <2>2. QED
    BY <2>1 DEF Progress
\* The descriptors are still there.
<1>2. \A k \in DOMAIN q : IsDescriptorOf(q[k], c) => \E j \in DOMAIN r : r[j] = q[k]
  <2>1. CASE Image = own
    BY <2>1, TakeOne
  <2>2. CASE Image # own
    BY <2>2, TakeOne, OwnImage
  <2>3. QED
    BY <2>1, <2>2
<1>3. connected => \A v \in (d + 1)..listed : \E k \in DOMAIN r :
                      IsDescriptorOf(r[k], c) /\ r[k].relevantId = v
  BY <1>2 DEF Progress
<1>4. ASSUME IsEndOf(Fragment, c)
      PROVE  archive[c].status = "done" /\ d = listed
  <2>1. Image = own
    BY <1>4, TakeOne DEF IsEndOf, StreamListingInv, PlaceInv
  <2>2. 1 \in DOMAIN q /\ IsEndOf(q[1], c) /\ \A k \in DOMAIN q : k \in Nat \ {0}
    BY <1>4, <2>1, TakeOne
  <2>3. connected
    BY <2>2 DEF StreamListingInv, PlaceInv
  <2>4. \A k \in DOMAIN q : ~IsDescriptorOf(q[k], c)
    <3>1. ASSUME NEW k \in DOMAIN q, IsDescriptorOf(q[k], c)
          PROVE  FALSE
      <4>1. k # 1
        BY <2>2, <3>1 DEF IsDescriptorOf, IsEndOf
      <4>2. 1 < k
        BY <2>2, <4>1
      <4>3. QED
        BY <1>0, <2>2, <3>1, <4>2 DEF StreamListingInv, OrderInv
    <3>2. QED
      BY <3>1
  <2>5. (d + 1)..listed = {}
    BY <2>3, <2>4 DEF Progress
  <2>6. d = listed
    BY <1>0, <2>5
  <2>7. archive[c].status = "done"
    BY <1>0, <2>2 DEF StreamListingInv, SaidInv
  <2>8. QED
    BY <2>6, <2>7
<1>5. recordingDescriptorPoller'.isDispatchComplete => archive[c].status = "done" /\ d = listed
  BY <1>4 DEF Progress
<1>6. QED
  BY <1>0, <1>1, <1>3, <1>5 DEF Progress, IsDescriptorOf

\* The descriptor that is taken is the next one; the last one ends the listing.
LEMMA ProgressDispatch ==
    ASSUME TypeOK, StreamListingInv, NEW c, NEW n \in Nat, Progress(c, n),
           NEW t \in Threads, HasFragment(t), TakeFragment, IsDescriptorOf(Fragment, c),
           UNCHANGED <<connected, archive>>,
           delivered' = [delivered EXCEPT ![c] = Append(@, Fragment.relevantId)],
           recordingDescriptorPoller'.remainingRecordCount =
              recordingDescriptorPoller.remainingRecordCount - 1,
           recordingDescriptorPoller'.isDispatchComplete =>
              \/ recordingDescriptorPoller.isDispatchComplete
              \/ recordingDescriptorPoller.remainingRecordCount = 1
    PROVE  /\ Progress(c, n)'
           /\ Fragment.relevantId = Len(delivered[c]) + 1
           /\ Len(delivered[c]) < archive[c].count
<1> DEFINE q == queue[own]
           r == queue'[own]
           d == Len(delivered[c])
           listed == archive[c].listed
<1>0. /\ c \in CorrelationIds /\ d \in Nat /\ listed \in Nat
      /\ archive[c].status # "unsent" /\ archive[c].count = n
      /\ recordingDescriptorPoller.remainingRecordCount = n - d /\ d <= listed /\ listed <= n
  BY ProgressType DEF Progress, StreamListingInv, ListedInv
<1>1. Image = own
  BY TakeOne DEF IsDescriptorOf, StreamListingInv, PlaceInv
<1>2. /\ 1 \in DOMAIN q /\ Fragment = q[1]
      /\ \A k \in DOMAIN q : k \in Nat \ {0} /\ q[k].relevantId \in Int
  BY <1>0, <1>1, TakeOne, ProgressType
<1>3. connected
  BY <1>2 DEF StreamListingInv, PlaceInv
<1>4. d < q[1].relevantId /\ q[1].relevantId <= listed
  BY <1>0, <1>2 DEF Progress, StreamListingInv, SaidInv
\* All that is to come was said in order, so the first of them is next.
<1>5. q[1].relevantId = d + 1
  <2>1. d + 1 \in (d + 1)..listed
    BY <1>0, <1>2, <1>4
  <2>2. PICK k \in DOMAIN q : IsDescriptorOf(q[k], c) /\ q[k].relevantId = d + 1
    BY <1>3, <2>1 DEF Progress
  <2>3. k # 1 => q[1].relevantId < q[k].relevantId
    BY <1>0, <1>2, <2>2 DEF StreamListingInv, OrderInv
  <2>4. QED
    BY <1>0, <1>2, <1>4, <2>2, <2>3
<1>6. Len(delivered'[c]) = d + 1
  BY <1>0, <1>2, ProgressType, AppendProperties DEF TypeOK, StreamTypeOK
<1>7. \A k \in DOMAIN r : IsDescriptorOf(r[k], c) => d + 1 < r[k].relevantId
  <2>1. ASSUME NEW k \in DOMAIN r, IsDescriptorOf(r[k], c)
        PROVE  d + 1 < r[k].relevantId
    <3>1. k + 1 \in DOMAIN q /\ r[k] = q[k + 1] /\ 1 < k + 1
      BY <1>1, <2>1, TakeOne
    <3>2. q[1].relevantId < q[k + 1].relevantId
      BY <1>0, <1>2, <2>1, <3>1 DEF StreamListingInv, OrderInv
    <3>3. QED
      BY <1>5, <3>1, <3>2
  <2>2. QED
    BY <2>1
<1>8. \A v \in (d + 2)..listed : \E k \in DOMAIN r : IsDescriptorOf(r[k], c) /\ r[k].relevantId = v
  <2>1. ASSUME NEW v \in (d + 2)..listed
        PROVE  \E k \in DOMAIN r : IsDescriptorOf(r[k], c) /\ r[k].relevantId = v
    <3>1. v \in (d + 1)..listed /\ v # d + 1
      BY <1>0
    <3>2. PICK k \in DOMAIN q : IsDescriptorOf(q[k], c) /\ q[k].relevantId = v
      BY <1>3, <3>1 DEF Progress
    <3>3. k # 1
      BY <1>5, <3>1, <3>2
    <3>4. k - 1 \in DOMAIN r /\ r[k - 1] = q[k]
      BY <1>1, <3>3, TakeOne
    <3>5. QED
      BY <3>2, <3>4
  <2>2. QED
    BY <2>1
<1>9. ASSUME recordingDescriptorPoller'.isDispatchComplete
      PROVE  archive[c].status = "done" /\ d + 1 = listed
  <2>1. recordingDescriptorPoller.remainingRecordCount = 1
    BY <1>0, <1>2, <1>4, <1>9 DEF Progress
  <2>2. d + 1 = listed /\ listed = n
    BY <1>0, <1>5, <1>4, <2>1
  <2>3. archive[c].status # "pending"
    BY <1>0, <2>2 DEF StreamListingInv, ListedInv
  <2>4. archive[c].status \in {"unsent", "pending", "done"}
    BY <1>0 DEF TypeOK, StreamTypeOK
  <2>5. QED
    BY <1>0, <2>2, <2>3, <2>4
<1>10. Progress(c, n)'
  <2>1. recordingDescriptorPoller'.remainingRecordCount = n - (d + 1)
    BY <1>0
  <2>2. d + 1 <= listed /\ d + 1 + 1 = d + 2
    BY <1>0, <1>4, <1>5
  <2>3. \A v \in (d + 1 + 1)..archive'[c].listed :
           \E k \in DOMAIN r : IsDescriptorOf(r[k], c) /\ r[k].relevantId = v
    BY <1>8, <2>2
  <2>4. /\ c \in CorrelationIds /\ archive'[c].status # "unsent" /\ archive'[c].count = n
        /\ archive'[c].listed = listed
    BY <1>0
  <2>5. recordingDescriptorPoller'.isDispatchComplete =>
           archive'[c].status = "done" /\ d + 1 = archive'[c].listed
    BY <1>9
  <2> HIDE DEF d, listed
  <2>6. QED
    BY <1>6, <1>7, <2>1, <2>2, <2>3, <2>4, <2>5 DEF Progress, IsDescriptorOf
<1>11. d < n
  BY <1>0, <1>4, <1>5
<1>12. QED
  BY <1>0, <1>2, <1>5, <1>10, <1>11
\* A message arrives: if it is a descriptor of the listing, it is the next.
LEMMA ProgressPut ==
    ASSUME TypeOK, StreamListingInv, NEW c, NEW n, Progress(c, n),
           NEW i \in Images, NEW m \in Message, Deliver(i, m), ArchiveGoesOn, Follows(i, m),
           UNCHANGED <<connected, delivered, recordingDescriptorPoller>>
    PROVE  Progress(c, n)'
<1> DEFINE q == queue[own]
           r == queue'[own]
           d == Len(delivered[c])
           listed == archive[c].listed
<1>0. /\ c \in CorrelationIds /\ d \in Nat /\ listed \in Nat
      /\ archive[c].status # "unsent" /\ archive[c].count = n
      /\ recordingDescriptorPoller.remainingRecordCount = n - d /\ d <= listed
  BY ProgressType DEF Progress
<1>1. connected /\ archive'[c].status # "unsent" /\ archive'[c].count = n
  BY <1>0, PutOne DEF ArchiveGoesOn
<1>2. /\ \A k \in DOMAIN r : (k \in DOMAIN q /\ r[k] = q[k]) \/ r[k] = m
      /\ \A k \in DOMAIN q : k \in DOMAIN r /\ r[k] = q[k]
      /\ i = own => \E k \in DOMAIN r : r[k] = m
  <2>1. CASE i = own
    BY <2>1, PutOne
  <2>2. CASE i # own
    BY <2>2, PutOne, OwnImage
  <2>3. QED
    BY <2>1, <2>2
<1>3. d <= archive'[c].listed /\ archive'[c].listed \in Int
  BY <1>0 DEF Follows
<1>4. \A k \in DOMAIN r : IsDescriptorOf(r[k], c) => d < r[k].relevantId
  <2>1. IsDescriptorOf(m, c) => d < m.relevantId
    BY <1>0 DEF Follows
  <2>2. QED
    BY <1>2, <2>1 DEF Progress
<1>5. \A v \in (d + 1)..archive'[c].listed : \E k \in DOMAIN r :
         IsDescriptorOf(r[k], c) /\ r[k].relevantId = v
  <2>1. ASSUME NEW v \in (d + 1)..archive'[c].listed
        PROVE  \E k \in DOMAIN r : IsDescriptorOf(r[k], c) /\ r[k].relevantId = v
    <3>1. CASE v \in (d + 1)..listed
      <4>1. PICK k \in DOMAIN q : IsDescriptorOf(q[k], c) /\ q[k].relevantId = v
        BY <1>1, <3>1 DEF Progress
      <4>2. QED
        BY <1>2, <4>1
    <3>2. CASE v \notin (d + 1)..listed
      <4>1. IsDescriptorOf(m, c) /\ m.relevantId = v
        BY <1>0, <3>2 DEF Follows
      <4>2. i = own
        BY <4>1 DEF Follows, IsDescriptorOf
      <4>3. QED
        BY <1>2, <4>1, <4>2
    <3>3. QED
      BY <3>1, <3>2
  <2>2. QED
    BY <2>1
<1>6. recordingDescriptorPoller'.isDispatchComplete =>
         archive'[c].status = "done" /\ d = archive'[c].listed
  BY <1>0 DEF Progress, ArchiveGoesOn
<1>7. recordingDescriptorPoller'.remainingRecordCount = n - d /\ delivered' = delivered
  BY <1>0
<1> HIDE DEF d, listed
<1>8. QED
  BY <1>0, <1>1, <1>3, <1>4, <1>5, <1>6, <1>7 DEF Progress, IsDescriptorOf, d

\* Once the images are gone nothing more comes.
LEMMA ProgressDisconnect ==
    ASSUME NEW c, NEW n, Progress(c, n), Disconnect
    PROVE  Progress(c, n)'
<1>1. DOMAIN queue'[own] = {} /\ ~connected'
  BY OwnImage, EmptySeq DEF Disconnect
<1>2. UNCHANGED <<archive, delivered, recordingDescriptorPoller>>
  BY DEF Disconnect, archiveVars, pollerVars
<1>3. QED
  BY <1>1, <1>2 DEF Progress

\* The request is sent: nothing has been said of it.
LEMMA ProgressSend ==
    ASSUME TypeOK, StreamListingInv, FreshInv, NEW t \in Threads, Send(t),
           request[t].kind = "descriptors"
    PROVE  Progress(request[t].correlationId, request[t].count)'
<1> DEFINE c == request[t].correlationId
           n == request[t].count
<1>1. c \in CorrelationIds /\ archive[c].status = "unsent" /\ n \in Nat
  BY DEF FreshInv, Send, TypeOK, ThreadTypeOK
<1>2. delivered[c] = <<>> /\ \A k \in DOMAIN queue[own] : ~IsDescriptorOf(queue[own][k], c)
  BY <1>1 DEF StreamListingInv, ListedInv, SaidInv
<1>3. UNCHANGED <<queue, delivered, request>>
  BY DEF Send
<1>4. archive'[c] = [status |-> "pending", kind |-> request[t].kind, count |-> n, listed |-> 0]
  BY <1>1 DEF Send, TypeOK, StreamTypeOK
<1>5. recordingDescriptorPoller' = ResetDispatch(recordingDescriptorPoller, c, n, c)
  BY DEF Send
<1>6. recordingDescriptorPoller'.remainingRecordCount = n
      /\ recordingDescriptorPoller'.isDispatchComplete = FALSE
  BY <1>5, Zenon DEF ResetDispatch, TypeOK, PollTypeOK, DescriptorPoller
<1>7. Len(delivered'[c]) = 0
  BY <1>2, <1>3, EmptySeq
<1>8. (0 + 1)..0 = {} /\ n = n - 0 /\ 0 <= 0
  BY <1>1
<1>9. /\ archive'[c].status # "unsent" /\ archive'[c].count = n /\ archive'[c].listed = 0
  BY <1>4
<1>10. request'[t].correlationId = c /\ request'[t].count = n
  BY <1>3
<1> HIDE DEF c, n
<1>11. QED
  BY <1>1, <1>2, <1>3, <1>6, <1>7, <1>8, <1>9, <1>10 DEF Progress, IsDescriptorOf
-----------------------------------------------------------------------------
(***************************************************************************)
(* The steps.                                                              *)
(***************************************************************************)
\* A step of a thread that takes no message and sends nothing.
QuietStep(t) ==
    \/ Call(t) \/ Lock(t) \/ FailToSend(t) \/ Poll(t) \/ NextImage(t)
    \/ PollForResponse(t) \/ PollForDescriptors(t) \/ PollForError(t)

LEMMA QuietStepKeeps ==
    ASSUME TypeOK, NEW t \in Threads, QuietStep(t)
    PROVE  /\ UNCHANGED <<queue, connected, archive, delivered>>
           /\ recordingDescriptorPoller'.remainingRecordCount =
                 recordingDescriptorPoller.remainingRecordCount
           /\ recordingDescriptorPoller'.isDispatchComplete =>
                 recordingDescriptorPoller.isDispatchComplete
<1>1. CASE Poll(t)
  <2>1. UNCHANGED <<queue, connected, archive, delivered>>
    BY <1>1 DEF Poll, archiveVars
  <2>2. \/ recordingDescriptorPoller' = recordingDescriptorPoller
        \/ recordingDescriptorPoller' = [recordingDescriptorPoller EXCEPT !.isDispatchComplete = FALSE]
    BY <1>1 DEF Poll
  <2>3. QED
    BY <2>1, <2>2, Zenon DEF TypeOK, PollTypeOK, DescriptorPoller
<1>2. CASE ~Poll(t)
  <2>1. UNCHANGED <<queue, connected, archive, delivered, recordingDescriptorPoller>>
    BY <1>2 DEF QuietStep, Call, Lock, FailToSend, NextImage, PollForResponse, PollForDescriptors,
       PollForError, archiveVars, pollerVars
  <2>2. QED
    BY <2>1
<1>3. QED
  BY <1>1, <1>2

\* A step of a thread that takes a message and gives it to no consumer.
DroppingStep(t) == AssembleFragment(t) \/ ResponseFragment(t) \/ ThrowingFragment(t)

LEMMA DroppingStepKeeps ==
    ASSUME NEW t \in Threads, DroppingStep(t)
    PROVE  /\ HasFragment(t) /\ TakeFragment
           /\ UNCHANGED <<connected, archive, delivered, recordingDescriptorPoller>>
           /\ UsesDescriptorPoller(t) => Fragment.template # "RecordingDescriptor"
<1>1. HasFragment(t) /\ TakeFragment
  BY DEF DroppingStep, AssembleFragment, ResponseFragment, ThrowingFragment
<1>2. UNCHANGED <<connected, archive, delivered, recordingDescriptorPoller>>
  BY DEF DroppingStep, AssembleFragment, ResponseFragment, ThrowingFragment, archiveVars, pollerVars
<1>3. UsesDescriptorPoller(t) => Fragment.template # "RecordingDescriptor"
  BY DEF DroppingStep, AssembleFragment, ResponseFragment, ThrowingFragment, Throws,
         DescriptorHandlerThrows
<1>4. QED
  BY <1>1, <1>2, <1>3

\* Every step of a thread is one of these, sends, or runs the listing's handler.
LEMMA ThreadSteps ==
    ASSUME NEW t \in Threads, Call(t) \/ ThreadStep(t)
    PROVE  QuietStep(t) \/ DroppingStep(t) \/ Send(t) \/ DescriptorFragment(t)
BY DEF QuietStep, DroppingStep, ThreadStep

\* A thread that waits for an answer has just sent its request or waited before.
LEMMA WaitsAlready ==
    ASSUME TypeOK, LockInv, NEW t \in Threads, Call(t) \/ ThreadStep(t), ~Send(t),
           NEW u \in Threads, NEW kind \in SendingKind,
           pc'[u] \in {"poll", "fragment"}, request'[u].kind = kind
    PROVE  /\ Waiting(u, kind) /\ request'[u] = request[u]
           /\ Call(t) \/ u = t
<1> USE DEF TypeOK, ThreadTypeOK, Waiting
<1>1. CASE Call(t)
  <2>1. pc'[t] = "lock" /\ \A s \in Threads : s # t => pc'[s] = pc[s] /\ request'[s] = request[s]
    BY <1>1 DEF Call, Go
  <2>2. QED
    BY <1>1, <2>1
<1>2. CASE Lock(t)
  <2>1. pc[u] \notin {"poll", "fragment"}
    BY <1>2, ThreadAssumption DEF Lock, LockInv, ThreadAssumption
  <2>2. u = t
    BY <1>2, <2>1 DEF Lock, Go
  <2>3. pc'[t] = "poll" /\ request' = request /\ request[t].kind \notin SendingKind
    <3>1. CASE request[t].kind \in SendingKind
      BY <1>2, <2>2, <3>1 DEF Lock, Go
    <3>2. CASE request[t].kind \notin SendingKind
      BY <1>2, <3>2 DEF Lock, Go
    <3>3. QED
      BY <3>1, <3>2
  <2>4. FALSE
    BY <2>2, <2>3
  <2>5. QED
    BY <2>4
<1>3. CASE ThreadStep(t) /\ ~Lock(t)
  <2>1. pc[t] \in Busy /\ lock = t
    BY <1>3, HolderStep DEF LockInv, Busy
  <2>2. u = t
    <3>1. ASSUME u # t PROVE FALSE
      <4>1. pc[u] \notin Busy
        BY <2>1, <3>1 DEF LockInv, Busy
      <4>2. pc'[u] = pc[u]
        BY <1>3, <3>1, HolderStep DEF Leave, Go
      <4>3. QED
        BY <4>1, <4>2 DEF Busy
    <3>2. QED
      BY <3>1
  <2>3. ~ \E how, value, cause : Leave(t, how, value, cause)
    BY <2>2 DEF Leave, Go
  <2>4. request' = request
    BY <1>3, <2>3, HolderStep
  <2>5. pc[t] # "send"
    BY <1>3, <2>3 DEF ThreadStep, Poll, NextImage, AssembleFragment, ResponseFragment, FailToSend,
       DescriptorFragment, ThrowingFragment, HasFragment, PollForResponse, PollForDescriptors,
       PollForError, PollIsOver
  <2>6. QED
    BY <2>1, <2>2, <2>4, <2>5 DEF Busy
<1>4. QED
  BY <1>1, <1>2, <1>3

\* What the handler of the holder's listing does with a fragment.
LEMMA HandlerStep ==
    ASSUME TypeOK, IInv, NEW t \in Threads, DescriptorFragment(t),
           NEW c, c = request[t].correlationId
    PROVE  /\ HasFragment(t) /\ TakeFragment /\ UNCHANGED <<connected, archive>>
           /\ Waiting(t, "descriptors")
           /\ IsDescriptorOf(Fragment, c) =>
                 /\ delivered' = [delivered EXCEPT ![c] = Append(@, Fragment.relevantId)]
                 /\ recordingDescriptorPoller'.remainingRecordCount =
                       recordingDescriptorPoller.remainingRecordCount - 1
                 /\ recordingDescriptorPoller'.isDispatchComplete =>
                       \/ recordingDescriptorPoller.isDispatchComplete
                       \/ recordingDescriptorPoller.remainingRecordCount = 1
           /\ ~IsDescriptorOf(Fragment, c) =>
                 /\ delivered' = delivered
                 /\ recordingDescriptorPoller'.remainingRecordCount =
                       recordingDescriptorPoller.remainingRecordCount
                 /\ recordingDescriptorPoller'.isDispatchComplete =>
                       recordingDescriptorPoller.isDispatchComplete \/ IsEndOf(Fragment, c)
<1> DEFINE p == recordingDescriptorPoller
           m == Fragment
<1>1. HasFragment(t) /\ TakeFragment /\ UNCHANGED <<connected, archive>>
  BY DEF DescriptorFragment, archiveVars
<1>2. Waiting(t, "descriptors")
  BY DEF DescriptorFragment, HasFragment, UsesDescriptorPoller, Waiting
<1>3. p.controlSessionId = Session /\ p.correlationId = c /\ p.consumer = c
  BY <1>2 DEF IInv, SessionInv, ConsumerInv
<1>4. IsDispatched(p, m) <=> IsDescriptorOf(m, c)
  BY <1>3 DEF IsDispatched, IsDescriptorOf
<1>5. EndsListing(p, m) <=> IsEndOf(m, c)
  BY <1>3 DEF EndsListing, IsEndOf
<1>6. p' = OnDescriptorFragment(p, m)
  BY DEF DescriptorFragment
<1>7. /\ p'.remainingRecordCount =
            IF IsDispatched(p, m) THEN p.remainingRecordCount - 1 ELSE p.remainingRecordCount
      /\ p'.isDispatchComplete = (p.isDispatchComplete \/ BreaksPoll(p, m))
  BY <1>6, Zenon DEF OnDescriptorFragment, TypeOK, PollTypeOK, DescriptorPoller
<1>8. IF IsDispatched(p, m)
      THEN delivered' = [delivered EXCEPT ![p.consumer] = Append(@, m.relevantId)]
      ELSE delivered' = delivered
  BY DEF DescriptorFragment
<1>9. CASE IsDescriptorOf(m, c)
  <2>1. ~EndsListing(p, m)
    BY <1>9 DEF IsDescriptorOf, EndsListing
  <2>2. QED
    BY <1>1, <1>2, <1>3, <1>4, <1>7, <1>8, <1>9, <2>1 DEF BreaksPoll
<1>10. CASE ~IsDescriptorOf(m, c)
  BY <1>1, <1>2, <1>4, <1>5, <1>7, <1>8, <1>10 DEF BreaksPoll
<1>11. QED
  BY <1>9, <1>10
\* A dispatched descriptor is the next of its listing, and was asked for.
LEMMA DispatchStep ==
    ASSUME TypeOK, IInv, ListingInv, NEW t \in Threads, DescriptorFragment(t),
           NEW c, c = request[t].correlationId, NEW n, n = request[t].count
    PROVE  /\ Progress(c, n)' /\ c \in CorrelationIds /\ archive[c].status # "unsent"
           /\ \/ delivered' = delivered
              \/ /\ delivered' = [delivered EXCEPT ![c] = Append(@, Len(delivered[c]) + 1)]
                 /\ Len(delivered[c]) < archive[c].count
<1>1. Progress(c, n) /\ StreamListingInv /\ n \in Nat
  BY HandlerStep DEF ListingInv, ProgressInv, TypeOK, ThreadTypeOK
<1>2. c \in CorrelationIds /\ archive[c].status # "unsent"
  BY <1>1 DEF Progress
<1>3. CASE IsDescriptorOf(Fragment, c)
  <2>1. /\ Progress(c, n)' /\ Fragment.relevantId = Len(delivered[c]) + 1
        /\ Len(delivered[c]) < archive[c].count
    BY <1>1, <1>3, HandlerStep, ProgressDispatch
  <2>2. QED
    BY <1>2, <1>3, <2>1, HandlerStep
<1>4. CASE ~IsDescriptorOf(Fragment, c)
  <2>1. Progress(c, n)'
    BY <1>1, <1>4, HandlerStep, ProgressTake
  <2>2. QED
    BY <1>2, <1>4, <2>1, HandlerStep
<1>5. QED
  BY <1>3, <1>4

LEMMA ListedStep ==
    ASSUME TypeOK, IInv, ListingInv, Next
    PROVE  ListedInv'
<1>0. /\ archive \in [CorrelationIds -> [status : {"unsent", "pending", "done"}, kind : Kind,
                                          count : Nat, listed : Nat]]
      /\ delivered \in [CorrelationIds -> Seq(Int)]
      /\ ListedInv
  BY DEF TypeOK, StreamTypeOK, ListingInv, StreamListingInv
<1>1. CASE UNCHANGED <<archive, delivered>>
  BY <1>0, <1>1 DEF ListedInv
<1>2. ASSUME NEW t \in Threads, Send(t)
      PROVE  ListedInv'
  <2> DEFINE c == request[t].correlationId
  <2>1. c \in CorrelationIds /\ archive[c].status = "unsent" /\ request[t].count \in Nat
    BY <1>2 DEF Send, ListingInv, FreshInv, TypeOK, ThreadTypeOK
  <2>2. /\ archive' = [archive EXCEPT ![c] = [status |-> "pending", kind |-> request[t].kind,
                                              count |-> request[t].count, listed |-> 0]]
        /\ delivered' = delivered
    BY <1>2 DEF Send
  <2>3. \A d \in CorrelationIds : d # c => archive'[d] = archive[d]
    BY <1>0, <2>2
  <2>4. archive'[c].status = "pending" /\ archive'[c].listed = 0 /\ archive'[c].count = request[t].count
    BY <1>0, <2>1, <2>2
  <2>5. QED
    BY <1>0, <2>1, <2>2, <2>3, <2>4 DEF ListedInv
<1>3. ASSUME NEW t \in Threads, DescriptorFragment(t)
      PROVE  ListedInv'
  <2>1. PICK c, n : c = request[t].correlationId /\ n = request[t].count
    OBVIOUS
  <2>2. archive' = archive /\ archive[c].status # "unsent"
    BY <1>3, <2>1, DispatchStep, HandlerStep
  <2>3. \A d \in CorrelationIds : d # c => delivered'[d] = delivered[d]
    BY <1>0, <1>3, <2>1, DispatchStep
  <2>4. QED
    BY <1>0, <2>2, <2>3 DEF ListedInv
<1>4. ASSUME NEW c \in CorrelationIds, Answer(c) \/ EndListing(c) \/ AsyncError(c)
      PROVE  ListedInv'
  <2>1. \/ archive[c].status = "pending" /\ archive' = [archive EXCEPT ![c].status = "done"]
        \/ archive' = archive
    BY <1>4 DEF Answer, EndListing, AsyncError
  <2>2. delivered' = delivered
    BY <1>4 DEF Answer, EndListing, AsyncError, UnchangedByArchive
  <2>3. QED
    BY <1>0, <2>1, <2>2 DEF ListedInv
<1>5. ASSUME NEW c \in CorrelationIds, ListRecording(c)
      PROVE  ListedInv'
  <2> DEFINE n == archive[c].listed + 1
  <2>1. n <= archive[c].count /\ n \in Nat /\ delivered' = delivered
    BY <1>0, <1>5 DEF ListRecording, UnchangedByArchive
  <2>2. /\ archive'[c].listed = n /\ archive'[c].count = archive[c].count
        /\ archive'[c].status = IF n = archive[c].count THEN "done" ELSE "pending"
        /\ \A d \in CorrelationIds : d # c => archive'[d] = archive[d]
    BY <1>0, <1>5 DEF ListRecording
  <2>3. archive'[c].status = "pending" => n < archive[c].count
    BY <1>0, <2>1, <2>2
  <2> HIDE DEF n
  <2>4. QED
    BY <1>0, <2>1, <2>2, <2>3 DEF ListedInv
<1>6. CASE Environment /\ ~ \E c \in CorrelationIds :
              Answer(c) \/ ListRecording(c) \/ EndListing(c) \/ AsyncError(c)
  BY <1>1, <1>6 DEF Environment, Noise, Disconnect, DeadlinePasses, archiveVars, UnchangedByArchive
<1>7. ASSUME NEW t \in Threads, Call(t) \/ ThreadStep(t), ~Send(t), ~DescriptorFragment(t)
      PROVE  ListedInv'
  BY <1>1, <1>7, ThreadSteps, QuietStepKeeps, DroppingStepKeeps
<1>8. QED
  BY <1>2, <1>3, <1>4, <1>5, <1>6, <1>7 DEF Next, Environment

LEMMA StreamListingStep ==
    ASSUME TypeOK, IInv, ListingInv, Next
    PROVE  StreamListingInv'
<1>0. ListedInv' /\ StreamListingInv
  BY ListedStep DEF ListingInv
<1>1. ASSUME UNCHANGED <<queue, connected, archive>>
      PROVE  PlaceInv' /\ SaidInv' /\ OrderInv'
  BY <1>0, <1>1 DEF StreamListingInv, PlaceInv, SaidInv, OrderInv
<1>2. ASSUME NEW t \in Threads, Send(t)
      PROVE  PlaceInv' /\ SaidInv' /\ OrderInv'
  <2>1. request[t].correlationId \in CorrelationIds /\ archive[request[t].correlationId].status = "unsent"
    BY <1>2 DEF Send, ListingInv, FreshInv
  <2>2. \A d \in CorrelationIds : d # request[t].correlationId => archive'[d] = archive[d]
    BY <1>2 DEF Send, TypeOK, StreamTypeOK
  <2>3. UNCHANGED <<queue, connected>>
    BY <1>2 DEF Send
  <2>4. SaidInv'
    BY <1>0, <2>1, <2>2, <2>3 DEF StreamListingInv, SaidInv
  <2>5. PlaceInv' /\ OrderInv'
    BY <1>0, <2>3 DEF StreamListingInv, PlaceInv, OrderInv
  <2>6. QED
    BY <2>4, <2>5
<1>3. ASSUME NEW t \in Threads, Call(t) \/ ThreadStep(t), ~Send(t)
      PROVE  PlaceInv' /\ SaidInv' /\ OrderInv'
  <2>1. CASE QuietStep(t)
    BY <1>1, <2>1, QuietStepKeeps
  <2>2. CASE DroppingStep(t)
    BY <1>0, <2>2, DroppingStepKeeps, TakeKeepsStream
  <2>3. CASE DescriptorFragment(t)
    BY <1>0, <2>3, HandlerStep, TakeKeepsStream
  <2>4. QED
    BY <1>3, <2>1, <2>2, <2>3, ThreadSteps
<1>4. ASSUME Disconnect
      PROVE  PlaceInv' /\ SaidInv' /\ OrderInv'
  <2>1. \A i \in Images : DOMAIN queue'[i] = {}
    BY <1>4, EmptySeq DEF Disconnect
  <2>2. QED
    BY <2>1, OwnImage DEF PlaceInv, SaidInv, OrderInv
<1>5. ASSUME DeadlinePasses
      PROVE  PlaceInv' /\ SaidInv' /\ OrderInv'
  BY <1>1, <1>5 DEF DeadlinePasses, archiveVars
<1>6. ASSUME Environment, ~Disconnect, ~DeadlinePasses
      PROVE  PlaceInv' /\ SaidInv' /\ OrderInv'
  <2>1. PICK i \in Images, m \in Message : Deliver(i, m) /\ ArchiveGoesOn /\ Follows(i, m)
    BY <1>6, EnvironmentFollows
  <2>2. connected' = connected
    BY <1>6 DEF Environment, Answer, ListRecording, EndListing, AsyncError, Noise, UnchangedByArchive
  <2>3. QED
    BY <1>0, <2>1, <2>2, PutKeepsStream
<1>7. PlaceInv' /\ SaidInv' /\ OrderInv'
  BY <1>2, <1>3, <1>4, <1>5, <1>6 DEF Next
<1>8. QED
  BY <1>0, <1>7 DEF StreamListingInv
\* An id is new when it is drawn, and stays so until the request is sent.
LEMMA FreshStep ==
    ASSUME TypeOK, IInv, ListingInv, Next
    PROVE  FreshInv'
<1> USE DEF TypeOK, ThreadTypeOK
<1>1. ASSUME NEW u \in Threads, pc'[u] = "send", pc[u] = "send", request'[u] = request[u],
             \A c \in CorrelationIds : archive[c].status = "unsent" =>
                archive'[c].status = "unsent" \/ c # request[u].correlationId
      PROVE  /\ request'[u].correlationId \in CorrelationIds
             /\ archive'[request'[u].correlationId].status = "unsent"
  BY <1>1 DEF ListingInv, FreshInv
<1>2. ASSUME NEW u \in Threads, pc'[u] = "send"
      PROVE  /\ request'[u].correlationId \in CorrelationIds
             /\ archive'[request'[u].correlationId].status = "unsent"
  <2>1. ASSUME NEW t \in Threads, Call(t)
        PROVE  pc[u] = "send" /\ request'[u] = request[u] /\ archive' = archive
    BY <1>2, <2>1 DEF Call, Go, archiveVars
  <2>2. ASSUME NEW t \in Threads, Lock(t)
        PROVE  /\ request'[u].correlationId \in CorrelationIds
               /\ archive'[request'[u].correlationId].status = "unsent"
    <3>1. pc[u] # "send"
      BY <2>2, ThreadAssumption DEF Lock, IInv, LockInv, ThreadAssumption
    <3>2. u = t /\ request[t].kind \in SendingKind
      BY <1>2, <2>2, <3>1 DEF Lock, Go
    <3>3. request'[u].correlationId = nextCorrelationId /\ nextCorrelationId \in CorrelationIds
          /\ archive' = archive
      BY <2>2, <3>2 DEF Lock, archiveVars
    <3>4. archive[nextCorrelationId].status = "unsent"
      BY <3>3 DEF IInv, SentInv, CorrelationIds
    <3>5. QED
      BY <3>3, <3>4
  <2>3. ASSUME NEW t \in Threads, ThreadStep(t), ~Lock(t)
        PROVE  FALSE
    <3>1. pc[t] \in Busy /\ lock = t
      BY <2>3, HolderStep DEF IInv, LockInv, Busy
    <3>2. u # t => pc'[u] = pc[u] /\ pc[u] \notin Busy
      BY <2>3, <3>1, HolderStep DEF IInv, LockInv, Busy, Leave, Go
    <3>3. u = t
      BY <1>2, <3>2 DEF Busy
    <3>4. pc'[t] # "send"
      BY <2>3 DEF ThreadStep, Send, FailToSend, Poll, NextImage, AssembleFragment, ResponseFragment,
         DescriptorFragment, ThrowingFragment, HasFragment, PollForResponse, PollForDescriptors,
         PollForError, PollIsOver, PollAgain, GiveUp, Leave, Go, threadVars
    <3>5. QED
      BY <1>2, <3>3, <3>4
  <2>4. ASSUME Environment
        PROVE  /\ pc[u] = "send" /\ request'[u] = request[u]
               /\ \A c \in CorrelationIds : archive[c].status = "unsent" => archive'[c].status = "unsent"
    <3>1. UNCHANGED <<pc, request>>
      BY <2>4, EnvironmentStep DEF threadVars
    <3>2. archive' = archive \/ ArchiveGoesOn
      BY <2>4, EnvironmentFollows DEF Disconnect, DeadlinePasses, archiveVars
    <3>3. QED
      BY <1>2, <3>1, <3>2 DEF ArchiveGoesOn
  <2>5. QED
    BY <1>1, <1>2, <2>1, <2>2, <2>3, <2>4 DEF Next
<1>3. QED
  BY <1>2 DEF FreshInv

\* The listing that waits goes on, step by step.
LEMMA ProgressStep ==
    ASSUME TypeOK, IInv, ListingInv, Next
    PROVE  ProgressInv'
<1> USE DEF ListingInv
<1>1. ASSUME NEW u \in Threads, Waiting(u, "descriptors"), request'[u] = request[u],
             \A c, n : c = request[u].correlationId /\ n = request[u].count => Progress(c, n)'
      PROVE  Progress(request[u].correlationId, request[u].count)'
  <2>1. PICK c, n : c = request[u].correlationId /\ n = request[u].count
    OBVIOUS
  <2>2. Progress(c, n)' /\ request'[u].correlationId = c /\ request'[u].count = n
    BY <1>1, <2>1
  <2>3. QED
    BY <2>2 DEF Progress
<1>2. ASSUME NEW u \in Threads, Waiting(u, "descriptors")'
      PROVE  Progress(request[u].correlationId, request[u].count)'
  <2>0. pc'[u] \in {"poll", "fragment"} /\ request'[u].kind = "descriptors"
    BY <1>2 DEF Waiting
  <2>1. ASSUME NEW t \in Threads, Send(t)
        PROVE  Progress(request[u].correlationId, request[u].count)'
    <3>1. \A s \in Threads : s # t => pc'[s] = pc[s] /\ pc[s] \notin {"poll", "fragment"}
      BY <2>1 DEF Send, Go, IInv, LockInv, TypeOK, ThreadTypeOK
    <3>2. u = t
      BY <2>0, <3>1
    <3>3. request[t].kind = "descriptors"
      BY <2>0, <2>1, <3>2 DEF Send
    <3>4. QED
      BY <2>1, <3>2, <3>3, ProgressSend
  <2>2. ASSUME NEW t \in Threads, Call(t) \/ ThreadStep(t), ~Send(t)
        PROVE  Progress(request[u].correlationId, request[u].count)'
    <3>1. Waiting(u, "descriptors") /\ request'[u] = request[u] /\ (Call(t) \/ u = t)
      BY <2>0, <2>2, WaitsAlready DEF IInv, SendingKind
    <3>2. ASSUME NEW c, NEW n, c = request[u].correlationId, n = request[u].count
          PROVE  Progress(c, n)'
      <4>1. Progress(c, n)
        BY <3>1, <3>2 DEF ProgressInv
      <4>2. ASSUME QuietStep(t) PROVE Progress(c, n)'
        BY <4>1, <4>2, QuietStepKeeps, ProgressStays
      <4>3. ASSUME DroppingStep(t) PROVE Progress(c, n)'
        <5>1. ~Call(t)
          BY <4>3, DroppingStepKeeps DEF Call, HasFragment
        <5>2. UsesDescriptorPoller(t)
          BY <3>1, <5>1 DEF Waiting, UsesDescriptorPoller
        <5>3. ~IsDescriptorOf(Fragment, c)
          BY <4>3, <5>2, DroppingStepKeeps DEF IsDescriptorOf
        <5>4. QED
          BY <4>1, <4>3, <5>3, DroppingStepKeeps, ProgressTake
      <4>4. ASSUME DescriptorFragment(t) PROVE Progress(c, n)'
        <5>1. u = t
          BY <3>1, <4>4 DEF Call, DescriptorFragment, HasFragment
        <5>2. QED
          BY <3>2, <4>4, <5>1, DispatchStep
      <4>5. QED
        BY <2>2, <4>2, <4>3, <4>4, ThreadSteps
    <3>3. QED
      BY <1>1, <3>1, <3>2
  <2>3. ASSUME Environment
        PROVE  Progress(request[u].correlationId, request[u].count)'
    <3>1. UNCHANGED <<pc, request, recordingDescriptorPoller, delivered>>
      BY <2>3, EnvironmentStep DEF threadVars, pollerVars
    <3>2. Waiting(u, "descriptors") /\ request'[u] = request[u]
      BY <2>0, <3>1 DEF Waiting
    <3>3. ASSUME NEW c, NEW n, c = request[u].correlationId, n = request[u].count
          PROVE  Progress(c, n)'
      <4>1. Progress(c, n)
        BY <3>2, <3>3 DEF ProgressInv
      <4>2. ASSUME Disconnect PROVE Progress(c, n)'
        BY <4>1, <4>2, ProgressDisconnect
      <4>3. ASSUME DeadlinePasses PROVE Progress(c, n)'
        BY <3>1, <4>1, <4>3, ProgressStays DEF DeadlinePasses, archiveVars
      <4>4. ASSUME ~Disconnect, ~DeadlinePasses PROVE Progress(c, n)'
        <5>1. PICK i \in Images, m \in Message : Deliver(i, m) /\ ArchiveGoesOn /\ Follows(i, m)
          BY <2>3, <4>4, EnvironmentFollows
        <5>2. connected' = connected
          BY <2>3, <4>4 DEF Environment, Answer, ListRecording, EndListing, AsyncError, Noise,
             UnchangedByArchive
        <5>3. QED
          BY <3>1, <4>1, <5>1, <5>2, ProgressPut
      <4>5. QED
        BY <4>2, <4>3, <4>4
    <3>4. QED
      BY <1>1, <3>2, <3>3
  <2>4. QED
    BY <2>1, <2>2, <2>3 DEF Next
<1>3. QED
  BY <1>2 DEF ProgressInv
\* A consumer gets the next recording, and no more than its call asked for.
LEMMA DeliveredStep ==
    ASSUME TypeOK, IInv, ListingInv, Next
    PROVE  DeliveredInOrder'
<1>0. /\ archive \in [CorrelationIds -> [status : {"unsent", "pending", "done"}, kind : Kind,
                                          count : Nat, listed : Nat]]
      /\ delivered \in [CorrelationIds -> Seq(Int)]
      /\ DeliveredInOrder
  BY DEF TypeOK, StreamTypeOK, ListingInv
<1>1. ASSUME delivered' = delivered,
             \A c \in CorrelationIds : archive'[c].count = archive[c].count
      PROVE  DeliveredInOrder'
  BY <1>0, <1>1 DEF DeliveredInOrder
<1>2. ASSUME NEW t \in Threads, Send(t)
      PROVE  DeliveredInOrder'
  <2> DEFINE c == request[t].correlationId
  <2>1. c \in CorrelationIds /\ delivered[c] = <<>> /\ request[t].count \in Nat
    BY <1>2 DEF Send, ListingInv, FreshInv, StreamListingInv, ListedInv, TypeOK, ThreadTypeOK
  <2>2. delivered' = delivered
    BY <1>2 DEF Send
  <2>3. archive'[c].count = request[t].count
        /\ \A d \in CorrelationIds : d # c => archive'[d] = archive[d]
    BY <1>0, <1>2, <2>1 DEF Send
  <2>4. Len(delivered[c]) = 0
    BY <2>1, EmptySeq
  <2>5. ASSUME NEW d \in CorrelationIds
        PROVE  /\ Len(delivered'[d]) <= archive'[d].count
               /\ \A k \in DOMAIN delivered'[d] : delivered'[d][k] = k
    <3>1. /\ Len(delivered[d]) <= archive[d].count
          /\ \A k \in DOMAIN delivered[d] : delivered[d][k] = k
      BY <1>0 DEF DeliveredInOrder
    <3>2. CASE d = c
      BY <2>1, <2>2, <2>3, <2>4, <3>1, <3>2
    <3>3. CASE d # c
      BY <2>2, <2>3, <3>1, <3>3
    <3>4. QED
      BY <3>2, <3>3
  <2>6. QED
    BY <2>5 DEF DeliveredInOrder
<1>3. ASSUME NEW t \in Threads, DescriptorFragment(t)
      PROVE  DeliveredInOrder'
  <2>1. PICK c, n : c = request[t].correlationId /\ n = request[t].count
    OBVIOUS
  <2>2. /\ c \in CorrelationIds /\ archive' = archive
        /\ \/ delivered' = delivered
           \/ /\ delivered' = [delivered EXCEPT ![c] = Append(@, Len(delivered[c]) + 1)]
              /\ Len(delivered[c]) < archive[c].count
    BY <1>3, <2>1, DispatchStep, HandlerStep
  <2>3. ASSUME delivered' = [delivered EXCEPT ![c] = Append(@, Len(delivered[c]) + 1)],
               Len(delivered[c]) < archive[c].count
        PROVE  DeliveredInOrder'
    <3> DEFINE d == Len(delivered[c])
    <3>1. d \in Nat /\ delivered[c] \in Seq(Int) /\ archive[c].count \in Nat
          /\ DOMAIN delivered[c] = 1..d
      BY <1>0, <2>2, LenProperties
    <3>2. delivered'[c] = Append(delivered[c], d + 1)
          /\ \A e \in CorrelationIds : e # c => delivered'[e] = delivered[e]
      BY <1>0, <2>2, <2>3
    <3>3. /\ Len(delivered'[c]) = d + 1 /\ DOMAIN delivered'[c] = 1..(d + 1)
          /\ delivered'[c][d + 1] = d + 1
          /\ \A k \in 1..d : delivered'[c][k] = delivered[c][k]
      BY <3>1, <3>2, AppendProperties, LenProperties
    <3>4. d + 1 <= archive[c].count
      BY <2>3, <3>1
    <3>5. \A k \in DOMAIN delivered'[c] : delivered'[c][k] = k
      <4>1. \A k \in 1..d : delivered[c][k] = k
        BY <1>0, <2>2, <3>1 DEF DeliveredInOrder
      <4>2. \A k \in 1..(d + 1) : k \in 1..d \/ k = d + 1
        BY <3>1
      <4>3. QED
        BY <3>3, <4>1, <4>2
    <3> HIDE DEF d
    <3>6. QED
      BY <1>0, <2>2, <3>2, <3>3, <3>4, <3>5 DEF DeliveredInOrder
  <2>4. QED
    BY <1>1, <2>2, <2>3
<1>4. ASSUME NEW t \in Threads, Call(t) \/ ThreadStep(t), ~Send(t), ~DescriptorFragment(t)
      PROVE  DeliveredInOrder'
  BY <1>1, <1>4, ThreadSteps, QuietStepKeeps, DroppingStepKeeps
<1>5. ASSUME Environment
      PROVE  DeliveredInOrder'
  <2>1. delivered' = delivered
    BY <1>5, EnvironmentStep
  <2>2. archive' = archive \/ ArchiveGoesOn
    BY <1>5, EnvironmentFollows DEF Disconnect, DeadlinePasses, archiveVars
  <2>3. QED
    BY <1>1, <2>1, <2>2 DEF ArchiveGoesOn
<1>6. QED
  BY <1>2, <1>3, <1>4, <1>5 DEF Next

\* A listing that returns has come to its end; and while its count is there to
\* be read, nothing touches the listing any more.
LEMMA CountStep ==
    ASSUME TypeOK, IInv, ListingInv, Next
    PROVE  ResultInv' /\ CountIsComplete'
<1> USE DEF ListingInv
<1>1. ASSUME UNCHANGED <<result, lock, delivered>>,
             \A c \in CorrelationIds : archive[c].status = "done" => archive'[c] = archive[c]
      PROVE  ResultInv' /\ CountIsComplete'
  BY <1>1 DEF ResultInv, CountIsComplete
<1>2. ASSUME result'.how # "count", result'.how = "none" \/ lock' = Nobody
      PROVE  ResultInv' /\ CountIsComplete'
  BY <1>2 DEF ResultInv, CountIsComplete
<1>3. ASSUME NEW t \in Threads, Call(t)
      PROVE  ResultInv' /\ CountIsComplete'
  BY <1>1, <1>3 DEF Call, archiveVars
<1>4. ASSUME NEW t \in Threads, Lock(t)
      PROVE  ResultInv' /\ CountIsComplete'
  BY <1>2, <1>4 DEF Lock, NoResult
<1>5. ASSUME NEW t \in Threads, PollForDescriptors(t), result'.how = "count"
      PROVE  ResultInv' /\ CountIsComplete'
  <2> DEFINE p == recordingDescriptorPoller
  <2>1. pc[t] = "fragment" /\ request[t].kind = "descriptors"
    BY <1>5 DEF PollForDescriptors, PollIsOver
  <2>2. lock = t
    BY <2>1 DEF IInv, LockInv
  <2>3. result.how = "none"
    BY <2>2, ThreadAssumption DEF ResultInv, ThreadAssumption
  <2>4. p.isDispatchComplete /\ Leave(t, "count", request[t].count - p.remainingRecordCount, NoId)
    BY <1>5, <2>3 DEF PollForDescriptors, GiveUp, Leave, PollAgain
  <2>5. PICK c, n : c = request[t].correlationId /\ n = request[t].count
    OBVIOUS
  <2>6. Progress(c, n) /\ n \in Nat
    BY <2>1, <2>5 DEF ProgressInv, Waiting, TypeOK, ThreadTypeOK
  <2>7. /\ c \in CorrelationIds /\ archive[c].status = "done"
        /\ Len(delivered[c]) = archive[c].listed
        /\ p.remainingRecordCount = n - Len(delivered[c])
    BY <2>4, <2>6 DEF Progress
  <2>8. n - p.remainingRecordCount = archive[c].listed
    BY <2>6, <2>7, ProgressType
  <2>9. lock' = Nobody /\ result'.correlationId = c /\ result'.value = archive[c].listed
    BY <2>4, <2>5, <2>8 DEF Leave
  <2>10. UNCHANGED <<archive, delivered>>
    BY <1>5 DEF PollForDescriptors, archiveVars
  <2>11. QED
    BY <2>7, <2>9, <2>10 DEF ResultInv, CountIsComplete
<1>6. ASSUME NEW t \in Threads, ThreadStep(t), ~Lock(t), ~PollForDescriptors(t) \/ result'.how # "count"
      PROVE  ResultInv' /\ CountIsComplete'
  <2>1. lock = t /\ t # Nobody
    BY <1>6, HolderStep, ThreadAssumption DEF IInv, LockInv, Busy, ThreadAssumption
  <2>2. result.how = "none"
    BY <2>1 DEF ResultInv
  <2>3. result' = result \/ lock' = Nobody
    BY <1>6, HolderStep DEF Leave
  <2>4. result'.how # "count"
    BY <1>6, <2>2 DEF ThreadStep, Send, FailToSend, Poll, NextImage, AssembleFragment,
       ResponseFragment, DescriptorFragment, ThrowingFragment, PollForResponse, PollForError,
       PollAgain, GiveUp, Leave, threadVars
  <2>5. QED
    BY <1>2, <2>2, <2>3, <2>4
<1>7. ASSUME Environment
      PROVE  ResultInv' /\ CountIsComplete'
  <2>1. UNCHANGED <<result, lock, delivered>>
    BY <1>7, EnvironmentStep DEF threadVars
  <2>2. archive' = archive \/ ArchiveGoesOn
    BY <1>7, EnvironmentFollows DEF Disconnect, DeadlinePasses, archiveVars
  <2>3. QED
    BY <1>1, <2>1, <2>2 DEF ArchiveGoesOn
<1>8. QED
  BY <1>3, <1>4, <1>5, <1>6, <1>7 DEF Next

LEMMA ListingInit == Init => ListingInv
<1> SUFFICES ASSUME Init PROVE ListingInv
  OBVIOUS
<1>1. \A i \in Images : DOMAIN queue[i] = {}
  BY EmptySeq DEF Init
<1>2. PlaceInv /\ SaidInv /\ OrderInv
  BY <1>1, OwnImage DEF PlaceInv, SaidInv, OrderInv
<1>3. \A c \in CorrelationIds : archive[c] = Unsent /\ delivered[c] = <<>>
  BY DEF Init
<1>4. ListedInv /\ DeliveredInOrder
  BY <1>3, EmptySeq DEF ListedInv, DeliveredInOrder, Unsent
<1>5. FreshInv /\ ProgressInv
  BY DEF Init, FreshInv, ProgressInv, Waiting
<1>6. ResultInv /\ CountIsComplete
  BY DEF Init, ResultInv, CountIsComplete, NoResult
<1>7. QED
  BY <1>2, <1>4, <1>5, <1>6 DEF ListingInv, StreamListingInv

\* The descriptors that were given to the consumer of the listing that waits and
\* those that are on their way are, in this order, what the archive has said of
\* that listing: neither late answers nor other sessions put one between them.
THEOREM ListingInvariant == Spec => []ListingInv
<1>1. TypeOK /\ IInv /\ ListingInv /\ Next => ListingInv'
  BY StreamListingStep, FreshStep, ProgressStep, CountStep, DeliveredStep DEF ListingInv
<1>2. ASSUME ListingInv, UNCHANGED vars
      PROVE  ListingInv'
  <2> USE <1>2 DEF vars, threadVars, pollerVars, archiveVars, ListingInv, StreamListingInv
  <2>1. ListedInv' /\ FreshInv' /\ DeliveredInOrder'
    BY DEF ListedInv, FreshInv, DeliveredInOrder
  <2>2. PlaceInv' /\ SaidInv' /\ OrderInv'
    BY DEF PlaceInv, SaidInv, OrderInv
  <2>3. ProgressInv'
    BY DEF ProgressInv, Progress, Waiting
  <2>4. ResultInv' /\ CountIsComplete'
    BY DEF ResultInv, CountIsComplete
  <2>5. QED
    BY <2>1, <2>2, <2>3, <2>4
<1>3. TypeOK /\ IInv /\ ListingInv /\ [Next]_vars => ListingInv'
  BY <1>1, <1>2
<1>4. QED
  BY <1>3, ListingInit, TypeCorrect, InductiveInvariant, PTL DEF Spec

\* A consumer sees the recordings of its own listing, each once and in order,
\* and no more than its call asked for; however many threads list, and whatever
\* earlier listings and other clients still have on the stream.
THEOREM ListingsInOrder == Spec => []DeliveredInOrder
<1>1. ListingInv => DeliveredInOrder
  BY DEF ListingInv
<1>2. QED
  BY <1>1, ListingInvariant, PTL

\* The count that listRecordings returns is what its consumer saw, and all that
\* the archive had: a listing that is cut short by a disconnect or a late error
\* does not return one.
THEOREM CountsAreComplete == Spec => []CountIsComplete
<1>1. ListingInv => CountIsComplete
  BY DEF ListingInv
<1>2. QED
  BY <1>1, ListingInvariant, PTL

-----------------------------------------------------------------------------
(***************************************************************************)
(* Answers, and the calls that get them.                                   *)
(***************************************************************************)
\* Every response that was sent is one of this session.
SentShapeInv == \A m \in sent : IsSessionResponse(m)

\* What is waited for with pollForResponse was asked, and is answered by one
\* response.
KindInv ==
    \A t \in Threads : Waiting(t, "response") =>
        /\ request[t].correlationId \in CorrelationIds
        /\ archive[request[t].correlationId].kind = "response"
        /\ archive[request[t].correlationId].status # "unsent"

\* A response in the poller has ended its poll: BREAK ends the poll of the image
\* and there is no other, so that no fragment is handled before the caller looks.
VisitInv ==
    LET p == controlResponsePoller IN
    /\ Len(visit) <= 1
    /\ \A t \in Threads : (pc[t] = "fragment" /\ ~UsesDescriptorPoller(t) /\ IsResponseToSession(p)) =>
          visit = <<>> /\ p.isPollComplete

\* The answer to c is on its way.
OnItsWay(c) == \E k \in DOMAIN queue[own] : queue[own][k] \in sent /\ queue[own][k].correlationId = c

\* The answer to c is in the poller, and the caller looks at it next.
Polled(t, c) ==
    /\ pc[t] = "fragment" /\ IsResponseToSession(controlResponsePoller)
    /\ controlResponsePoller.correlationId = c

AnswerInv ==
    /\ SentShapeInv /\ KindInv /\ VisitInv
    /\ \A t \in Threads :
          (Waiting(t, "response") /\ connected /\ archive[request[t].correlationId].status = "done") =>
             OnItsWay(request[t].correlationId) \/ Polled(t, request[t].correlationId)

-----------------------------------------------------------------------------
\* The archive sends responses of this session only, and never changes what
\* kind of request it was asked.
LEMMA EnvironmentAnswers ==
    ASSUME TypeOK, Environment
    PROVE  /\ \A m \in sent' : m \in sent \/ IsSessionResponse(m)
           /\ \A c \in CorrelationIds : archive'[c].kind = archive[c].kind
<1>0. archive \in [CorrelationIds -> [status : {"unsent", "pending", "done"}, kind : Kind,
                                       count : Nat, listed : Nat]]
  BY DEF TypeOK, StreamTypeOK
<1>1. ASSUME NEW c \in CorrelationIds, Answer(c) \/ EndListing(c) \/ AsyncError(c)
      PROVE  /\ \A m \in sent' : m \in sent \/ IsSessionResponse(m)
             /\ \A d \in CorrelationIds : archive'[d].kind = archive[d].kind
  <2>1. \E code, v : RespondTo(c, code, v)
    BY <1>1 DEF Answer, EndListing, AsyncError
  <2>2. \A m \in sent' : m \in sent \/ IsSessionResponse(m)
    BY <2>1 DEF RespondTo, ControlResponse, IsSessionResponse
  <2>3. archive' = archive \/ archive' = [archive EXCEPT ![c].status = "done"]
    BY <1>1 DEF Answer, EndListing, AsyncError
  <2>4. QED
    BY <1>0, <2>2, <2>3
<1>2. ASSUME NEW c \in CorrelationIds, ListRecording(c)
      PROVE  /\ sent' = sent
             /\ \A d \in CorrelationIds : archive'[d].kind = archive[d].kind
  BY <1>0, <1>2 DEF ListRecording
<1>3. CASE Noise \/ Disconnect \/ DeadlinePasses
  BY <1>3 DEF Noise, Disconnect, DeadlinePasses, archiveVars
<1>4. QED
  BY <1>1, <1>2, <1>3 DEF Environment

\* Threads send requests, not responses.
LEMMA ThreadsSendNothing ==
    ASSUME NEW t \in Threads, Call(t) \/ ThreadStep(t)
    PROVE  sent' = sent /\ (~Send(t) => archive' = archive)
BY DEF Call, ThreadStep, Lock, Send, FailToSend, Poll, NextImage, AssembleFragment, ResponseFragment,
       DescriptorFragment, ThrowingFragment, PollForResponse, PollForDescriptors, PollForError,
       archiveVars

LEMMA SentShapeStep ==
    ASSUME TypeOK, SentShapeInv, Next
    PROVE  SentShapeInv'
<1>1. \A m \in sent' : m \in sent \/ IsSessionResponse(m)
  BY EnvironmentAnswers, ThreadsSendNothing DEF Next
<1>2. QED
  BY <1>1 DEF SentShapeInv, IsSessionResponse

LEMMA KindStep ==
    ASSUME TypeOK, IInv, FreshInv, KindInv, Next
    PROVE  KindInv'
<1> USE DEF TypeOK, ThreadTypeOK
<1>1. ASSUME NEW u \in Threads, pc'[u] \in {"poll", "fragment"}, request'[u].kind = "response"
      PROVE  /\ request'[u].correlationId \in CorrelationIds
             /\ archive'[request'[u].correlationId].kind = "response"
             /\ archive'[request'[u].correlationId].status # "unsent"
  <2>1. ASSUME NEW t \in Threads, Send(t)
        PROVE  /\ request'[u].correlationId \in CorrelationIds
               /\ archive'[request'[u].correlationId].kind = "response"
               /\ archive'[request'[u].correlationId].status # "unsent"
    <3>1. u = t
      BY <1>1, <2>1 DEF Send, Go, IInv, LockInv
    <3>2. request' = request /\ request[t].correlationId \in CorrelationIds
      BY <2>1 DEF Send, FreshInv
    <3>3. /\ archive'[request[t].correlationId].kind = request[t].kind
          /\ archive'[request[t].correlationId].status = "pending"
      BY <2>1, <3>2 DEF Send, StreamTypeOK
    <3>4. QED
      BY <1>1, <3>1, <3>2, <3>3
  <2>2. ASSUME NEW t \in Threads, Call(t) \/ ThreadStep(t), ~Send(t)
        PROVE  /\ request'[u].correlationId \in CorrelationIds
               /\ archive'[request'[u].correlationId].kind = "response"
               /\ archive'[request'[u].correlationId].status # "unsent"
    <3>1. Waiting(u, "response") /\ request'[u] = request[u]
      BY <1>1, <2>2, WaitsAlready DEF IInv, SendingKind
    <3>2. archive' = archive
      BY <2>2, ThreadsSendNothing
    <3>3. QED
      BY <3>1, <3>2 DEF KindInv
  <2>3. ASSUME Environment
        PROVE  /\ request'[u].correlationId \in CorrelationIds
               /\ archive'[request'[u].correlationId].kind = "response"
               /\ archive'[request'[u].correlationId].status # "unsent"
    <3>1. UNCHANGED <<pc, request>>
      BY <2>3, EnvironmentStep DEF threadVars
    <3>2. Waiting(u, "response")
      BY <1>1, <3>1 DEF Waiting
    <3>3. archive' = archive \/ ArchiveGoesOn
      BY <2>3, EnvironmentFollows DEF Disconnect, DeadlinePasses, archiveVars
    <3>4. QED
      BY <2>3, <3>1, <3>2, <3>3, EnvironmentAnswers DEF KindInv, ArchiveGoesOn
  <2>4. QED
    BY <2>1, <2>2, <2>3 DEF Next
<1>2. QED
  BY <1>1 DEF KindInv, Waiting

\* Only the start of a poll puts a thread among the fragments.
LEMMA FragmentAlready ==
    ASSUME TypeOK, LockInv, NEW t \in Threads, Call(t) \/ ThreadStep(t), ~Poll(t),
           NEW u \in Threads, pc'[u] = "fragment"
    PROVE  /\ pc[u] = "fragment" /\ request'[u] = request[u]
           /\ Call(t) \/ (u = t /\ ~Lock(t))
<1> USE DEF TypeOK, ThreadTypeOK
<1>1. CASE Call(t)
  BY <1>1 DEF Call, Go
<1>2. CASE Lock(t)
  <2>1. pc[u] # "fragment"
    BY <1>2, ThreadAssumption DEF Lock, LockInv, ThreadAssumption
  <2>2. QED
    BY <1>2, <2>1 DEF Lock, Go
<1>3. CASE ThreadStep(t) /\ ~Lock(t)
  <2>1. pc[t] \in Busy /\ lock = t
    BY <1>3, HolderStep DEF LockInv, Busy
  <2>2. u # t => pc'[u] = pc[u] /\ pc[u] \notin Busy
    BY <1>3, <2>1, HolderStep DEF LockInv, Busy, Leave, Go
  <2>3. u = t
    BY <2>2 DEF Busy
  <2>4. ~ \E how, value, cause : Leave(t, how, value, cause)
    BY <2>3 DEF Leave, Go
  <2>5. request' = request /\ (pc' = pc \/ Go(t, "poll"))
    BY <1>3, <2>4, HolderStep
  <2>6. QED
    BY <1>3, <2>3, <2>5 DEF Go
<1>4. QED
  BY <1>1, <1>2, <1>3

-----------------------------------------------------------------------------
\* With one image a poll has one image to visit.
LEMMA OneVisit ==
    ASSUME Images = {own}
    PROVE  \A order \in VisitOrders : Len(order) = 1
<1>1. Cardinality(Images) = 1
  BY FS_Singleton
<1>2. \A order \in VisitOrders : order \in [1..1 -> Images]
  BY <1>1 DEF VisitOrders
<1>3. QED
  BY <1>2, LenProperties, SeqDef

LEMMA VisitStep ==
    ASSUME Images = {own}, TypeOK, IInv, VisitInv, Next
    PROVE  VisitInv'
<1> DEFINE p == controlResponsePoller
<1>0. visit \in Seq(Images) /\ Len(visit) \in Nat
  BY LenProperties DEF TypeOK, PollTypeOK
<1>1. visit # <<>> => Tail(visit) = <<>>
  BY <1>0, HeadTailProperties, EmptySeq DEF VisitInv
<1>2. \A t \in Threads : Call(t) \/ ThreadStep(t) =>
         \/ Poll(t) /\ visit' \in VisitOrders
         \/ visit' = visit
         \/ visit' = <<>>
         \/ visit # <<>> /\ visit' = Tail(visit)
  BY DEF Call, ThreadStep, Lock, Send, FailToSend, Poll, NextImage, AssembleFragment, ResponseFragment,
       DescriptorFragment, HasFragment, ThrowingFragment, PollForResponse, PollForDescriptors,
       PollForError, PollAgain, GiveUp, Leave, pollVars
<1>3. Environment => visit' = visit /\ UNCHANGED <<pc, request, p>>
  BY EnvironmentStep DEF pollVars, threadVars, pollerVars
<1>4. Len(visit') <= 1
  <2>1. Len(<<>>) = 0 /\ Len(visit) <= 1
    BY EmptySeq DEF VisitInv
  <2>2. \/ visit' \in VisitOrders \/ visit' = visit \/ visit' = <<>>
    BY <1>1, <1>2, <1>3 DEF Next
  <2>3. CASE visit' \in VisitOrders
    <3>1. Len(visit') = 1
      BY <2>3, OneVisit
    <3>2. QED
      BY <3>1
  <2>4. CASE visit' = <<>>
    BY <2>4, EmptySeq
  <2>5. CASE visit' = visit
    BY <2>1, <2>5
  <2>6. QED
    BY <2>2, <2>3, <2>4, <2>5
<1>5. ASSUME NEW u \in Threads, pc'[u] = "fragment", request'[u].kind # "descriptors",
             IsResponseToSession(p')
      PROVE  visit' = <<>> /\ p'.isPollComplete
  <2>1. ASSUME NEW t \in Threads, Poll(t)
        PROVE  FALSE
    <3>1. u = t
      BY <1>5, <2>1 DEF Poll, Go, IInv, LockInv, TypeOK, ThreadTypeOK
    <3>2. p' = ResetPoll(p)
      BY <1>5, <2>1, <3>1 DEF Poll, UsesDescriptorPoller
    <3>3. p'.templateId = NoTemplate
      BY <3>2, Zenon DEF ResetPoll, TypeOK, PollTypeOK, ResponsePoller
    <3>4. QED
      BY <1>5, <3>3 DEF IsResponseToSession, NoTemplate
  <2>2. ASSUME NEW t \in Threads, ResponseFragment(t)
        PROVE  visit' = <<>> /\ p'.isPollComplete
    <3>1. visit # <<>> /\ visit' = Tail(visit) /\ p' = OnResponseFragment(p, Fragment)
      BY <2>2 DEF ResponseFragment, HasFragment
    <3>2. p'.isPollComplete
      BY <3>1, Zenon DEF OnResponseFragment, TypeOK, PollTypeOK, ResponsePoller
    <3>3. QED
      BY <1>1, <3>1, <3>2
  <2>3. ASSUME NEW t \in Threads, Call(t) \/ ThreadStep(t), ~Poll(t), ~ResponseFragment(t)
        PROVE  visit' = <<>> /\ p'.isPollComplete
    <3>1. pc[u] = "fragment" /\ request'[u] = request[u]
      BY <1>5, <2>3, FragmentAlready DEF IInv
    <3>2. p' = p
      BY <2>3 DEF Call, ThreadStep, Lock, Send, FailToSend, NextImage, AssembleFragment,
         DescriptorFragment, ThrowingFragment, PollForResponse, PollForDescriptors, PollForError,
         pollerVars
    <3>3. visit = <<>> /\ p.isPollComplete
      BY <1>5, <3>1, <3>2 DEF VisitInv, UsesDescriptorPoller
    <3>4. visit' = <<>>
      BY <1>2, <2>3, <3>3
    <3>5. QED
      BY <3>2, <3>3, <3>4
  <2>4. ASSUME Environment
        PROVE  visit' = <<>> /\ p'.isPollComplete
    BY <1>3, <1>5, <2>4 DEF VisitInv, UsesDescriptorPoller
  <2>5. QED
    BY <2>1, <2>2, <2>3, <2>4 DEF Next
<1>6. QED
  BY <1>4, <1>5 DEF VisitInv, UsesDescriptorPoller, IsResponseToSession
-----------------------------------------------------------------------------
(***************************************************************************)
(* The answer that waits to be seen.                                       *)
(***************************************************************************)
\* An answer on its way is overtaken by whatever else is taken.
LEMMA OnItsWayTake ==
    ASSUME TypeOK, Images = {own}, NEW t \in Threads, HasFragment(t), TakeFragment, sent' = sent,
           NEW c, OnItsWay(c)
    PROVE  OnItsWay(c)' \/ (Fragment \in sent /\ Fragment.correlationId = c)
<1>1. PICK k \in DOMAIN queue[own] : queue[own][k] \in sent /\ queue[own][k].correlationId = c
  BY DEF OnItsWay
<1>2. Image = own
  BY TakeOne
<1>3. CASE k = 1
  BY <1>1, <1>2, <1>3, TakeOne
<1>4. CASE k # 1
  <2>1. k - 1 \in DOMAIN queue'[own] /\ queue'[own][k - 1] = queue[own][k]
    BY <1>1, <1>2, <1>4, TakeOne
  <2>2. QED
    BY <1>1, <2>1 DEF OnItsWay
<1>5. QED
  BY <1>3, <1>4

LEMMA OnItsWayStays ==
    ASSUME TypeOK, NEW c, OnItsWay(c), sent \subseteq sent',
           queue' = queue \/ \E i \in Images, m \in Message : Deliver(i, m)
    PROVE  OnItsWay(c)'
<1>1. PICK k \in DOMAIN queue[own] : queue[own][k] \in sent /\ queue[own][k].correlationId = c
  BY DEF OnItsWay
<1>2. k \in DOMAIN queue'[own] /\ queue'[own][k] = queue[own][k]
  <2>1. ASSUME NEW i \in Images, NEW m \in Message, Deliver(i, m)
        PROVE  k \in DOMAIN queue'[own] /\ queue'[own][k] = queue[own][k]
    <3>1. CASE i = own
      BY <1>1, <2>1, <3>1, PutOne
    <3>2. CASE i # own
      BY <1>1, <2>1, <3>2, PutOne, OwnImage
    <3>3. QED
      BY <3>1, <3>2
  <2>2. QED
    BY <1>1, <2>1
<1>3. QED
  BY <1>1, <1>2 DEF OnItsWay

\* A thread's step takes no answer but into the poller, where it is looked at.
LEMMA ThreadsLoseNothing ==
    ASSUME Images = {own}, TypeOK, IInv, SentShapeInv, VisitInv,
           NEW u \in Threads, NEW c, Waiting(u, "response"), c = request[u].correlationId,
           pc'[u] \in {"poll", "fragment"}, OnItsWay(c) \/ Polled(u, c),
           NEW t \in Threads, Call(t) \/ ThreadStep(t), Call(t) \/ u = t
    PROVE  OnItsWay(c)' \/ Polled(u, c)'
<1> DEFINE p == controlResponsePoller
<1> USE DEF TypeOK, ThreadTypeOK
<1>0. sent' = sent /\ request[u].kind = "response" /\ ~UsesDescriptorPoller(u)
  BY ThreadsSendNothing DEF Waiting, UsesDescriptorPoller
<1>1. ASSUME queue' = queue, pc'[u] = pc[u], p' = p
      PROVE  OnItsWay(c)' \/ Polled(u, c)'
  BY <1>0, <1>1, OnItsWayStays DEF Polled, IsResponseToSession
<1>2. ASSUME queue' = queue, ~Polled(u, c)
      PROVE  OnItsWay(c)' \/ Polled(u, c)'
  BY <1>0, <1>2, OnItsWayStays
\* Something else is taken: it is no response of this session.
<1>3. ASSUME HasFragment(t), TakeFragment, Fragment \notin sent, pc'[u] = pc[u], p' = p
      PROVE  OnItsWay(c)' \/ Polled(u, c)'
  BY <1>0, <1>3, OnItsWayTake DEF Polled, IsResponseToSession
<1>4. ASSUME Call(t) PROVE OnItsWay(c)' \/ Polled(u, c)'
  <2>1. u # t /\ pc'[u] = pc[u] /\ UNCHANGED <<queue, p>>
    BY <1>4 DEF Call, Go, Waiting, pollerVars
  <2>2. QED
    BY <1>1, <2>1
<1>5. ASSUME u = t, Poll(t) PROVE OnItsWay(c)' \/ Polled(u, c)'
  BY <1>2, <1>5 DEF Poll, Polled
<1>6. ASSUME u = t, NextImage(t) PROVE OnItsWay(c)' \/ Polled(u, c)'
  BY <1>1, <1>6 DEF NextImage, threadVars, pollerVars
<1>7. ASSUME u = t, AssembleFragment(t) PROVE OnItsWay(c)' \/ Polled(u, c)'
  <2>1. /\ HasFragment(t) /\ TakeFragment /\ Fragment \notin sent
        /\ UNCHANGED <<pc, p>>
    BY <1>7 DEF AssembleFragment, threadVars, pollerVars, SentShapeInv, IsSessionResponse
  <2>2. QED
    BY <1>3, <2>1
<1>8. ASSUME u = t, ThrowingFragment(t) PROVE OnItsWay(c)' \/ Polled(u, c)'
  <2>1. /\ HasFragment(t) /\ TakeFragment /\ Throws(t, Fragment) /\ p' = p
        /\ pc' = pc \/ Go(t, "idle")
    BY <1>8 DEF ThrowingFragment, Leave, threadVars
  <2>2. Fragment \notin sent
    BY <1>0, <1>8, <2>1 DEF Throws, ResponseHandlerThrows, SentShapeInv, IsSessionResponse
  <2>3. pc' = pc
    BY <1>8, <2>1 DEF Go
  <2>4. QED
    BY <1>3, <2>1, <2>2, <2>3
\* The handler takes the answer, or something that comes before it.
<1>9. ASSUME u = t, ResponseFragment(t) PROVE OnItsWay(c)' \/ Polled(u, c)'
  <2>1. /\ HasFragment(t) /\ TakeFragment /\ visit # <<>> /\ pc[t] = "fragment"
        /\ pc' = pc /\ p' = OnResponseFragment(p, Fragment)
    BY <1>9 DEF ResponseFragment, HasFragment, threadVars
  <2>2. ~Polled(u, c)
    BY <1>0, <1>9, <2>1 DEF Polled, VisitInv
  <2>3. ASSUME Fragment \in sent, Fragment.correlationId = c
        PROVE  Polled(u, c)'
    <3>1. Fragment.template = "ControlResponse" /\ Fragment.session = Session
      BY <2>3 DEF SentShapeInv, IsSessionResponse
    <3>2. /\ p'.controlSessionId = Session /\ p'.templateId = "ControlResponse"
          /\ p'.correlationId = c
      BY <2>1, <2>3, <3>1 DEF OnResponseFragment
    <3>3. QED
      BY <1>9, <2>1, <3>2 DEF Polled, IsResponseToSession
  <2>4. QED
    BY <1>0, <2>1, <2>2, <2>3, OnItsWayTake
\* The caller looks: its answer makes it leave.
<1>10. ASSUME u = t, PollForResponse(t) PROVE OnItsWay(c)' \/ Polled(u, c)'
  <2>1. queue' = queue
    BY <1>10 DEF PollForResponse
  <2>2. ASSUME Polled(u, c) PROVE FALSE
    <3>1. p.isPollComplete /\ IsResponseToSession(p) /\ p.correlationId = request[t].correlationId
      BY <1>0, <1>10, <2>2 DEF Polled, VisitInv
    <3>2. \E how, value, cause : Leave(t, how, value, cause)
      BY <1>10, <3>1 DEF PollForResponse
    <3>3. QED
      BY <1>10, <3>2 DEF Leave, Go
  <2>3. QED
    BY <1>2, <2>1, <2>2
<1>11. ASSUME u = t, ~Poll(t), ~NextImage(t), ~AssembleFragment(t), ~ThrowingFragment(t),
              ~ResponseFragment(t), ~PollForResponse(t), ~Call(t)
       PROVE  FALSE
  <2>1. \/ Lock(t) \/ Send(t) \/ FailToSend(t)
        \/ DescriptorFragment(t) \/ PollForDescriptors(t) \/ PollForError(t)
    BY <1>11 DEF ThreadStep
  <2>2. QED
    BY <1>0, <1>11, <2>1 DEF Lock, Send, FailToSend, DescriptorFragment, PollForDescriptors,
       PollForError, PollIsOver, Waiting, UsesDescriptorPoller
<1>12. QED
  BY <1>4, <1>5, <1>6, <1>7, <1>8, <1>9, <1>10, <1>11

LEMMA AnswerStep ==
    ASSUME Images = {own}, TypeOK, IInv, FreshInv, AnswerInv, Next
    PROVE  AnswerInv'
<1> USE DEF AnswerInv
<1>1. SentShapeInv' /\ KindInv' /\ VisitInv'
  BY SentShapeStep, KindStep, VisitStep
<1>2. ASSUME NEW u \in Threads, pc'[u] \in {"poll", "fragment"}, request'[u].kind = "response",
             connected', NEW c, c = request'[u].correlationId, archive'[c].status = "done"
      PROVE  OnItsWay(c)' \/ Polled(u, c)'
  <2>1. ASSUME NEW t \in Threads, Send(t)
        PROVE  FALSE
    <3>1. u = t
      BY <1>2, <2>1 DEF Send, Go, IInv, LockInv, TypeOK, ThreadTypeOK
    <3>2. c = request[t].correlationId /\ c \in CorrelationIds
      BY <1>2, <2>1, <3>1 DEF Send, FreshInv
    <3>3. archive'[c].status = "pending"
      BY <2>1, <3>2 DEF Send, TypeOK, StreamTypeOK
    <3>4. QED
      BY <1>2, <3>3
  <2>2. ASSUME NEW t \in Threads, Call(t) \/ ThreadStep(t), ~Send(t)
        PROVE  OnItsWay(c)' \/ Polled(u, c)'
    <3>1. Waiting(u, "response") /\ request'[u] = request[u] /\ (Call(t) \/ u = t)
      BY <1>2, <2>2, WaitsAlready DEF IInv, SendingKind
    <3>2. archive' = archive /\ connected' = connected
      BY <2>2, ThreadsSendNothing DEF Call, ThreadStep, Lock, FailToSend, Poll, NextImage,
         AssembleFragment, ResponseFragment, DescriptorFragment, ThrowingFragment, PollForResponse,
         PollForDescriptors, PollForError
    <3>3. OnItsWay(c) \/ Polled(u, c)
      BY <1>2, <3>1, <3>2
    <3>4. QED
      BY <1>2, <2>2, <3>1, <3>3, ThreadsLoseNothing
  <2>3. ASSUME Environment
        PROVE  OnItsWay(c)' \/ Polled(u, c)'
    <3>1. UNCHANGED <<pc, request, controlResponsePoller>> /\ sent \subseteq sent'
      BY <2>3, EnvironmentStep, Monotonic DEF threadVars, pollerVars
    <3>2. Waiting(u, "response") /\ c = request[u].correlationId
      BY <1>2, <3>1 DEF Waiting
    <3>3. c \in CorrelationIds /\ archive[c].kind = "response"
      BY <3>2 DEF KindInv
    <3>4. ASSUME archive[c].status = "done"
          PROVE  OnItsWay(c)' \/ Polled(u, c)'
      <4>1. connected
        BY <1>2, <2>3 DEF Environment, Answer, ListRecording, EndListing, AsyncError, Noise,
           Disconnect, DeadlinePasses, UnchangedByArchive
      <4>2. OnItsWay(c) \/ Polled(u, c)
        BY <3>2, <3>4, <4>1
      <4>3. queue' = queue \/ \E i \in Images, m \in Message : Deliver(i, m)
        BY <1>2, <2>3, EnvironmentFollows DEF Disconnect, DeadlinePasses
      <4>4. OnItsWay(c) => OnItsWay(c)'
        BY <3>1, <4>3, OnItsWayStays
      <4>5. Polled(u, c) => Polled(u, c)'
        BY <3>1 DEF Polled, IsResponseToSession
      <4>6. QED
        BY <4>2, <4>4, <4>5
    <3>5. ASSUME archive[c].status # "done"
          PROVE  OnItsWay(c)'
      <4>1. Answer(c)
        <5>1. archive'[c] # archive[c]
          BY <1>2, <3>5
        <5>2. ASSUME NEW d \in CorrelationIds, d # c,
                     Answer(d) \/ ListRecording(d) \/ EndListing(d) \/ AsyncError(d)
              PROVE  archive'[c] = archive[c]
          <6>1. archive' = archive \/ archive' = [archive EXCEPT ![d] = archive'[d]]
            BY <5>2 DEF Answer, ListRecording, EndListing, AsyncError, TypeOK, StreamTypeOK
          <6>2. archive \in [CorrelationIds -> [status : {"unsent", "pending", "done"}, kind : Kind,
                                                count : Nat, listed : Nat]]
            BY DEF TypeOK, StreamTypeOK
          <6>3. QED
            BY <3>3, <5>2, <6>1, <6>2
        <5>3. ~ListRecording(c) /\ ~EndListing(c) /\ ~AsyncError(c)
          BY <3>3, <3>5 DEF ListRecording, EndListing, AsyncError
        <5>4. ~Noise /\ ~Disconnect /\ ~DeadlinePasses
          BY <5>1 DEF Noise, Disconnect, DeadlinePasses, archiveVars
        <5>5. QED
          BY <2>3, <5>1, <5>2, <5>3, <5>4 DEF Environment
      <4>2. PICK code \in Code, v \in Int : RespondTo(c, code, v)
        <5>1. RelevantIds \subseteq Int /\ NoId \in Int /\ "OK" \in Code
          BY DataAssumption DEF DataAssumption, NoId, Code
        <5>2. QED
          BY <4>1, <5>1 DEF Answer
      <4>3. ControlResponse(Session, c, code, v) \in Message
        BY <3>3, SessionAssumption, MessageType DEF SessionAssumption, CorrelationIds
      <4>4. \E k \in DOMAIN queue'[own] : queue'[own][k] = ControlResponse(Session, c, code, v)
        BY <4>2, <4>3, PutOne, OwnImage DEF RespondTo, own
      <4>5. ControlResponse(Session, c, code, v) \in sent'
            /\ ControlResponse(Session, c, code, v).correlationId = c
        BY <4>2 DEF RespondTo, ControlResponse
      <4>6. QED
        BY <4>4, <4>5 DEF OnItsWay
    <3>6. QED
      BY <3>4, <3>5
  <2>4. QED
    BY <2>1, <2>2, <2>3 DEF Next
<1>3. ASSUME NEW u \in Threads,
             (Waiting(u, "response") /\ connected /\ archive[request[u].correlationId].status = "done")'
      PROVE  (OnItsWay(request[u].correlationId) \/ Polled(u, request[u].correlationId))'
  <2>1. PICK c : c = request'[u].correlationId
    OBVIOUS
  <2>2. OnItsWay(c)' \/ Polled(u, c)'
    BY <1>2, <1>3, <2>1 DEF Waiting
  <2>3. QED
    BY <2>1, <2>2 DEF OnItsWay, Polled
<1>4. QED
  BY <1>1, <1>3

LEMMA AnswerInit ==
    ASSUME Init
    PROVE  AnswerInv
<1>1. Len(visit) <= 1
  BY EmptySeq DEF Init
<1>2. QED
  BY <1>1 DEF Init, AnswerInv, SentShapeInv, KindInv, VisitInv, Waiting

\* Where one image carries the responses, the answer to the call that waits is on
\* its way or just about to be looked at, whatever other threads poll, other
\* clients are told and handlers throw.
THEOREM AnswersAreKept ==
    ASSUME Images = {own}
    PROVE  Spec => []AnswerIsNotLost
<1>1. TypeOK /\ IInv /\ ListingInv /\ AnswerInv /\ [Next]_vars => AnswerInv'
  <2>1. TypeOK /\ IInv /\ ListingInv /\ AnswerInv /\ Next => AnswerInv'
    BY AnswerStep DEF ListingInv
  <2>2. AnswerInv /\ UNCHANGED vars => AnswerInv'
    BY DEF vars, threadVars, pollerVars, pollVars, archiveVars, AnswerInv, SentShapeInv, KindInv,
           VisitInv, OnItsWay, Polled, Waiting, UsesDescriptorPoller, IsResponseToSession,
           IsSessionResponse
  <2>3. QED
    BY <2>1, <2>2
<1>2. AnswerInv => AnswerIsNotLost
  BY OwnImage DEF AnswerInv, AnswerIsNotLost, OnItsWay, Polled
<1>3. QED
  BY <1>1, <1>2, AnswerInit, TypeCorrect, InductiveInvariant, ListingInvariant, PTL DEF Spec

-----------------------------------------------------------------------------
(***************************************************************************)
(* The calls implement ArchiveCalls: Lock is Begin, the ways out of a call *)
(* are those that ArchiveCalls names, the handler of a listing is Consume, *)
(* and the polling stutters.  The invariant says that a count is returned  *)
(* only of a listing that has come to its end, as the archive has it.      *)
(***************************************************************************)
\* Only an OK has a value.
ValueInv == \A m \in sent : m.code # "OK" => m.relevantId = NoId

\* A listing is complete when as many came as were asked for, or when the
\* archive has said that there are no more.
IsEnded(c) == \E m \in sent : IsEndOf(m, c) /\ m.relevantId = NoId

CompleteInv ==
    LET p == recordingDescriptorPoller IN
    \A t \in Threads : (Waiting(t, "descriptors") /\ p.isDispatchComplete) =>
        p.remainingRecordCount = 0 \/ IsEnded(request[t].correlationId)

CallInv == SentShapeInv /\ KindInv /\ ValueInv /\ CompleteInv

LEMMA ValueStep ==
    ASSUME TypeOK, ValueInv, Next
    PROVE  ValueInv'
<1>1. ASSUME NEW c \in CorrelationIds, Answer(c) \/ EndListing(c) \/ AsyncError(c)
      PROVE  \A m \in sent' : m \in sent \/ (m.code # "OK" => m.relevantId = NoId)
  <2>1. PICK code, v : RespondTo(c, code, v) /\ (code # "OK" => v = NoId)
    BY <1>1 DEF Answer, EndListing, AsyncError
  <2>2. QED
    BY <2>1 DEF RespondTo, ControlResponse
<1>2. ASSUME NEW c \in CorrelationIds, ListRecording(c)
      PROVE  sent' = sent
  BY <1>2 DEF ListRecording
<1>3. CASE Noise \/ Disconnect \/ DeadlinePasses
  BY <1>3 DEF Noise, Disconnect, DeadlinePasses, archiveVars, ValueInv
<1>4. QED
  BY <1>1, <1>2, <1>3, ThreadsSendNothing DEF Next, Environment, ValueInv

\* Once it is complete a listing stays so: nothing of it is left to dispatch.
LEMMA CompleteStep ==
    ASSUME TypeOK, IInv, ListingInv, ValueInv, CompleteInv, Next
    PROVE  CompleteInv'
<1> DEFINE p == recordingDescriptorPoller
<1>1. ASSUME NEW c, IsEnded(c)
      PROVE  IsEnded(c)'
  BY <1>1, Monotonic DEF IsEnded, IsEndOf
<1>2. ASSUME NEW u \in Threads, pc'[u] \in {"poll", "fragment"}, request'[u].kind = "descriptors",
             p'.isDispatchComplete, NEW c, c = request'[u].correlationId
      PROVE  p'.remainingRecordCount = 0 \/ IsEnded(c)'
  <2>1. ASSUME NEW t \in Threads, Send(t)
        PROVE  FALSE
    <3>1. u = t
      BY <1>2, <2>1 DEF Send, Go, IInv, LockInv, TypeOK, ThreadTypeOK
    <3>2. p' = ResetDispatch(p, request[t].correlationId, request[t].count, request[t].correlationId)
      BY <1>2, <2>1, <3>1 DEF Send
    <3>3. p'.isDispatchComplete = FALSE
      BY <3>2, Zenon DEF ResetDispatch, TypeOK, PollTypeOK, DescriptorPoller
    <3>4. QED
      BY <1>2, <3>3
  <2>2. ASSUME p'.remainingRecordCount = p.remainingRecordCount, p.isDispatchComplete,
               Waiting(u, "descriptors"), request'[u] = request[u]
        PROVE  p'.remainingRecordCount = 0 \/ IsEnded(c)'
    BY <1>1, <1>2, <2>2 DEF CompleteInv
  <2>3. ASSUME NEW t \in Threads, Call(t) \/ ThreadStep(t), ~Send(t), ~DescriptorFragment(t)
        PROVE  p'.remainingRecordCount = 0 \/ IsEnded(c)'
    <3>1. Waiting(u, "descriptors") /\ request'[u] = request[u]
      BY <1>2, <2>3, WaitsAlready DEF IInv, SendingKind
    <3>2. /\ p'.remainingRecordCount = p.remainingRecordCount
          /\ p'.isDispatchComplete => p.isDispatchComplete
      BY <2>3, ThreadSteps, QuietStepKeeps, DroppingStepKeeps
    <3>3. QED
      BY <1>2, <2>2, <3>1, <3>2
  <2>4. ASSUME NEW t \in Threads, DescriptorFragment(t)
        PROVE  p'.remainingRecordCount = 0 \/ IsEnded(c)'
    <3>1. Waiting(t, "descriptors") /\ pc' = pc /\ request' = request
      BY <2>4, HandlerStep DEF DescriptorFragment, threadVars
    <3>2. u = t
      BY <1>2, <3>1 DEF Waiting, IInv, LockInv
    <3>3. c = request[t].correlationId
      BY <1>2, <3>1, <3>2
    <3>4. PICK n : n = request[t].count
      OBVIOUS
    <3>5. Progress(c, n) /\ archive[c].count = n /\ c \in CorrelationIds
      BY <3>1, <3>3, <3>4 DEF ListingInv, ProgressInv, Progress
    <3>6. CASE IsDescriptorOf(Fragment, c)
      <4>1. /\ p'.remainingRecordCount = p.remainingRecordCount - 1
            /\ p.isDispatchComplete \/ p.remainingRecordCount = 1
            /\ delivered' = [delivered EXCEPT ![c] = Append(@, Fragment.relevantId)]
        BY <1>2, <2>4, <3>3, <3>6, HandlerStep
      <4>2. ~p.isDispatchComplete
        <5>1. n \in Nat /\ StreamListingInv
          BY <3>4 DEF TypeOK, ThreadTypeOK, ListingInv
        <5>2. Fragment.relevantId = Len(delivered[c]) + 1 /\ Progress(c, n)'
          BY <2>4, <3>3, <3>5, <3>6, <4>1, <5>1, HandlerStep, ProgressDispatch
        <5>3. Len(delivered'[c]) = Len(delivered[c]) + 1 /\ archive' = archive
          <6>1. delivered \in [CorrelationIds -> Seq(Int)] /\ delivered[c] \in Seq(Int)
                /\ Len(delivered[c]) + 1 \in Int
            BY <3>5, ProgressType DEF TypeOK, StreamTypeOK
          <6>2. delivered'[c] = Append(delivered[c], Len(delivered[c]) + 1)
            BY <3>5, <4>1, <5>2, <6>1
          <6>3. QED
            BY <2>4, <6>1, <6>2, AppendProperties, HandlerStep
        <5>4. Len(delivered[c]) + 1 <= archive[c].listed
          BY <5>2, <5>3 DEF Progress
        <5>5. Len(delivered[c]) # archive[c].listed
          BY <3>5, <5>4, ProgressType
        <5>6. QED
          BY <3>5, <5>5 DEF Progress
      <4>3. QED
        BY <4>1, <4>2
    <3>7. CASE ~IsDescriptorOf(Fragment, c)
      <4>1. /\ p'.remainingRecordCount = p.remainingRecordCount
            /\ p.isDispatchComplete \/ IsEndOf(Fragment, c)
        BY <1>2, <2>4, <3>3, <3>7, HandlerStep
      <4>2. ASSUME IsEndOf(Fragment, c)
            PROVE  IsEnded(c)
        <5>1. Fragment \in sent
          <6>1. IsSessionResponse(Fragment)
            BY <4>2 DEF IsEndOf, IsSessionResponse
          <6>2. Image \in Images /\ 1 \in DOMAIN queue[Image] /\ Fragment = queue[Image][1]
            BY <2>4, TakeOne, HandlerStep
          <6>3. QED
            BY <6>1, <6>2 DEF IInv, StreamInv
        <5>2. Fragment.relevantId = NoId
          BY <4>2, <5>1 DEF ValueInv, IsEndOf
        <5>3. QED
          BY <4>2, <5>1, <5>2 DEF IsEnded
      <4>3. QED
        BY <1>1, <2>2, <3>1, <3>2, <4>1, <4>2
    <3>8. QED
      BY <3>6, <3>7
  <2>5. ASSUME Environment
        PROVE  p'.remainingRecordCount = 0 \/ IsEnded(c)'
    <3>1. UNCHANGED <<pc, request, p>>
      BY <2>5, EnvironmentStep DEF threadVars, pollerVars
    <3>2. QED
      BY <1>2, <2>2, <3>1 DEF Waiting
  <2>6. QED
    BY <2>1, <2>3, <2>4, <2>5 DEF Next
<1>3. ASSUME NEW u \in Threads, (Waiting(u, "descriptors") /\ p.isDispatchComplete)'
      PROVE  (p.remainingRecordCount = 0 \/ IsEnded(request[u].correlationId))'
  <2>1. PICK c : c = request'[u].correlationId
    OBVIOUS
  <2>2. p'.remainingRecordCount = 0 \/ IsEnded(c)'
    BY <1>2, <1>3, <2>1 DEF Waiting
  <2>3. QED
    BY <2>1, <2>2 DEF IsEnded, IsEndOf
<1>4. QED
  BY <1>3 DEF CompleteInv

LEMMA CallInvInit == Init => CallInv
BY DEF Init, CallInv, SentShapeInv, KindInv, ValueInv, CompleteInv, Waiting

LEMMA CallInvStep ==
    ASSUME TypeOK, IInv, ListingInv, CallInv, [Next]_vars
    PROVE  CallInv'
<1>1. CASE Next
  BY <1>1, SentShapeStep, KindStep, ValueStep, CompleteStep DEF CallInv, ListingInv
<1>2. CASE UNCHANGED vars
  BY <1>2 DEF vars, threadVars, pollerVars, archiveVars, CallInv, SentShapeInv, KindInv, ValueInv,
              CompleteInv, IsEnded, IsEndOf, Waiting, IsSessionResponse
<1>3. QED
  BY <1>1, <1>2

-----------------------------------------------------------------------------
\* What ArchiveCalls sees of the call that is under way, and of what was said.
Current == IF lock = Nobody THEN NoRequest ELSE request[lock]
Heard(m) == [correlationId |-> m.correlationId, code |-> m.code, value |-> m.relevantId]
Said == { Heard(m) : m \in sent }

LEMMA CallsInit == Init => Calls!Init
BY DEF Init, Calls!Init, Calls!NoOutcome, NoResult, Unsent

\* The thread that holds the lock makes the call that is under way.
LEMMA HolderCalls ==
    ASSUME LockInv, NEW t \in Threads, pc[t] \in Busy
    PROVE  lock = t /\ lock # Nobody /\ Current = request[t]
BY ThreadAssumption DEF LockInv, Busy, Current, ThreadAssumption

\* A call that waits for an answer has sent its request.
LEMMA WaitsForAnswer ==
    ASSUME LockInv, KindInv, ProgressInv, NEW t \in Threads, pc[t] = "fragment",
           request[t].kind \in SendingKind
    PROVE  Calls!IsUnderWay({request[t].kind}) /\ Calls!IsUnderWay(SendingKind) /\ Calls!IsSent
<1>1. lock = t /\ lock # Nobody /\ Current = request[t]
  BY HolderCalls DEF Busy
<1>2. archive[request[t].correlationId].status # "unsent"
  BY DEF KindInv, ProgressInv, Progress, Waiting, SendingKind
<1>3. QED
  BY <1>1, <1>2 DEF Calls!IsUnderWay, Calls!IsSent, Current

\* What a thread does when it leaves is what ArchiveCalls calls the end of a call.
LEMMA LeaveEnds ==
    ASSUME LockInv, NEW t \in Threads, pc[t] \in Busy, NEW hw, NEW value, NEW cause,
           Leave(t, hw, value, cause), UNCHANGED <<archive, sent, delivered>>
    PROVE  Calls!End(hw, value, cause)
<1>1. Current = request[t] /\ lock' = Nobody /\ nextCorrelationId' = nextCorrelationId
  BY HolderCalls DEF Leave
<1>2. Current' = NoRequest /\ Said' = Said
  BY <1>1 DEF Current, Said, Heard
<1>3. result' = [how |-> hw, correlationId |-> Current.correlationId, value |-> value, cause |-> cause]
  BY <1>1 DEF Leave
<1>4. QED
  BY <1>1, <1>2, <1>3 DEF Calls!End, Current, Said, Heard

\* What ArchiveCalls does not see.
LEMMA CallsStutter ==
    ASSUME UNCHANGED <<lock, nextCorrelationId, archive, sent, delivered, result>>,
           lock # Nobody => request'[lock] = request[lock]
    PROVE  UNCHANGED Calls!vars
BY DEF Calls!vars

\* The poller of a call that waits for one response holds what the archive sent.
LEMMA PolledIsSaid ==
    ASSUME IInv, NEW t \in Threads, pc[t] = "fragment", ~UsesDescriptorPoller(t),
           IsResponseToSession(controlResponsePoller)
    PROVE  LET p == controlResponsePoller IN
           /\ [correlationId |-> p.correlationId, code |-> p.code, value |-> p.relevantId] \in Said
           /\ p.correlationId < nextCorrelationId
<1> DEFINE p == controlResponsePoller
           m == ControlResponse(Session, p.correlationId, p.code, p.relevantId)
<1>1. m \in sent
  BY DEF IInv, PollerInv
<1>2. m.correlationId = p.correlationId /\ m.code = p.code /\ m.relevantId = p.relevantId
  BY DEF ControlResponse
<1>3. m.correlationId < nextCorrelationId
  BY <1>1 DEF IInv, SentInv
<1> HIDE DEF m
<1>4. QED
  BY <1>1, <1>2, <1>3 DEF Said, Heard

\* The ERROR that the archive sent ends a call that gets to see it.
LEMMA ErrorEnds ==
    ASSUME TypeOK, IInv, NEW t \in Threads, pc[t] = "fragment", NEW r \in Said, r.code = "ERROR",
           r.correlationId \in Int, r.correlationId < nextCorrelationId,
           Leave(t, IF request[t].kind = "pollForErrorResponse" THEN "reported" ELSE "error",
                 NoId, r.correlationId),
           UNCHANGED <<archive, sent, delivered>>
    PROVE  Calls!ReturnError
<1>1. lock = t /\ lock # Nobody /\ Current = request[t] /\ LockInv
  BY HolderCalls DEF Busy, IInv
<1>2. request[t].kind \in SendingKind => r.correlationId <= request[t].correlationId
  BY <1>1 DEF IInv, LatestInv, TypeOK, ThreadTypeOK
<1>3. Calls!End(IF request[t].kind = "pollForErrorResponse" THEN "reported" ELSE "error",
                NoId, r.correlationId)
  BY <1>1, LeaveEnds DEF Busy
<1>4. Calls!SendingKind = SendingKind
  BY DEF Calls!SendingKind, SendingKind
<1>5. QED
  BY <1>1, <1>2, <1>3, <1>4 DEF Calls!ReturnError, Current, Said, Heard
-----------------------------------------------------------------------------
(***************************************************************************)
(* The steps, one lemma per group of actions.                              *)
(***************************************************************************)
LEMMA LockCalls ==
    ASSUME TypeOK, IInv, NEW t \in Threads, Lock(t)
    PROVE  Calls!Begin
<1>1. /\ lock = Nobody /\ lock' = t /\ t # Nobody /\ result' = NoResult
      /\ UNCHANGED <<archive, sent, delivered>>
  BY ThreadAssumption DEF Lock, ThreadAssumption, archiveVars
<1>2. Calls!NoOutcome = NoResult /\ Calls!SendingKind = SendingKind
      /\ Calls!ErrorPoll = {"pollForErrorResponse", "checkForErrorResponse"}
  BY DEF Calls!NoOutcome, NoResult, Calls!SendingKind, SendingKind, Calls!ErrorPoll
<1>3. /\ request[t] \in [kind : Kind, count : Nat, correlationId : Int]
      /\ request[t].correlationId = NoId
  BY DEF TypeOK, ThreadTypeOK, IInv, LatestInv, Lock
<1>4. CASE request[t].kind \in SendingKind
  <2>1. /\ nextCorrelationId \in CorrelationIds /\ nextCorrelationId' = nextCorrelationId + 1
        /\ request' = [request EXCEPT ![t].correlationId = nextCorrelationId]
    BY <1>4 DEF Lock
  <2>2. nextCorrelationId - 1 + 1 = nextCorrelationId /\ nextCorrelationId' - 1 = nextCorrelationId
    BY <2>1 DEF CorrelationIds
  <2>3. request'[t] \in [kind : SendingKind, count : Nat, correlationId : {nextCorrelationId}]
    BY <1>3, <1>4, <2>1 DEF TypeOK, ThreadTypeOK
  <2>4. QED
    BY <1>1, <1>2, <2>1, <2>2, <2>3 DEF Calls!Begin
<1>5. CASE request[t].kind \notin SendingKind
  <2>1. request' = request /\ nextCorrelationId' = nextCorrelationId
    BY <1>5 DEF Lock
  <2>2. request[t] \in [kind : {"pollForErrorResponse", "checkForErrorResponse"}, count : Nat,
                        correlationId : {NoId}]
    BY <1>3, <1>5 DEF Kind, SendingKind
  <2>3. QED
    BY <1>1, <1>2, <2>1, <2>2 DEF Calls!Begin
<1>6. QED
  BY <1>4, <1>5

LEMMA SendCalls ==
    ASSUME TypeOK, IInv, FreshInv, NEW t \in Threads, Send(t) \/ FailToSend(t)
    PROVE  Calls!Send \/ Calls!FailToSend
<1>1. pc[t] = "send"
  BY DEF Send, FailToSend
<1>2. lock = t /\ lock # Nobody /\ Current = request[t] /\ LockInv
  BY <1>1, HolderCalls DEF Busy, IInv
<1>3. request[t].correlationId \in CorrelationIds /\ archive[request[t].correlationId].status = "unsent"
  BY <1>1 DEF FreshInv
<1>4. request[t].kind \in SendingKind
  BY <1>2, <1>3 DEF IInv, LatestInv, CorrelationIds, NoId
<1>5. Calls!IsUnderWay(Calls!SendingKind) /\ ~Calls!IsSent
  BY <1>2, <1>3, <1>4 DEF Calls!IsUnderWay, Calls!IsSent, Calls!SendingKind, SendingKind, Current
<1>6. CASE Send(t)
  <2>1. /\ archive' = [archive EXCEPT ![request[t].correlationId] =
                         [status |-> "pending", kind |-> request[t].kind,
                          count |-> request[t].count, listed |-> 0]]
        /\ UNCHANGED <<request, lock, nextCorrelationId, sent, delivered, result>>
    BY <1>6 DEF Send
  <2>2. QED
    BY <1>2, <1>5, <2>1 DEF Calls!Send, Current
<1>7. CASE FailToSend(t)
  <2>1. Leave(t, "notSent", NoId, NoId) /\ UNCHANGED <<archive, sent, delivered>>
    BY <1>7 DEF FailToSend, archiveVars
  <2>2. QED
    BY <1>1, <1>2, <1>5, <2>1, LeaveEnds DEF Calls!FailToSend, Busy
<1>8. QED
  BY <1>6, <1>7

\* A call that ends without an answer had sent its request.
LEMMA LeaveGivesUp ==
    ASSUME TypeOK, IInv, KindInv, ProgressInv, NEW t \in Threads, pc[t] = "fragment",
           NEW hw \in {"timeout", "disconnected", "unknownTemplate"},
           request[t].kind \in SendingKind \/ hw = "unknownTemplate",
           Leave(t, hw, NoId, NoId), UNCHANGED <<archive, sent, delivered>>
    PROVE  Calls!GiveUp
<1>1. lock = t /\ lock # Nobody /\ Current = request[t] /\ LockInv
  BY HolderCalls DEF Busy, IInv
<1>2. Calls!End(hw, NoId, NoId)
  BY <1>1, LeaveEnds DEF Busy
<1>3. CASE request[t].kind \in SendingKind
  <2>1. Calls!IsUnderWay(Calls!SendingKind) /\ Calls!IsSent
    BY <1>1, <1>3, WaitsForAnswer DEF Calls!SendingKind, SendingKind
  <2>2. QED
    BY <1>2, <2>1 DEF Calls!GiveUp
<1>4. CASE request[t].kind \notin SendingKind
  <2>1. request[t].kind \in Calls!ErrorPoll
    BY <1>4 DEF TypeOK, ThreadTypeOK, Kind, SendingKind, Calls!ErrorPoll
  <2>2. Calls!IsUnderWay(Calls!ErrorPoll)
    BY <1>1, <2>1 DEF Calls!IsUnderWay, Current
  <2>3. QED
    BY <1>2, <1>4, <2>2 DEF Calls!GiveUp
<1>5. QED
  BY <1>3, <1>4

LEMMA FragmentCalls ==
    ASSUME TypeOK, IInv, ListingInv, CallInv, NEW t \in Threads,
           AssembleFragment(t) \/ ResponseFragment(t) \/ DescriptorFragment(t) \/ ThrowingFragment(t)
    PROVE  Calls!Next \/ UNCHANGED Calls!vars
<1>1. HasFragment(t) /\ TakeFragment /\ pc[t] = "fragment"
  BY DEF AssembleFragment, ResponseFragment, DescriptorFragment, ThrowingFragment, HasFragment
<1>2. lock = t /\ lock # Nobody /\ Current = request[t] /\ LockInv
  BY <1>1, HolderCalls DEF Busy, IInv
<1>3. CASE AssembleFragment(t) \/ ResponseFragment(t)
  BY <1>3, CallsStutter DEF AssembleFragment, ResponseFragment, threadVars, archiveVars
<1>4. CASE DescriptorFragment(t)
  <2>1. PICK c, n : c = request[t].correlationId /\ n = request[t].count
    OBVIOUS
  <2>2. /\ UNCHANGED <<pc, request, result, lock, nextCorrelationId, archive, sent>>
        /\ request[t].kind = "descriptors"
    BY <1>4 DEF DescriptorFragment, threadVars, archiveVars, UsesDescriptorPoller
  <2>3. CASE delivered' = delivered
    BY <2>2, <2>3, CallsStutter
  <2>4. CASE delivered' = [delivered EXCEPT ![c] = Append(@, Len(delivered[c]) + 1)]
    <3>1. c \in CorrelationIds /\ Progress(c, n)'
      BY <1>4, <2>1, DispatchStep
    <3>2. Len(delivered'[c]) = Len(delivered[c]) + 1
      <4>1. delivered \in [CorrelationIds -> Seq(Int)] /\ delivered[c] \in Seq(Int)
            /\ Len(delivered[c]) + 1 \in Int
        BY <3>1, ProgressType DEF TypeOK, StreamTypeOK
      <4>2. delivered'[c] = Append(delivered[c], Len(delivered[c]) + 1)
        BY <2>4, <3>1, <4>1
      <4>3. QED
        BY <4>1, <4>2, AppendProperties
    <3>3. Len(delivered[c]) + 1 <= archive[c].listed
      BY <2>2, <3>1, <3>2 DEF Progress
    <3>4. Calls!IsUnderWay({"descriptors"}) /\ Calls!IsSent
      BY <1>1, <1>2, <2>2, WaitsForAnswer DEF CallInv, ListingInv, SendingKind
    <3>5. Calls!Consume
      BY <1>2, <2>1, <2>2, <2>4, <3>3, <3>4 DEF Calls!Consume, Current
    <3>6. QED
      BY <3>5 DEF Calls!Next, Calls!CallerStep
  <2>5. QED
    BY <1>4, <2>1, <2>3, <2>4, DispatchStep
<1>5. CASE ThrowingFragment(t)
  <2>1. Throws(t, Fragment) /\ UNCHANGED <<archive, sent, delivered>>
    BY <1>5 DEF ThrowingFragment, archiveVars
  <2>2. CASE UNCHANGED threadVars
    BY <2>1, <2>2, CallsStutter DEF threadVars
  <2>3. CASE Leave(t, "unknownTemplate", NoId, NoId)
    BY <1>1, <2>1, <2>3, LeaveGivesUp DEF CallInv, ListingInv, Calls!Next, Calls!CallerStep
  <2>4. CASE Fragment.template = "ControlResponse" /\ Leave(t, "error", NoId, Fragment.correlationId)
    <3>1. /\ request[t].kind = "descriptors" /\ Fragment.code = "ERROR"
          /\ Fragment.session = recordingDescriptorPoller.controlSessionId
      BY <2>1, <2>4 DEF Throws, UsesDescriptorPoller, DescriptorHandlerThrows, ResponseHandlerThrows
    <3>2. IsSessionResponse(Fragment)
      BY <2>4, <3>1 DEF IInv, SessionInv, IsSessionResponse
    <3>3. Image \in Images /\ 1 \in DOMAIN queue[Image] /\ Fragment = queue[Image][1]
          /\ Fragment \in Message
      BY <1>1, TakeOne
    <3>4. Fragment \in sent
      BY <3>2, <3>3 DEF IInv, StreamInv
    <3>5. Heard(Fragment) \in Said /\ Heard(Fragment).code = "ERROR"
          /\ Heard(Fragment).correlationId = Fragment.correlationId
      BY <3>1, <3>4 DEF Said, Heard
    <3>6. Fragment.correlationId \in Int /\ Fragment.correlationId < nextCorrelationId
      BY <3>3, <3>4 DEF Message, IInv, SentInv
    <3>7. Calls!ReturnError
      BY <1>1, <2>1, <2>4, <3>1, <3>5, <3>6, ErrorEnds
    <3>8. QED
      BY <3>7 DEF Calls!Next, Calls!CallerStep
  <2>5. QED
    BY <1>5, <2>2, <2>3, <2>4 DEF ThrowingFragment
<1>6. QED
  BY <1>3, <1>4, <1>5

LEMMA PollForResponseCalls ==
    ASSUME TypeOK, IInv, ListingInv, CallInv, NEW t \in Threads, PollForResponse(t)
    PROVE  Calls!Next \/ UNCHANGED Calls!vars
<1> DEFINE p == controlResponsePoller
           answered == p.isPollComplete /\ IsResponseToSession(p)
           mine == p.correlationId = request[t].correlationId
           r == [correlationId |-> p.correlationId, code |-> p.code, value |-> p.relevantId]
<1>1. /\ pc[t] = "fragment" /\ request[t].kind = "response"
      /\ UNCHANGED <<archive, sent, delivered>>
  BY DEF PollForResponse, PollIsOver, archiveVars
<1>2. lock = t /\ lock # Nobody /\ Current = request[t] /\ LockInv
  BY <1>1, HolderCalls DEF Busy, IInv
<1>3. Calls!IsUnderWay({"response"})
  BY <1>1, <1>2 DEF Calls!IsUnderWay, Current
<1>4. answered => r \in Said /\ r.correlationId < nextCorrelationId
  BY <1>1, PolledIsSaid DEF UsesDescriptorPoller
<1>5. r.correlationId = p.correlationId /\ r.code = p.code /\ r.value = p.relevantId
      /\ r.correlationId \in Int
  BY DEF TypeOK, PollTypeOK, ResponsePoller
<1> HIDE DEF r
<1>6. CASE answered /\ p.code = "ERROR" /\ Leave(t, "error", NoId, p.correlationId)
  <2>1. Calls!ReturnError
    BY <1>1, <1>4, <1>5, <1>6, ErrorEnds
  <2>2. QED
    BY <2>1 DEF Calls!Next, Calls!CallerStep
<1>7. CASE answered /\ p.code \notin {"OK", "ERROR"} /\ mine
           /\ Leave(t, "unexpected", NoId, p.correlationId)
  <2>1. Calls!End("unexpected", NoId, p.correlationId)
    BY <1>1, <1>2, <1>7, LeaveEnds DEF Busy
  <2>2. Calls!ReturnUnexpected
    BY <1>2, <1>3, <1>4, <1>5, <1>7, <2>1 DEF Calls!ReturnUnexpected, Current, Said, Heard
  <2>3. QED
    BY <2>2 DEF Calls!Next, Calls!CallerStep
<1>8. CASE answered /\ p.code = "OK" /\ mine /\ Leave(t, "value", p.relevantId, p.correlationId)
  <2>1. Calls!End("value", r.value, r.correlationId)
    BY <1>1, <1>2, <1>5, <1>8, LeaveEnds DEF Busy
  <2>2. Calls!ReturnValue
    BY <1>2, <1>3, <1>4, <1>5, <1>8, <2>1 DEF Calls!ReturnValue, Current, Said, Heard
  <2>3. QED
    BY <2>2 DEF Calls!Next, Calls!CallerStep
<1>9. CASE PollAgain(t)
  BY <1>1, <1>9, CallsStutter DEF PollAgain
<1>10. CASE GiveUp(t)
  <2>1. Calls!GiveUp
    BY <1>1, <1>10, LeaveGivesUp DEF GiveUp, CallInv, ListingInv, SendingKind
  <2>2. QED
    BY <2>1 DEF Calls!Next, Calls!CallerStep
<1>11. QED
  BY <1>6, <1>7, <1>8, <1>9, <1>10 DEF PollForResponse

LEMMA PollForDescriptorsCalls ==
    ASSUME TypeOK, IInv, ListingInv, CallInv, NEW t \in Threads, PollForDescriptors(t)
    PROVE  Calls!Next \/ UNCHANGED Calls!vars
<1> DEFINE p == recordingDescriptorPoller
<1>1. /\ pc[t] = "fragment" /\ request[t].kind = "descriptors"
      /\ UNCHANGED <<archive, sent, delivered>>
  BY DEF PollForDescriptors, PollIsOver, archiveVars
<1>2. lock = t /\ lock # Nobody /\ Current = request[t] /\ LockInv
  BY <1>1, HolderCalls DEF Busy, IInv
<1>3. CASE p.isDispatchComplete /\ Leave(t, "count", request[t].count - p.remainingRecordCount, NoId)
  <2>1. PICK c, n : c = request[t].correlationId /\ n = request[t].count
    OBVIOUS
  <2>2. Progress(c, n) /\ n \in Nat
    BY <1>1, <2>1 DEF ListingInv, ProgressInv, Waiting, TypeOK, ThreadTypeOK
  <2>3. /\ c \in CorrelationIds /\ Len(delivered[c]) = archive[c].listed
        /\ p.remainingRecordCount = n - Len(delivered[c])
    BY <1>3, <2>2 DEF Progress
  <2>4. n - p.remainingRecordCount = Len(delivered[c])
    BY <2>2, <2>3, ProgressType
  <2>5. \/ Len(delivered[c]) = n
        \/ [correlationId |-> c, code |-> "RECORDING_UNKNOWN", value |-> NoId] \in Said
    <3>1. CASE p.remainingRecordCount = 0
      BY <2>2, <2>3, <3>1, ProgressType
    <3>2. CASE IsEnded(c)
      <4>1. PICK m \in sent : IsEndOf(m, c) /\ m.relevantId = NoId
        BY <3>2 DEF IsEnded
      <4>2. Heard(m) = [correlationId |-> c, code |-> "RECORDING_UNKNOWN", value |-> NoId]
        BY <4>1 DEF Heard, IsEndOf
      <4>3. QED
        BY <4>2 DEF Said
    <3>3. QED
      BY <1>1, <1>3, <2>1, <3>1, <3>2 DEF CallInv, CompleteInv, Waiting
  <2>6. Calls!End("count", Len(delivered[c]), NoId)
    BY <1>1, <1>2, <1>3, <2>1, <2>4, LeaveEnds DEF Busy
  <2>7. Calls!IsUnderWay({"descriptors"}) /\ Calls!IsSent
    BY <1>1, <1>2, WaitsForAnswer DEF CallInv, ListingInv, SendingKind
  <2>8. Calls!ReturnCount
    BY <1>2, <2>1, <2>3, <2>5, <2>6, <2>7 DEF Calls!ReturnCount, Calls!Response, Current, Said, Heard
  <2>9. QED
    BY <2>8 DEF Calls!Next, Calls!CallerStep
<1>4. CASE GiveUp(t)
  <2>1. Calls!GiveUp
    BY <1>1, <1>4, LeaveGivesUp DEF GiveUp, CallInv, ListingInv, SendingKind
  <2>2. QED
    BY <2>1 DEF Calls!Next, Calls!CallerStep
<1>5. CASE PollAgain(t)
  BY <1>1, <1>5, CallsStutter DEF PollAgain
<1>6. QED
  BY <1>3, <1>4, <1>5 DEF PollForDescriptors

LEMMA PollForErrorCalls ==
    ASSUME TypeOK, IInv, NEW t \in Threads, PollForError(t)
    PROVE  Calls!Next
<1> DEFINE p == controlResponsePoller
           r == [correlationId |-> p.correlationId, code |-> p.code, value |-> p.relevantId]
<1>1. /\ pc[t] = "fragment" /\ UNCHANGED <<archive, sent, delivered>>
      /\ request[t].kind \in {"pollForErrorResponse", "checkForErrorResponse"}
  BY DEF PollForError, PollIsOver, archiveVars
<1>2. lock = t /\ lock # Nobody /\ Current = request[t] /\ LockInv
  BY <1>1, HolderCalls DEF Busy, IInv
<1>3. CASE /\ IsResponseToSession(p) /\ p.code = "ERROR"
           /\ Leave(t, IF request[t].kind = "pollForErrorResponse" THEN "reported" ELSE "error",
                    NoId, p.correlationId)
  <2>1. r \in Said /\ r.correlationId < nextCorrelationId
    BY <1>1, <1>3, PolledIsSaid DEF UsesDescriptorPoller
  <2>2. r.correlationId = p.correlationId /\ r.code = p.code /\ r.correlationId \in Int
    BY DEF TypeOK, PollTypeOK, ResponsePoller
  <2> HIDE DEF r
  <2>3. Calls!ReturnError
    BY <1>1, <1>3, <2>1, <2>2, ErrorEnds
  <2>4. QED
    BY <2>3 DEF Calls!Next, Calls!CallerStep
<1>4. CASE Leave(t, "noError", NoId, NoId)
  <2>1. Calls!End("noError", NoId, NoId)
    BY <1>1, <1>2, <1>4, LeaveEnds DEF Busy
  <2>2. Calls!IsUnderWay(Calls!ErrorPoll)
    BY <1>1, <1>2 DEF Calls!IsUnderWay, Calls!ErrorPoll, Current
  <2>3. Calls!ReturnNoError
    BY <2>1, <2>2 DEF Calls!ReturnNoError
  <2>4. QED
    BY <2>3 DEF Calls!Next, Calls!CallerStep
<1>5. QED
  BY <1>1, <1>3, <1>4 DEF PollForError

\* What the archive says and lists, it says and lists in ArchiveCalls.
LEMMA ArchiveCallsToo ==
    ASSUME TypeOK, Environment
    PROVE  Calls!Next \/ UNCHANGED Calls!vars
<1>1. UNCHANGED <<lock, request, nextCorrelationId, result, delivered>>
  BY EnvironmentStep DEF threadVars
<1>2. ASSUME NEW c \in CorrelationIds, NEW code, NEW v, RespondTo(c, code, v)
      PROVE  Calls!Says(c, code, v)
  <2>1. sent' = sent \cup {ControlResponse(Session, c, code, v)}
    BY <1>2 DEF RespondTo
  <2>2. Heard(ControlResponse(Session, c, code, v)) = [correlationId |-> c, code |-> code, value |-> v]
    BY DEF Heard, ControlResponse
  <2>3. Said' = Said \cup {[correlationId |-> c, code |-> code, value |-> v]}
    BY <2>1, <2>2 DEF Said, Heard
  <2>4. QED
    BY <2>3 DEF Calls!Says, Calls!Response, Said, Heard
<1>3. ASSUME NEW c \in CorrelationIds, Answer(c)
      PROVE  Calls!Next
  <2>1. PICK code \in Code, v \in RelevantIds \cup {NoId} : RespondTo(c, code, v)
    BY <1>3 DEF Answer, Code
  <2>2. /\ archive[c].status = "pending" /\ archive[c].kind = "response"
        /\ archive' = [archive EXCEPT ![c].status = "done"]
    BY <1>3 DEF Answer
  <2>3. Calls!Says(c, code, v) /\ Calls!AreDone(c, archive[c])
    BY <1>2, <2>1, <2>2 DEF Calls!AreDone
  <2>4. Calls!Codes = Code
    BY DEF Calls!Codes, Code
  <2>5. Calls!Answer(c)
    BY <1>1, <2>1, <2>2, <2>3, <2>4 DEF Calls!Answer
  <2>6. QED
    BY <2>5 DEF Calls!Next, Calls!ArchiveStep
<1>4. ASSUME NEW c \in CorrelationIds, EndListing(c)
      PROVE  Calls!Next
  <2>1. PICK code \in {"RECORDING_UNKNOWN", "ERROR"} : RespondTo(c, code, NoId)
    BY <1>4 DEF EndListing
  <2>2. /\ archive[c].status = "pending" /\ archive[c].kind = "descriptors"
        /\ archive' = [archive EXCEPT ![c].status = "done"]
    BY <1>4 DEF EndListing
  <2>3. Calls!Says(c, code, NoId) /\ Calls!AreDone(c, archive[c])
    BY <1>2, <2>1, <2>2 DEF Calls!AreDone
  <2>4. Calls!EndListing(c)
    BY <1>1, <2>1, <2>2, <2>3 DEF Calls!EndListing
  <2>5. QED
    BY <2>4 DEF Calls!Next, Calls!ArchiveStep
<1>5. ASSUME NEW c \in CorrelationIds, AsyncError(c)
      PROVE  Calls!Next
  <2>1. /\ Calls!Says(c, "ERROR", NoId) /\ archive[c].status = "done" /\ archive' = archive
    BY <1>2, <1>5 DEF AsyncError
  <2>2. Calls!AsyncError(c)
    BY <1>1, <2>1 DEF Calls!AsyncError
  <2>3. QED
    BY <2>2 DEF Calls!Next, Calls!ArchiveStep
<1>6. ASSUME NEW c \in CorrelationIds, ListRecording(c)
      PROVE  Calls!Next
  <2>1. /\ archive[c].status = "pending" /\ archive[c].kind = "descriptors" /\ sent' = sent
        /\ archive[c].listed + 1 <= archive[c].count
        /\ archive' = [archive EXCEPT ![c].listed = archive[c].listed + 1,
                          ![c].status = IF archive[c].listed + 1 = archive[c].count THEN "done" ELSE @]
    BY <1>6 DEF ListRecording
  <2>2. archive[c].listed < archive[c].count
    BY <2>1 DEF TypeOK, StreamTypeOK
  <2>3. Calls!ListRecording(c)
    BY <1>1, <2>1, <2>2 DEF Calls!ListRecording
  <2>4. QED
    BY <2>3 DEF Calls!Next, Calls!ArchiveStep
<1>7. CASE Noise \/ Disconnect \/ DeadlinePasses
  BY <1>1, <1>7, CallsStutter DEF Noise, Disconnect, DeadlinePasses, archiveVars
<1>8. QED
  BY <1>3, <1>4, <1>5, <1>6, <1>7 DEF Environment

LEMMA CallsStep ==
    TypeOK /\ IInv /\ ListingInv /\ CallInv /\ [Next]_vars => [Calls!Next]_(Calls!vars)
<1> SUFFICES ASSUME TypeOK, IInv, ListingInv, CallInv, [Next]_vars
             PROVE  Calls!Next \/ UNCHANGED Calls!vars
  OBVIOUS
<1>1. ASSUME NEW t \in Threads, Call(t)
      PROVE  UNCHANGED Calls!vars
  <2>1. lock # t
    BY <1>1 DEF Call, IInv, LockInv
  <2>2. lock # Nobody => request'[lock] = request[lock]
    BY <1>1, <2>1 DEF Call, TypeOK, ThreadTypeOK
  <2>3. QED
    BY <1>1, <2>2, CallsStutter DEF Call, archiveVars
<1>2. ASSUME NEW t \in Threads, Lock(t)
      PROVE  Calls!Next
  BY <1>2, LockCalls DEF Calls!Next, Calls!CallerStep
<1>3. ASSUME NEW t \in Threads, Send(t) \/ FailToSend(t)
      PROVE  Calls!Next
  BY <1>3, SendCalls DEF ListingInv, Calls!Next, Calls!CallerStep
<1>4. ASSUME NEW t \in Threads, Poll(t) \/ NextImage(t)
      PROVE  UNCHANGED Calls!vars
  BY <1>4, CallsStutter DEF Poll, NextImage, threadVars, archiveVars
<1>5. ASSUME NEW t \in Threads,
             AssembleFragment(t) \/ ResponseFragment(t) \/ DescriptorFragment(t) \/ ThrowingFragment(t)
      PROVE  Calls!Next \/ UNCHANGED Calls!vars
  BY <1>5, FragmentCalls
<1>6. ASSUME NEW t \in Threads, PollForResponse(t) \/ PollForDescriptors(t) \/ PollForError(t)
      PROVE  Calls!Next \/ UNCHANGED Calls!vars
  BY <1>6, PollForResponseCalls, PollForDescriptorsCalls, PollForErrorCalls
<1>7. CASE UNCHANGED vars
  BY <1>7, CallsStutter DEF vars, threadVars, archiveVars
<1>8. QED
  BY <1>1, <1>2, <1>3, <1>4, <1>5, <1>6, <1>7, ArchiveCallsToo DEF Next, ThreadStep

\* However threads, polls and messages interleave, a call ends as if nobody else
\* used the client and only its own answers were on the stream: one request, a
\* value or a count that the archive gave for it, an error that it sent to this
\* session, or none of these.
THEOREM CallRefinement == Spec => ImplementsCalls
<1>1. TypeOK /\ IInv /\ ListingInv /\ CallInv /\ [Next]_vars => CallInv'
  BY CallInvStep
<1>2. QED
  BY <1>1, CallInvInit, CallsInit, CallsStep, TypeCorrect, InductiveInvariant, ListingInvariant, PTL
     DEF Spec, ImplementsCalls, Calls!Spec
=============================================================================
