---------------------------- MODULE RecordingsProofs ----------------------------
(***************************************************************************)
(* What the proofs about the recording clients have in common: powers of   *)
(* two and the conversion to std::int32_t, the listing that the archive    *)
(* answers with, and the types of all variables, for any number of         *)
(* threads, recordings, counters and bits.                                 *)
(***************************************************************************)
EXTENDS RecordingClients, FiniteSetTheorems, FunctionTheorems, SequenceTheorems, TLAPS

-----------------------------------------------------------------------------
(***************************************************************************)
(* Arithmetic.  Facts about 2^n come from the number of subsets of 1..n.   *)
(***************************************************************************)
LEMMA PowerOfTwo ==
    ASSUME NEW n \in Nat
    PROVE  2^n \in Nat \ {0}
<1>1. IsFiniteSet(1..n) /\ Cardinality(1..n) = n
    BY FS_Interval
<1>2. IsFiniteSet(SUBSET (1..n)) /\ Cardinality(SUBSET (1..n)) = 2^n
    BY <1>1, FS_SUBSET
<1>3. SUBSET (1..n) # {}
    OBVIOUS
<1> QED
    BY <1>2, <1>3, FS_CardinalityType, FS_EmptySet

\* Half of the subsets of 1..n+1 have n+1 in them.
LEMMA NextPowerOfTwo ==
    ASSUME NEW n \in Nat
    PROVE  2^(n + 1) = 2 * 2^n
<1> DEFINE Low == SUBSET (1..n)
           High == { A \cup {n + 1} : A \in Low }
           f == [A \in Low |-> A \cup {n + 1}]
<1>1. IsFiniteSet(Low) /\ Cardinality(Low) = 2^n
    <2>1. IsFiniteSet(1..n) /\ Cardinality(1..n) = n
        BY FS_Interval
    <2> QED
        BY <2>1, FS_SUBSET
<1>2. f \in Bijection(Low, High)
    <2>1. f \in [Low -> High]
        OBVIOUS
    <2>2. ASSUME NEW A \in Low, NEW B \in Low, f[A] = f[B]
          PROVE  A = B
        <3>1. n + 1 \notin A /\ n + 1 \notin B
            OBVIOUS
        <3>2. A \cup {n + 1} = B \cup {n + 1}
            BY <2>2
        <3> QED
            BY <3>1, <3>2
    <2>3. \A y \in High : \E A \in Low : f[A] = y
        OBVIOUS
    <2> HIDE DEF Low, High, f
    <2> QED
        BY <2>1, <2>2, <2>3, Fun_IsBij
<1>3. IsFiniteSet(High) /\ Cardinality(High) = 2^n
    <2>1. ExistsBijection(Low, High)
        BY <1>2 DEF ExistsBijection
    <2> HIDE DEF Low, High
    <2> QED
        BY <1>1, <2>1, FS_Bijection
<1>4. Low \cap High = {}
    OBVIOUS
<1>5. SUBSET (1..(n + 1)) = Low \cup High
    <2>1. ASSUME NEW A \in SUBSET (1..(n + 1))
          PROVE  A \in Low \cup High
        <3>1. CASE n + 1 \in A
            <4>1. A \ {n + 1} \in Low /\ A = (A \ {n + 1}) \cup {n + 1}
                BY <3>1
            <4> QED
                BY <4>1
        <3>2. CASE n + 1 \notin A
            BY <3>2
        <3> QED
            BY <3>1, <3>2
    <2>2. ASSUME NEW A \in Low
          PROVE  A \in SUBSET (1..(n + 1)) /\ A \cup {n + 1} \in SUBSET (1..(n + 1))
        OBVIOUS
    <2>3. \A A \in Low : A \in SUBSET (1..(n + 1)) /\ A \cup {n + 1} \in SUBSET (1..(n + 1))
        BY <2>2
    <2>4. Low \cup High \subseteq SUBSET (1..(n + 1))
        <3> HIDE DEF Low
        <3> QED
            BY <2>3
    <2>5. SUBSET (1..(n + 1)) \subseteq Low \cup High
        BY <2>1
    <2> HIDE DEF Low, High
    <2> QED
        BY <2>4, <2>5
<1>6. Cardinality(SUBSET (1..(n + 1))) = 2^n + 2^n
    <2>1. Cardinality(Low \cup High) = Cardinality(Low) + Cardinality(High) - Cardinality(Low \cap High)
        <3> HIDE DEF Low, High
        <3> QED
            BY <1>1, <1>3, FS_Union
    <2>2. Cardinality(Low \cap High) = 0
        BY <1>4, FS_EmptySet
    <2>3. Cardinality(Low \cup High) = Cardinality(SUBSET (1..(n + 1)))
        BY <1>5
    <2>4. 2^n \in Nat
        BY PowerOfTwo
    <2> HIDE DEF Low, High
    <2> QED
        BY <1>1, <1>3, <2>1, <2>2, <2>3, <2>4
<1>7. Cardinality(SUBSET (1..(n + 1))) = 2^(n + 1)
    <2>1. IsFiniteSet(1..(n + 1)) /\ Cardinality(1..(n + 1)) = n + 1
        BY FS_Interval
    <2> QED
        BY <2>1, FS_SUBSET
<1> QED
    BY <1>6, <1>7, PowerOfTwo

LEMMA Division ==
    ASSUME NEW b \in Nat \ {0}, NEW a \in Int
    PROVE  a \div b \in Int /\ a % b \in 0..(b - 1) /\ a = b * (a \div b) + (a % b)
<1>1. a \div b \in Int
    OBVIOUS
<1>2. a % b \in 0..(b - 1)
    OBVIOUS
<1>3. a = b * (a \div b) + (a % b)
    OBVIOUS
<1> QED
    BY <1>1, <1>2, <1>3

LEMMA ModuloOfSum ==
    ASSUME NEW b \in Nat \ {0}, NEW a \in Int, NEW k \in Int
    PROVE  (a + k * b) % b = a % b
<1> DEFINE q == a \div b
           r == a % b
           p == (a + k * b) \div b
           s == (a + k * b) % b
<1>1. q \in Int /\ r \in 0..(b - 1) /\ a = b * q + r
    OBVIOUS
<1>2. a + k * b \in Int
    OBVIOUS
<1>3. p \in Int /\ s \in 0..(b - 1) /\ a + k * b = b * p + s
    BY <1>2
<1> HIDE DEF q, r, p, s
<1>4. b * (q + k - p) = s - r
    BY <1>1, <1>3
<1>5. CASE q + k - p >= 1
    <2>1. b * (q + k - p) >= b
        BY <1>1, <1>3, <1>5
    <2> QED
        BY <1>1, <1>3, <1>4, <2>1
<1>6. CASE q + k - p <= -1
    <2>1. b * (q + k - p) <= -b
        BY <1>1, <1>3, <1>6
    <2> QED
        BY <1>1, <1>3, <1>4, <2>1
<1>7. CASE q + k - p = 0
    BY <1>1, <1>3, <1>4, <1>7
<1>8. s = r
    BY <1>1, <1>3, <1>5, <1>6, <1>7
<1> QED
    BY <1>8 DEF s, r

Modulus == 2^IntBits
Half == 2^(IntBits - 1)

LEMMA Bits == Half \in Nat \ {0} /\ Modulus = 2 * Half /\ Modulus \in Nat \ {0}
<1>1. IntBits - 1 \in Nat /\ (IntBits - 1) + 1 = IntBits
    BY SizeAssumption DEF SizeAssumption
<1>2. 2^((IntBits - 1) + 1) = 2 * 2^(IntBits - 1)
    BY <1>1, NextPowerOfTwo
<1>3. 2^(IntBits - 1) \in Nat \ {0}
    BY <1>1, PowerOfTwo
<1> QED
    BY <1>1, <1>2, <1>3 DEF Half, Modulus

\* A conversion keeps the low bits, and nothing else decides what it gives.
LEMMA Int32Facts ==
    ASSUME NEW n \in Int
    PROVE  /\ Int32(n) \in -Half..(Half - 1)
           /\ Int32(n) % Modulus = n % Modulus
           /\ \A m \in Int : m % Modulus = n % Modulus => Int32(m) = Int32(n)
<1> DEFINE low == n % Modulus
<1>1. Half \in Nat \ {0} /\ Modulus = 2 * Half /\ Modulus \in Nat \ {0}
    BY Bits
<1>2. low \in 0..(Modulus - 1)
    BY <1>1
<1>3. Int32(n) = IF low < Half THEN low ELSE low - Modulus
    BY DEF Int32, Modulus, Half
<1>4. low % Modulus = n % Modulus
    <2>1. n \div Modulus \in Int /\ n = Modulus * (n \div Modulus) + low
        BY <1>1, Division
    <2> DEFINE k == n \div Modulus
    <2> HIDE DEF low, k
    <2>2. k \in Int /\ low \in Int /\ n = low + k * Modulus
        BY <1>1, <1>2, <2>1 DEF k
    <2>3. (low + k * Modulus) % Modulus = low % Modulus
        BY <1>1, <2>2, ModuloOfSum
    <2> QED
        BY <2>2, <2>3
<1>5. (low - Modulus) % Modulus = low % Modulus
    <2> HIDE DEF low
    <2>1. low \in Int /\ low - Modulus = low + (-1) * Modulus
        BY <1>1, <1>2
    <2>2. \A k \in Int : (low + k * Modulus) % Modulus = low % Modulus
        BY <1>1, <2>1, ModuloOfSum
    <2>3. PICK k \in Int : k = -1
        OBVIOUS
    <2> QED
        BY <2>1, <2>2, <2>3
<1>6. \A m \in Int : m % Modulus = n % Modulus => Int32(m) = Int32(n)
    BY DEF Int32, Modulus
<1> HIDE DEF low
<1> QED
    BY <1>1, <1>2, <1>3, <1>4, <1>5, <1>6

\* What fits is kept.
LEMMA Int32Keeps ==
    ASSUME NEW n \in -Half..(Half - 1)
    PROVE  Int32(n) = n
<1>1. Half \in Nat \ {0} /\ Modulus = 2 * Half /\ Modulus \in Nat \ {0} /\ n \in Int
    BY Bits
<1>2. Int32(n) = IF n % Modulus < Half THEN n % Modulus ELSE (n % Modulus) - Modulus
    BY DEF Int32, Modulus, Half
<1>3. CASE n >= 0
    <2>1. n % Modulus = n
        BY <1>1, <1>3
    <2> QED
        BY <1>1, <1>2, <2>1
<1>4. CASE n < 0
    <2>1. (n + Modulus) % Modulus = n + Modulus
        BY <1>1, <1>4
    <2>2. n + Modulus = n + 1 * Modulus
        BY <1>1
    <2>3. \A k \in Int : (n + k * Modulus) % Modulus = n % Modulus
        BY <1>1, ModuloOfSum
    <2>4. n % Modulus = n + Modulus
        <3>1. PICK k \in Int : k = 1
            OBVIOUS
        <3> QED
            BY <2>1, <2>2, <2>3, <3>1
    <2> QED
        BY <1>1, <1>2, <1>4, <2>4
<1> QED
    BY <1>1, <1>3, <1>4

\* A sum that wraps comes back when it is undone.
LEMMA Int32Undone ==
    ASSUME NEW a \in Int, NEW i \in Int
    PROVE  Int32(Int32(a + i) - i) = Int32(a)
<1>1. Modulus \in Nat \ {0} /\ Half \in Nat
    BY Bits
<1>2. Int32(a + i) \in Int /\ Int32(a + i) % Modulus = (a + i) % Modulus
    BY <1>1, Int32Facts
<1> DEFINE x == Int32(a + i)
           y == a + i
<1>3. PICK k \in Int : x = y + k * Modulus
    <2>1. x \in Int /\ y \in Int /\ x % Modulus = y % Modulus
        BY <1>2
    <2> HIDE DEF x, y
    <2>2. /\ x \div Modulus \in Int /\ x = Modulus * (x \div Modulus) + (x % Modulus)
          /\ y \div Modulus \in Int /\ y = Modulus * (y \div Modulus) + (y % Modulus)
        BY <1>1, <2>1, Division
    <2>3. x = y + (x \div Modulus - y \div Modulus) * Modulus
        BY <1>1, <2>1, <2>2
    <2> QED
        BY <2>2, <2>3
<1>4. x - i = a + k * Modulus
    <2>1. x \in Int
        BY <1>2
    <2> HIDE DEF x
    <2> QED
        BY <1>1, <1>3, <2>1
<1>5. (x - i) % Modulus = a % Modulus
    BY <1>1, <1>4, ModuloOfSum
<1>6. x - i \in Int
    BY <1>2
<1> QED
    BY <1>5, <1>6, Int32Facts

-----------------------------------------------------------------------------
(***************************************************************************)
(* The listing: recordings that the archive knows, in their order.         *)
(***************************************************************************)
Descriptors == [recordingId : RecordingIds, stopPosition : Int]

LEMMA ConstantFacts ==
    /\ OwnSessions \subseteq Sessions /\ OtherSession \in Sessions
    /\ Sessions \subseteq Nat \ {0}
    /\ None \notin OwnSessions /\ AnySession \notin OwnSessions /\ OtherSession \notin OwnSessions
    /\ LastRecordingId \in Nat /\ LastCounterId \in Nat
    /\ Main \in Threads /\ MainThread \in Threads /\ Poller \in Threads
    /\ IsFiniteSet(RecordingIds)
<1>1. IsFiniteSet(RecordingIds)
    BY SizeAssumption, FS_Interval DEF SizeAssumption, RecordingIds
<1> QED
    BY <1>1, SessionAssumption, SizeAssumption, PublisherAssumption, ThroughputAssumption
       DEF SessionAssumption, SizeAssumption, PublisherAssumption, ThroughputAssumption, Sessions,
           None, AnySession

\* Every place of the listing has its recording: among n numbers there is one
\* with k smaller ones for each k below n.
LEMMA RankExists ==
    ASSUME NEW S, IsFiniteSet(S), S \subseteq Nat, NEW k \in 0..(Cardinality(S) - 1)
    PROVE  \E r \in S : Cardinality({ q \in S : q < r }) = k
<1> DEFINE Below(r) == { q \in S : q < r }
           rank == [r \in S |-> Cardinality(Below(r))]
           Ranks == 0..(Cardinality(S) - 1)
<1>1. Cardinality(S) \in Nat
    BY FS_CardinalityType
<1>2. ASSUME NEW r \in S
      PROVE  /\ IsFiniteSet(Below(r)) /\ Cardinality(Below(r)) \in Ranks
             /\ IsFiniteSet(Below(r) \cup {r})
             /\ Cardinality(Below(r) \cup {r}) = Cardinality(Below(r)) + 1
    <2>1. IsFiniteSet(Below(r)) /\ Cardinality(Below(r)) \in Nat
        BY FS_Subset, FS_CardinalityType
    <2>2. r \notin Below(r)
        OBVIOUS
    <2>3. /\ IsFiniteSet(Below(r) \cup {r})
          /\ Cardinality(Below(r) \cup {r}) = Cardinality(Below(r)) + 1
        BY <2>1, <2>2, FS_AddElement
    <2>4. Below(r) \cup {r} \in SUBSET S
        OBVIOUS
    <2>5. Cardinality(Below(r) \cup {r}) <= Cardinality(S)
        BY <2>4, FS_Subset
    <2> HIDE DEF Below
    <2> QED
        BY <1>1, <2>1, <2>3, <2>5
<1>3. ASSUME NEW q \in S, NEW r \in S, q < r
      PROVE  Cardinality(Below(q)) < Cardinality(Below(r))
    <2>1. Below(q) \cup {q} \in SUBSET Below(r)
        <3>1. \A p \in S : p < q => p < r
            <4>1. q \in Nat /\ r \in Nat /\ q < r /\ \A p \in S : p \in Nat
                BY <1>3
            <4> QED
                BY <4>1
        <3> QED
            BY <1>3, <3>1
    <2>2. /\ IsFiniteSet(Below(r)) /\ Cardinality(Below(r)) \in Ranks
          /\ Cardinality(Below(q)) \in Ranks
          /\ Cardinality(Below(q) \cup {q}) = Cardinality(Below(q)) + 1
        BY <1>2
    <2> HIDE DEF Below
    <2>3. Cardinality(Below(q) \cup {q}) <= Cardinality(Below(r))
        BY <2>1, <2>2, FS_Subset
    <2> QED
        BY <1>1, <2>2, <2>3
<1>4. rank \in Injection(S, Ranks)
    <2>1. rank \in [S -> Ranks]
        BY <1>2
    <2>2. ASSUME NEW q \in S, NEW r \in S, rank[q] = rank[r]
          PROVE  q = r
        <3>1. ~(Cardinality(Below(q)) < Cardinality(Below(r)))
              /\ ~(Cardinality(Below(r)) < Cardinality(Below(q)))
            <4>1. Cardinality(Below(q)) \in Int /\ Cardinality(Below(r)) \in Int
                <5>1. Cardinality(Below(q)) \in Ranks /\ Cardinality(Below(r)) \in Ranks
                    BY <1>2
                <5> HIDE DEF Below
                <5> QED
                    BY <1>1, <5>1
            <4>2. Cardinality(Below(q)) = Cardinality(Below(r))
                BY <2>2
            <4> HIDE DEF Below
            <4> QED
                BY <4>1, <4>2
        <3>2. ~(q < r) /\ ~(r < q)
            BY <1>3, <3>1
        <3> QED
            BY <3>2
    <2> HIDE DEF rank, Ranks
    <2> QED
        BY <2>1, <2>2, Fun_IsInj
<1>5. IsFiniteSet(Ranks) /\ Cardinality(Ranks) = Cardinality(S)
    <2>1. Cardinality(S) - 1 \in Int
        BY <1>1
    <2> QED
        BY <1>1, <2>1, FS_Interval
<1>6. rank \in Surjection(S, Ranks)
    <2> HIDE DEF rank, Ranks
    <2> QED
        BY <1>4, <1>5, FS_Injection
<1>7. \E r \in S : rank[r] = k
    BY <1>6 DEF Surjection
<1> QED
    BY <1>7

LEMMA ListingFacts ==
    ASSUME RecordingsTypeOK
    PROVE  /\ Listing \in Seq(Descriptors)
           /\ \A n \in 1..Len(Listing) : \E r \in Known : Listing[n] = Descriptor(r)
<1>1. Known \subseteq RecordingIds /\ Listed \subseteq Known
    BY DEF Known, Listed
<1>2. IsFiniteSet(Listed) /\ Listed \subseteq Nat
    <2>1. IsFiniteSet(RecordingIds) /\ Listed \in SUBSET RecordingIds
        BY <1>1, ConstantFacts
    <2>2. RecordingIds \subseteq Nat
        BY DEF RecordingIds
    <2> QED
        BY <2>1, <2>2, FS_Subset
<1> DEFINE N == Cardinality(Listed)
           choice(n) == CHOOSE r \in Listed : Cardinality({ q \in Listed : q < r }) = n - 1
<1>3. N \in Nat
    BY <1>2, FS_CardinalityType
<1>4. ASSUME NEW n \in 1..N
      PROVE  choice(n) \in Listed
    <2>1. n - 1 \in 0..(N - 1)
        BY <1>3
    <2>2. \E r \in Listed : Cardinality({ q \in Listed : q < r }) = n - 1
        BY <1>2, <2>1, RankExists
    <2> QED
        BY <2>2
<1>5. \A r \in RecordingIds : Descriptor(r) \in Descriptors
    BY DEF Descriptor, Descriptors, RecordingsTypeOK, None
<1>6. Listing = [n \in 1..N |-> Descriptor(choice(n))]
    BY DEF Listing
<1> HIDE DEF choice, N
<1>7. Listing \in [1..N -> Descriptors]
    BY <1>1, <1>4, <1>5, <1>6
<1>8. Listing \in Seq(Descriptors) /\ Len(Listing) = N
    BY <1>3, <1>7, SeqDef, LenProperties
<1> QED
    BY <1>1, <1>4, <1>6, <1>8

-----------------------------------------------------------------------------
(***************************************************************************)
(* Types.  TypeOK is not inductive as it stands: what a call asks, what an *)
(* event says and what a search returns become the values of other         *)
(* variables, and some variables are set when a thread gets to the place   *)
(* where it uses them.                                                     *)
(***************************************************************************)
Operations == {"none", "start", "extend", "stop", "list", "replay"}
Keys == Sessions \cup {AnySession}
Calls == [op : Operations, key : Keys, status : {"none", "asked", "done", "failed"},
          id : Int, listing : Seq(Descriptors)]

CallsOK ==
    /\ calls \in [Threads -> Calls] /\ late \subseteq Calls
    /\ \A t \in Threads : calls[t].op = "extend" /\ calls[t].status = "asked" => calls[t].id \in RecordingIds
    /\ \A c \in late : c.op = "extend" => c.id \in RecordingIds

Events == [kind : {"started", "progress", "stopped"}, recordingId : RecordingIds, position : Int]
          \cup [kind : {"unknown"}, recordingId : {None}, position : {0}]

Positions == \A s \in Sessions : publications[s].position \in Nat

OutsideOK ==
    /\ RecordingsTypeOK
    /\ Positions
    /\ IsFiniteSet(replays)
    /\ events \in Seq(Events)

ReaderOK ==
    /\ ReadTypeOK
    /\ reader.op \in Searches => reader.result \in CounterIds \cup {None}

PublisherOK ==
    /\ PublisherTypeOK
    /\ program = "publisher" /\ pc[Main] \in {"recordingId", "offer", "await", "isActive"} =>
          counterId \in CounterIds

OperationsOK ==
    /\ OperationsTypeOK
    /\ program = "operations" =>
          \A t \in Threads : pc[t] = "added" => operation[t].session \in OwnSessions

ThroughputOK ==
    /\ ThroughputTypeOK
    /\ program = "throughput" =>
          /\ pc[MainThread] \in {"stores", "storeFlag", "storePosition", "publish"} =>
                published \in OwnSessions
          /\ pc[MainThread] \in {"record", "recording", "round"} => round < MaxRounds

TypeInv ==
    /\ pc = [t \in Threads |-> pc[t]]
    /\ CallsOK /\ OutsideOK /\ ReaderOK
    /\ PublisherOK /\ OperationsOK /\ ThroughputOK

-----------------------------------------------------------------------------
(***************************************************************************)
(* What a step of the process may change outside its own variables.        *)
(***************************************************************************)
CallsChange ==
    \/ calls' = calls
    \/ \E t \in Threads : calls' = [calls EXCEPT ![t] = NoCall]
    \/ \E t \in Threads, op \in Operations \ {"extend"}, key \in Keys : Ask(t, op, key, None)
    \/ \E t \in Threads, id \in RecordingIds : Ask(t, "extend", AnySession, id)

PublicationsChange ==
    \/ publications' = publications
    \/ \E t \in Threads, s \in OwnSessions, shared \in BOOLEAN, position \in Nat :
          OpenPublication(t, s, shared, position)
    \/ \E t \in Threads, s \in OwnSessions : JoinPublication(t, s)
    \/ \E t \in Threads : \E s : Release(t, s)
    \/ \E s : publications' = [publications EXCEPT ![s].position = @ + 1]

ReaderChange ==
    \/ \E op \in Searches, sought \in Int : Search(op, sought)
    \/ \E i \in CounterIds : GetRecordingId(i)
    \/ UNCHANGED readerVars

EventsChange == events' = events \/ events' = <<>> \/ (events # <<>> /\ events' = Tail(events))

OwnChange ==
    /\ CallsChange /\ PublicationsChange /\ ReaderChange /\ EventsChange
    /\ UNCHANGED <<late, subscribed, extending, recordings, replays, counters>>
    /\ listening' \in BOOLEAN /\ running' \in BOOLEAN
    /\ pc' = [t \in Threads |-> pc'[t]]

LEMMA CallsKeepType ==
    ASSUME CallsOK, CallsChange, late' = late
    PROVE  CallsOK'
<1>1. CASE calls' = calls
    BY <1>1 DEF CallsOK
<1>2. ASSUME NEW t \in Threads, calls' = [calls EXCEPT ![t] = NoCall]
      PROVE  CallsOK'
    <2>1. NoCall \in Calls /\ NoCall.op = "none"
        BY EmptySeq DEF NoCall, Calls, Operations, Keys, None
    <2> QED
        BY <1>2, <2>1 DEF CallsOK
<1>3. ASSUME NEW t \in Threads, NEW op \in Operations, NEW key \in Keys, NEW id \in Int,
             op = "extend" => id \in RecordingIds,
             Ask(t, op, key, id)
      PROVE  CallsOK'
    <2> DEFINE call == [op |-> op, key |-> key, status |-> "asked", id |-> id, listing |-> <<>>]
    <2>1. call \in Calls /\ (call.op = "extend" => call.id \in RecordingIds)
        BY <1>3, EmptySeq DEF Calls
    <2>2. calls' = [calls EXCEPT ![t] = call]
        BY <1>3 DEF Ask
    <2> HIDE DEF call
    <2> QED
        BY <2>1, <2>2 DEF CallsOK
<1>4. None \in Int /\ AnySession \in Keys /\ RecordingIds \subseteq Int /\ "extend" \in Operations
    BY ConstantFacts DEF None, Keys, RecordingIds, Operations
<1>5. CASE \E t \in Threads, op \in Operations \ {"extend"}, key \in Keys : Ask(t, op, key, None)
    BY <1>3, <1>4, <1>5
<1>6. CASE \E t \in Threads, id \in RecordingIds : Ask(t, "extend", AnySession, id)
    BY <1>3, <1>4, <1>6
<1> QED
    BY <1>1, <1>2, <1>5, <1>6 DEF CallsChange

Publications == [Sessions -> [state : {"none", "open", "closed"}, shared : BOOLEAN,
                              users : SUBSET Threads, position : Nat]]

LEMMA PublicationsKeepType ==
    ASSUME publications \in Publications, PublicationsChange
    PROVE  publications' \in Publications
<1>1. ASSUME NEW t \in Threads, NEW s \in OwnSessions, NEW shared \in BOOLEAN, NEW position \in Nat,
             OpenPublication(t, s, shared, position)
      PROVE  publications' \in Publications
    BY <1>1, ConstantFacts DEF OpenPublication, Publications
<1>2. ASSUME NEW t \in Threads, NEW s \in OwnSessions, JoinPublication(t, s)
      PROVE  publications' \in Publications
    BY <1>2, ConstantFacts DEF JoinPublication, Publications
<1>3. ASSUME NEW t \in Threads, NEW s, Release(t, s)
      PROVE  publications' \in Publications
    BY <1>3 DEF Release, Publications
<1>4. ASSUME NEW s, publications' = [publications EXCEPT ![s].position = @ + 1]
      PROVE  publications' \in Publications
    <2>1. CASE s \in Sessions
        <3>1. publications[s].position + 1 \in Nat
            BY <2>1 DEF Publications
        <3> QED
            BY <1>4, <2>1, <3>1 DEF Publications
    <2>2. CASE s \notin Sessions
        <3>1. publications' = publications
            BY <1>4, <2>2 DEF Publications
        <3> QED
            BY <3>1
    <2> QED
        BY <2>1, <2>2
<1> QED
    BY <1>1, <1>2, <1>3, <1>4 DEF PublicationsChange

LEMMA PublicationTypes ==
    publications \in Publications <=>
        /\ publications \in [Sessions -> [state : {"none", "open", "closed"}, shared : BOOLEAN,
                                          users : SUBSET Threads, position : Int]]
        /\ Positions
BY DEF Publications, Positions

LEMMA EventsKeepType ==
    ASSUME events \in Seq(Events), EventsChange
    PROVE  events' \in Seq(Events)
BY EmptySeq, HeadTailProperties DEF EventsChange

LEMMA ReaderKeepsType ==
    ASSUME ReaderOK, ReaderChange
    PROVE  ReaderOK'
<1>1. 0 \in CounterIds /\ None \in Int
    BY ConstantFacts DEF CounterIds, None
<1> QED
    BY <1>1 DEF ReaderChange, ReaderOK, ReadTypeOK, Search, GetRecordingId, readerVars, Searches

LEMMA OwnChangeKeeps ==
    ASSUME TypeInv, OwnChange
    PROVE  CallsOK' /\ OutsideOK' /\ ReaderOK' /\ pc' = [t \in Threads |-> pc'[t]]
<1>1. CallsOK' /\ ReaderOK'
    BY CallsKeepType, ReaderKeepsType DEF TypeInv, OwnChange
<1>2. events' \in Seq(Events)
    BY EventsKeepType DEF TypeInv, OutsideOK, OwnChange
<1>3. publications' \in Publications
    BY PublicationTypes, PublicationsKeepType DEF TypeInv, OutsideOK, OwnChange, RecordingsTypeOK
<1>4. Positions' /\ publications' \in [Sessions -> [state : {"none", "open", "closed"}, shared : BOOLEAN,
                                                     users : SUBSET Threads, position : Int]]
    BY <1>3 DEF Publications, Positions
<1>5. RecordingsTypeOK'
    BY <1>4 DEF TypeInv, OutsideOK, OwnChange, RecordingsTypeOK
<1> QED
    BY <1>1, <1>2, <1>4, <1>5 DEF TypeInv, OutsideOK, OwnChange

-----------------------------------------------------------------------------
(***************************************************************************)
(* The sample RecordedBasicPublisher.                                      *)
(***************************************************************************)
LEMMA TermTypes ==
    ASSUME NEW position \in Int
    PROVE  /\ TermId(position) \in Int /\ TermOffset(position) \in 0..(2^TermBits - 1)
           /\ StartPosition(TermId(position), TermOffset(position)) \in Int
<1>1. 2^TermBits \in Nat \ {0} /\ InitialTermId \in Int
    BY PowerOfTwo, PublisherAssumption DEF PublisherAssumption
<1>2. position \div 2^TermBits \in Int /\ position % 2^TermBits \in 0..(2^TermBits - 1)
    BY <1>1, Division
<1>3. \A n \in Int : Int32(n) \in Int
    BY Int32Facts, Bits
<1>4. TermId(position) \in Int
    BY <1>1, <1>2, <1>3 DEF TermId
<1>5. Int32(TermId(position) - InitialTermId) \in Int
    BY <1>1, <1>3, <1>4
<1> DEFINE n == Int32(TermId(position) - InitialTermId)
<1>6. StartPosition(TermId(position), TermOffset(position)) = n * 2^TermBits + (position % 2^TermBits)
    BY DEF StartPosition, TermOffset
<1> HIDE DEF n
<1> QED
    BY <1>1, <1>2, <1>4, <1>5, <1>6 DEF n, TermOffset

LEMMA PublisherChange ==
    ASSUME TypeInv, program = "publisher", PublisherStep
    PROVE  OwnChange
<1>1. Main \in Threads /\ AnySession \in Keys /\ None \notin OwnSessions
    BY ConstantFacts DEF Keys
<1>2. pc' = [t \in Threads |-> pc'[t]]
    BY DEF TypeInv, PublisherStep, ListRecordings, Latest, AddExclusivePublication, AddPublication, StartOrExtend,
       FindCounter, FindAgain, Interrupted, Found, Show, Offer, AllOffered, AllRecorded, NotRecorded,
       AwaitAgain, ReportStopped, StopRecordingChannel, Finish, Fail, Step, Go, LeaveBlock, recordingsVars, processVars
<1>3. /\ UNCHANGED <<late, subscribed, extending, recordings, replays, counters, events, listening, running>>
    BY DEF PublisherStep, ListRecordings, Latest, AddExclusivePublication, AddPublication, StartOrExtend,
       FindCounter, FindAgain, Interrupted, Found, Show, Offer, AllOffered, AllRecorded, NotRecorded,
       AwaitAgain, ReportStopped, StopRecordingChannel, Finish, Fail, outside, recordingsVars, processVars,
       archiveVars, driverVars
<1>4. CallsChange
    <2>1. CASE ListRecordings
        BY <1>1, <2>1 DEF ListRecordings, CallsChange, Operations
    <2>2. CASE StartOrExtend
        <3>1. Extends => recording.recordingId \in RecordingIds
            BY DEF Extends, TypeInv, PublisherOK, PublisherTypeOK
        <3> QED
            BY <1>1, <2>2, <3>1 DEF StartOrExtend, CallsChange, Operations
    <2>3. CASE StopRecordingChannel
        BY <1>1, <2>3 DEF StopRecordingChannel, CallsChange, Operations
    <2>4. CASE Latest \/ FindCounter \/ Finish \/ Fail
        BY <1>1, <2>4 DEF Latest, FindCounter, Finish, Fail, Returned, Threw, CallsChange
    <2>5. CASE \/ AddExclusivePublication \/ AddPublication \/ FindAgain \/ Interrupted \/ Found \/ Show
               \/ Offer \/ AllOffered \/ AllRecorded \/ NotRecorded \/ AwaitAgain \/ ReportStopped
        BY <2>5 DEF AddExclusivePublication, AddPublication, FindAgain, Interrupted, Found, Show, Offer,
           AllOffered, AllRecorded, NotRecorded, AwaitAgain, ReportStopped, recordingsVars, processVars, CallsChange
    <2> QED
        BY <2>1, <2>2, <2>3, <2>4, <2>5 DEF PublisherStep
<1>5. PublicationsChange
    <2>1. CASE AddExclusivePublication
        <3> DEFINE start == StartPosition(TermId(recording.stopPosition), TermOffset(recording.stopPosition))
        <3>1. start \in Int
            BY TermTypes DEF TypeInv, PublisherOK, PublisherTypeOK
        <3>2. start >= 0 /\ \E s \in OwnSessions : OpenPublication(Main, s, FALSE, start)
            BY <2>1 DEF AddExclusivePublication
        <3> HIDE DEF start
        <3>3. start \in Nat
            BY <3>1, <3>2
        <3> QED
            BY <1>1, <3>2, <3>3 DEF PublicationsChange
    <2>2. CASE AddPublication
        BY <1>1, <2>2 DEF AddPublication, PublicationsChange
    <2>3. CASE Interrupted \/ AllRecorded \/ ReportStopped \/ Fail
        BY <1>1, <2>3 DEF Interrupted, AllRecorded, ReportStopped, Fail, LeaveBlock, PublicationsChange
    <2>4. CASE Offer
        BY <2>4 DEF Offer, PublicationsChange
    <2>5. CASE \/ ListRecordings \/ Latest \/ StartOrExtend \/ FindCounter \/ FindAgain \/ Found \/ Show
               \/ AllOffered \/ NotRecorded \/ AwaitAgain \/ StopRecordingChannel \/ Finish
        BY <2>5 DEF ListRecordings, Latest, StartOrExtend, FindCounter, FindAgain, Found, Show, AllOffered,
           NotRecorded, AwaitAgain, StopRecordingChannel, Finish, recordingsVars, driverVars, PublicationsChange
    <2> QED
        BY <2>1, <2>2, <2>3, <2>4, <2>5 DEF PublisherStep
<1>6. ReaderChange
    <2>1. CASE FindCounter \/ FindAgain
        <3>1. session \in Int
            BY ConstantFacts DEF TypeInv, PublisherOK, PublisherTypeOK, None
        <3> QED
            BY <2>1, <3>1 DEF FindCounter, FindAgain, ReaderChange, Searches
    <2>2. CASE Found
        <3>1. reader.result \in CounterIds
            BY <2>2 DEF Found, Reads, TypeInv, ReaderOK, Searches
        <3> QED
            BY <2>2, <3>1 DEF Found, ReaderChange
    <2>3. CASE NotRecorded
        <3>1. counterId \in CounterIds
            BY <2>3 DEF NotRecorded, Step, TypeInv, PublisherOK
        <3> QED
            BY <2>3, <3>1 DEF NotRecorded, ReaderChange
    <2>4. CASE \/ ListRecordings \/ Latest \/ AddExclusivePublication \/ AddPublication \/ StartOrExtend
               \/ Interrupted \/ Show \/ Offer \/ AllOffered \/ AllRecorded \/ AwaitAgain \/ ReportStopped
               \/ StopRecordingChannel \/ Finish \/ Fail
        BY <2>4 DEF ListRecordings, Latest, AddExclusivePublication, AddPublication, StartOrExtend, Interrupted,
           Show, Offer, AllOffered, AllRecorded, AwaitAgain, ReportStopped, StopRecordingChannel, Finish, Fail,
           ReaderChange
    <2> QED
        BY <2>1, <2>2, <2>3, <2>4 DEF PublisherStep
<1> QED
    BY <1>2, <1>3, <1>4, <1>5, <1>6 DEF OwnChange, EventsChange, TypeInv, OutsideOK, RecordingsTypeOK

LEMMA PublisherKeepsType ==
    ASSUME TypeInv, program = "publisher", PublisherStep
    PROVE  PublisherTypeOK' /\ (pc'[Main] \in {"recordingId", "offer", "await", "isActive"} => counterId' \in CounterIds)
<1>1. Main \in Threads /\ pc = [t \in Threads |-> pc[t]] /\ PublisherTypeOK
      /\ (pc[Main] \in {"recordingId", "offer", "await", "isActive"} => counterId \in CounterIds)
    BY ConstantFacts DEF TypeInv, PublisherOK
<1>2. CASE Latest
    <2>1. calls[Main].listing \in Seq(Descriptors)
        BY <1>1 DEF TypeInv, CallsOK, Calls
    <2>2. LatestRecordingData(calls[Main].listing) \in [recordingId : RecordingIds \cup {None}, stopPosition : Int]
        <3>1. CASE calls[Main].listing = <<>>
            BY <3>1 DEF LatestRecordingData, NoRecordingData, None
        <3>2. CASE calls[Main].listing # <<>>
            <4> DEFINE listing == calls[Main].listing
            <4>1. Len(listing) \in 1..Len(listing) /\ listing \in [1..Len(listing) -> Descriptors]
                BY <2>1, <3>2, LenProperties, EmptySeq
            <4>2. LatestRecordingData(listing) = listing[Len(listing)]
                BY <3>2 DEF LatestRecordingData
            <4> HIDE DEF listing
            <4>3. LatestRecordingData(listing) \in Descriptors
                BY <4>1, <4>2
            <4> QED
                BY <4>3 DEF listing, Descriptors
        <3> QED
            BY <3>1, <3>2
    <2> QED
        BY <1>1, <1>2, <2>2 DEF Latest, Step, Go, PublisherTypeOK
<1>3. CASE Found
    <2>1. reader.result \in CounterIds
        BY <1>3 DEF Found, Reads, TypeInv, ReaderOK, Searches
    <2> QED
        BY <1>1, <1>3, <2>1 DEF Found, Go, PublisherTypeOK
<1>4. CASE AddExclusivePublication \/ AddPublication
    BY <1>1, <1>4 DEF AddExclusivePublication, AddPublication, Step, Go, PublisherTypeOK
<1>5. CASE Offer
    BY <1>1, <1>5, PublisherAssumption DEF Offer, processVars, PublisherTypeOK, PublisherAssumption
<1>6. CASE \/ ListRecordings \/ StartOrExtend \/ FindCounter \/ FindAgain \/ Interrupted \/ StopRecordingChannel
           \/ Finish \/ Fail \/ ReportStopped
    BY <1>1, <1>6 DEF ListRecordings, StartOrExtend, FindCounter, FindAgain, Interrupted, StopRecordingChannel,
       Finish, Fail, ReportStopped, Step, Go, LeaveBlock, Reads, publisherVars, recordingsVars, processVars,
       PublisherTypeOK
<1>7. CASE Show \/ AllOffered \/ AllRecorded \/ NotRecorded \/ AwaitAgain
    BY <1>1, <1>7 DEF Show, AllOffered, AllRecorded, NotRecorded, AwaitAgain, Step, Go, LeaveBlock, Reads,
       publisherVars, PublisherTypeOK
<1> QED
    BY <1>2, <1>3, <1>4, <1>5, <1>6, <1>7 DEF PublisherStep

-----------------------------------------------------------------------------
(***************************************************************************)
(* The operations of AeronArchive.                                         *)
(***************************************************************************)
LEMMA OperationsChange ==
    ASSUME TypeInv, program = "operations", NEW t \in Threads, OperationStep(t)
    PROVE  OwnChange
<1>1. AnySession \in Keys /\ OwnSessions \subseteq Keys /\ None \notin OwnSessions /\ 0 \in Nat
    BY ConstantFacts DEF Keys
<1>2. pc' = [u \in Threads |-> pc'[u]]
    BY DEF TypeInv, OperationStep, AddPublicationFor, AddExclusivePublicationFor, StartRecordingFor,
       ReturnPublication, NoPublicationFor, StopRecordingFor, StoppedFor, StartReplay, ReplayStarted,
       ReturnSubscription, NoSubscription, Begin, Go
<1>3. UNCHANGED <<late, subscribed, extending, recordings, replays, counters, events, listening, running,
                  reader, touched>>
    BY DEF OperationStep, AddPublicationFor, AddExclusivePublicationFor, StartRecordingFor,
       ReturnPublication, NoPublicationFor, StopRecordingFor, StoppedFor, StartReplay, ReplayStarted,
       ReturnSubscription, NoSubscription, outside, archiveVars, readerVars
<1>4. CallsChange
    <2>1. CASE StartRecordingFor(t)
        <3>1. operation[t].session \in OwnSessions
            BY <2>1 DEF StartRecordingFor, TypeInv, OperationsOK
        <3> QED
            BY <1>1, <2>1, <3>1 DEF StartRecordingFor, AddSessionId, CallsChange, Operations
    <2>2. CASE StopRecordingFor(t)
        <3>1. holds[t] \in OwnSessions
            BY <2>2 DEF StopRecordingFor, TypeInv, OperationsOK, OperationsTypeOK
        <3> QED
            BY <1>1, <2>2, <3>1 DEF StopRecordingFor, AddSessionId, CallsChange, Operations
    <2>3. CASE StartReplay(t)
        BY <1>1, <2>3 DEF StartReplay, CallsChange, Operations
    <2>4. CASE ReturnPublication(t) \/ NoPublicationFor(t) \/ StoppedFor(t) \/ ReplayStarted(t) \/ NoSubscription(t)
        BY <2>4 DEF ReturnPublication, NoPublicationFor, StoppedFor, ReplayStarted, NoSubscription, Returned,
           Threw, CallsChange
    <2>5. CASE AddPublicationFor(t) \/ AddExclusivePublicationFor(t) \/ ReturnSubscription(t)
        BY <2>5 DEF AddPublicationFor, AddExclusivePublicationFor, ReturnSubscription, CallsChange
    <2> QED
        BY <2>1, <2>2, <2>3, <2>4, <2>5 DEF OperationStep
<1>5. PublicationsChange
    <2>1. CASE AddPublicationFor(t)
        <3>1. PICK s \in OwnSessions, isOriginal \in BOOLEAN :
                IF isOriginal THEN SharedPublication = {} /\ OpenPublication(t, s, TRUE, 0)
                              ELSE JoinPublication(t, s)
            BY <2>1 DEF AddPublicationFor
        <3>2. CASE isOriginal
            BY <1>1, <3>1, <3>2 DEF PublicationsChange
        <3>3. CASE ~isOriginal
            BY <1>1, <3>1, <3>3 DEF PublicationsChange
        <3> QED
            BY <3>2, <3>3
    <2>2. CASE AddExclusivePublicationFor(t)
        BY <1>1, <2>2 DEF AddExclusivePublicationFor, PublicationsChange
    <2>3. CASE NoPublicationFor(t) \/ StoppedFor(t)
        BY <2>3 DEF NoPublicationFor, StoppedFor, PublicationsChange
    <2>4. CASE \/ StartRecordingFor(t) \/ ReturnPublication(t) \/ StopRecordingFor(t) \/ StartReplay(t)
               \/ ReplayStarted(t) \/ ReturnSubscription(t) \/ NoSubscription(t)
        BY <2>4 DEF StartRecordingFor, ReturnPublication, StopRecordingFor, StartReplay, ReplayStarted,
           ReturnSubscription, NoSubscription, PublicationsChange
    <2> QED
        BY <2>1, <2>2, <2>3, <2>4 DEF OperationStep
<1> QED
    BY <1>2, <1>3, <1>4, <1>5 DEF OwnChange, EventsChange, ReaderChange, readerVars, TypeInv, OutsideOK, RecordingsTypeOK

LEMMA OperationsKeepType ==
    ASSUME TypeInv, program = "operations", NEW t \in Threads, OperationStep(t)
    PROVE  OperationsTypeOK' /\ (\A u \in Threads : pc'[u] = "added" => operation'[u].session \in OwnSessions)
<1>1. /\ pc = [u \in Threads |-> pc[u]] /\ OperationsTypeOK /\ MaxOperations \in Nat
      /\ \A u \in Threads : pc[u] = "added" => operation[u].session \in OwnSessions
    BY OperationsAssumption DEF OperationsAssumption, TypeInv, OperationsOK
<1>2. None \in Int /\ NoOperation = Operation("none", None, FALSE)
    BY DEF None, NoOperation
<1>3. CASE AddPublicationFor(t) \/ AddExclusivePublicationFor(t)
    <2>1. PICK s \in OwnSessions, isOriginal \in BOOLEAN, kind \in {"addRecorded", "addRecordedExclusive"} :
            Begin(t, "added", Operation(kind, s, isOriginal))
        BY <1>3 DEF AddPublicationFor, AddExclusivePublicationFor
    <2>2. made' \in 0..MaxOperations /\ UNCHANGED <<holds, replaying, stopAsked>>
        <3>1. made' = made + 1 /\ made < MaxOperations
            BY <1>3, <2>1 DEF AddPublicationFor, AddExclusivePublicationFor, Begin, Idle
        <3>2. UNCHANGED <<holds, replaying, stopAsked>>
            BY <1>3 DEF AddPublicationFor, AddExclusivePublicationFor
        <3> QED
            BY <1>1, <3>1, <3>2 DEF OperationsTypeOK
    <2> QED
        BY <1>1, <1>2, <2>1, <2>2 DEF Begin, Go, Operation, OperationsTypeOK
<1>4. CASE StartReplay(t)
    <2>1. made' \in 0..MaxOperations /\ UNCHANGED <<holds, replaying, stopAsked>>
        BY <1>1, <1>4 DEF StartReplay, Begin, Idle, OperationsTypeOK
    <2> QED
        BY <1>1, <1>2, <1>4, <2>1 DEF StartReplay, Begin, Go, Operation, OperationsTypeOK
<1>5. CASE StartRecordingFor(t)
    BY <1>1, <1>5 DEF StartRecordingFor, Go, operationVars, OperationsTypeOK
<1>6. CASE ReturnPublication(t)
    BY <1>1, <1>2, <1>6 DEF ReturnPublication, Go, Operation, OperationsTypeOK
<1>7. CASE NoPublicationFor(t) \/ NoSubscription(t)
    <2>1. /\ pc' = [pc EXCEPT ![t] = "idle"] /\ operation' = [operation EXCEPT ![t] = NoOperation]
          /\ UNCHANGED <<holds, replaying, stopAsked, made>>
        BY <1>7 DEF NoPublicationFor, NoSubscription, Go
    <2> QED
        BY <1>1, <1>2, <2>1 DEF Operation, OperationsTypeOK
<1>8. CASE StopRecordingFor(t) \/ StoppedFor(t)
    BY <1>1, <1>2, <1>8 DEF StopRecordingFor, StoppedFor, Go, OperationsTypeOK
<1>9. CASE ReplayStarted(t)
    <2>1. calls[t].id \in Int
        BY DEF TypeInv, CallsOK, Calls
    <2> QED
        BY <1>1, <1>9, <2>1 DEF ReplayStarted, Go, OperationsTypeOK
<1>10. CASE ReturnSubscription(t)
    <2>1. operation[t].replaySessionId \in Int
        BY <1>1 DEF OperationsTypeOK
    <2>2. Narrow(operation[t].replaySessionId) \in Int
        BY <2>1, Int32Facts, Bits DEF Narrow
    <2> QED
        BY <1>1, <1>2, <1>10, <2>1, <2>2 DEF ReturnSubscription, Go, Operation, OperationsTypeOK
<1> QED
    BY <1>3, <1>4, <1>5, <1>6, <1>7, <1>8, <1>9, <1>10 DEF OperationStep

LEMMA SearchingKeepsType ==
    ASSUME TypeInv, program = "search", NEW t \in Threads, Searching(t)
    PROVE  OwnChange /\ OperationsTypeOK'
<1>1. PICK r \in RecordingIds : FindCounterByRecording(t, r)
    BY DEF Searching
<1>2. r \in Int
    BY <1>1 DEF RecordingIds
<1>3. OwnChange
    BY <1>1, <1>2 DEF FindCounterByRecording, recordingsVars, processVars, archiveVars, driverVars, OwnChange,
       CallsChange, PublicationsChange, ReaderChange, EventsChange, Searches, TypeInv, OutsideOK, RecordingsTypeOK
<1>4. OperationsTypeOK'
    BY <1>1, OperationsAssumption DEF FindCounterByRecording, Idle, OperationsAssumption, TypeInv, OperationsOK, OperationsTypeOK
<1> QED
    BY <1>3, <1>4

-----------------------------------------------------------------------------
(***************************************************************************)
(* The sample RecordingThroughput.                                         *)
(***************************************************************************)
LEMMA MainChange ==
    ASSUME TypeInv, program = "throughput", MainStep
    PROVE  OwnChange
<1>1. MainThread \in Threads /\ AnySession \in Keys /\ None \notin OwnSessions
    BY ConstantFacts DEF Keys
<1>2. pc' = [t \in Threads |-> pc'[t]]
    BY DEF TypeInv, MainStep, AskToRecord, Recording, AddRoundPublication, StoreIsRecording, StoreNoStop, Publish,
       StoreStopPosition, EndOfRound, Repeat, Quit, MainThrows, Join, Destroyed, MainGoes, Go, Crash, processVars
<1>3. UNCHANGED <<late, subscribed, extending, recordings, replays, counters, events, listening, reader, touched>>
    BY DEF MainStep, AskToRecord, Recording, AddRoundPublication, StoreIsRecording, StoreNoStop, Publish,
       StoreStopPosition, EndOfRound, Repeat, Quit, MainThrows, Join, Destroyed, outside, processVars,
       archiveVars, driverVars, readerVars
<1>4. running' \in BOOLEAN
    BY DEF TypeInv, OutsideOK, RecordingsTypeOK, MainStep, AskToRecord, Recording, AddRoundPublication,
       StoreIsRecording, StoreNoStop, Publish, StoreStopPosition, EndOfRound, Repeat, Quit, MainThrows, Join,
       Destroyed, outside, processVars
<1>5. CallsChange
    <2>1. CASE AskToRecord
        BY <1>1, <2>1 DEF AskToRecord, CallsChange, Operations
    <2>2. CASE Join
        BY <1>1, <2>2 DEF Join, CallsChange, Operations
    <2>3. CASE Recording \/ MainThrows \/ Destroyed
        BY <1>1, <2>3 DEF Recording, MainThrows, Destroyed, Returned, Threw, CallsChange
    <2>4. CASE \/ AddRoundPublication \/ StoreIsRecording \/ StoreNoStop \/ Publish \/ StoreStopPosition
               \/ EndOfRound \/ Repeat \/ Quit
        BY <2>4 DEF AddRoundPublication, StoreIsRecording, StoreNoStop, Publish, StoreStopPosition, EndOfRound,
           Repeat, Quit, processVars, CallsChange
    <2> QED
        BY <2>1, <2>2, <2>3, <2>4 DEF MainStep
<1>6. PublicationsChange
    <2>1. CASE AddRoundPublication
        BY <1>1, <2>1 DEF AddRoundPublication, PublicationsChange
    <2>2. CASE EndOfRound
        BY <1>1, <2>2 DEF EndOfRound, PublicationsChange
    <2>3. CASE Publish
        BY <2>3 DEF Publish, PublicationsChange
    <2>4. CASE \/ AskToRecord \/ Recording \/ StoreIsRecording \/ StoreNoStop \/ StoreStopPosition \/ Repeat
               \/ Quit \/ MainThrows \/ Join \/ Destroyed
        BY <2>4 DEF AskToRecord, Recording, StoreIsRecording, StoreNoStop, StoreStopPosition, Repeat, Quit,
           MainThrows, Join, Destroyed, driverVars, PublicationsChange
    <2> QED
        BY <2>1, <2>2, <2>3, <2>4 DEF MainStep
<1> QED
    BY <1>2, <1>3, <1>4, <1>5, <1>6 DEF OwnChange, EventsChange, ReaderChange, readerVars, TypeInv, OutsideOK, RecordingsTypeOK

LEMMA PollerChange ==
    ASSUME TypeInv, program = "throughput", PollerStep
    PROVE  OwnChange
<1>1. pc' = [t \in Threads |-> pc'[t]]
    BY DEF TypeInv, PollerStep, Subscribe, SubscribeFails, PollEvents, EndOfThread, Started, Progress, Stopped,
       Rate, ClearIsRecording, UnknownEvent, EndOfPoll, TakeEvent, PollerGoes, Go, Crash
<1>2. UNCHANGED <<calls, late, subscribed, extending, recordings, replays, counters, publications, running, reader, touched>>
    BY DEF PollerStep, Subscribe, SubscribeFails, PollEvents, EndOfThread, Started, Progress, Stopped,
       Rate, ClearIsRecording, UnknownEvent, EndOfPoll, TakeEvent, outside, archiveVars, driverVars, readerVars
<1>3. EventsChange /\ listening' \in BOOLEAN
    BY DEF TypeInv, OutsideOK, RecordingsTypeOK, PollerStep, Subscribe, SubscribeFails, PollEvents, EndOfThread,
       Started, Progress, Stopped, Rate, ClearIsRecording, UnknownEvent, EndOfPoll, TakeEvent, outside,
       archiveVars, EventsChange
<1> QED
    BY <1>1, <1>2, <1>3 DEF OwnChange, CallsChange, PublicationsChange, ReaderChange, readerVars, TypeInv, OutsideOK,
       RecordingsTypeOK

\* What the main thread's places need.
MainPlaces ==
    /\ pc[MainThread] \in {"stores", "storeFlag", "storePosition", "publish"} => published \in OwnSessions
    /\ pc[MainThread] \in {"record", "recording", "round"} => round < MaxRounds

LEMMA MainKeepsType ==
    ASSUME TypeInv, program = "throughput", MainStep
    PROVE  ThroughputTypeOK' /\ MainPlaces'
<1>1. /\ MainThread \in Threads /\ pc = [t \in Threads |-> pc[t]] /\ ThroughputTypeOK /\ MainPlaces
      /\ NoStop \in Nat /\ NumberOfMessages \in Nat /\ MaxRounds \in Nat
    BY ConstantFacts, ThroughputAssumption DEF ThroughputAssumption, TypeInv, ThroughputOK, MainPlaces
<1>2. CASE AskToRecord \/ Recording \/ MainThrows \/ Repeat
    BY <1>1, <1>2 DEF AskToRecord, Recording, MainThrows, Repeat, MainGoes, Go, throughputVars, ThroughputTypeOK, MainPlaces
<1>3. CASE AddRoundPublication
    BY <1>1, <1>3 DEF AddRoundPublication, MainGoes, Go, ThroughputTypeOK, MainPlaces
<1>4. CASE StoreIsRecording \/ StoreNoStop
    BY <1>1, <1>4 DEF StoreIsRecording, StoreNoStop, MainGoes, Go, ThroughputTypeOK, MainPlaces
<1>5. CASE Publish
    BY <1>1, <1>5 DEF Publish, processVars, ThroughputTypeOK, MainPlaces
<1>6. CASE StoreStopPosition
    <2>1. published \in Sessions
        BY <1>1, <1>6, ConstantFacts DEF StoreStopPosition, MainPlaces
    <2>2. publications[published].position \in Nat
        BY <2>1 DEF TypeInv, OutsideOK, Positions
    <2>3. pc'[MainThread] \in {"await", "crashed"}
        BY <1>1, <1>6 DEF StoreStopPosition, Go, Crash
    <2> QED
        BY <1>1, <1>6, <2>2, <2>3 DEF StoreStopPosition, ThroughputTypeOK, MainPlaces
<1>7. CASE EndOfRound \/ Quit
    BY <1>1, <1>7 DEF EndOfRound, Quit, MainGoes, Go, throughputVars, ThroughputTypeOK, MainPlaces
<1>8. CASE Join \/ Destroyed
    BY <1>1, <1>8 DEF Join, Destroyed, Go, Crash, throughputVars, ThroughputTypeOK, MainPlaces
<1> QED
    BY <1>2, <1>3, <1>4, <1>5, <1>6, <1>7, <1>8 DEF MainStep

LEMMA PollerKeepsType ==
    ASSUME TypeInv, program = "throughput", PollerStep
    PROVE  ThroughputTypeOK' /\ MainPlaces'
<1>1. /\ MainThread \in Threads /\ Poller \in Threads /\ MainThread # Poller
      /\ pc = [t \in Threads |-> pc[t]] /\ ThroughputTypeOK /\ MainPlaces
    BY ConstantFacts, ThroughputAssumption DEF ThroughputAssumption, TypeInv, ThroughputOK, MainPlaces
<1>2. pc'[MainThread] \in {pc[MainThread], "crashed"} /\ UNCHANGED <<published, round>>
    BY <1>1 DEF PollerStep, Subscribe, SubscribeFails, PollEvents, EndOfThread, Started, Progress, Stopped,
       Rate, ClearIsRecording, UnknownEvent, EndOfPoll, TakeEvent, PollerGoes, Go, Crash, throughputVars
<1>3. MainPlaces'
    BY <1>1, <1>2 DEF MainPlaces
<1>4. ASSUME NEW kind \in {"started", "progress", "stopped"}, NEW to, TakeEvent(kind, to)
      PROVE  ThroughputTypeOK'
    <2>1. Head(events) \in Events /\ Head(events).kind = kind
        BY <1>4, HeadTailProperties DEF TakeEvent, TypeInv, OutsideOK
    <2>2. Head(events).recordingId \in RecordingIds
        BY <2>1 DEF Events
    <2> QED
        BY <1>1, <1>4, <2>2 DEF TakeEvent, ThroughputTypeOK
<1>5. CASE Started \/ Progress \/ Stopped
    <2>1. CASE Started
        BY <1>3, <1>4, <2>1 DEF Started
    <2>2. CASE Progress
        <3>1. \E to : TakeEvent("progress", to)
            BY <2>2 DEF Progress
        <3> QED
            BY <1>3, <1>4, <3>1
    <2>3. CASE Stopped
        BY <1>3, <1>4, <2>3 DEF Stopped
    <2> QED
        BY <1>5, <2>1, <2>2, <2>3
<1>6. CASE \/ Subscribe \/ SubscribeFails \/ PollEvents \/ EndOfThread \/ Rate \/ ClearIsRecording \/ UnknownEvent \/ EndOfPoll
    <2>1. /\ isRecording' \in {isRecording, FALSE}
          /\ UNCHANGED <<disableRecording, stopPosition, published, offered, round, clearedBy>>
        BY <1>6 DEF Subscribe, SubscribeFails, PollEvents, EndOfThread, Rate, ClearIsRecording, UnknownEvent,
           EndOfPoll, throughputVars
    <2> QED
        BY <1>1, <1>3, <2>1 DEF ThroughputTypeOK
<1> QED
    BY <1>3, <1>5, <1>6 DEF PollerStep

-----------------------------------------------------------------------------
(***************************************************************************)
(* A reading thread of the process, and the world outside.                 *)
(***************************************************************************)
LEMMA ReadingKeepsType ==
    ASSUME TypeInv, ReadStep
    PROVE  ReaderOK'
<1>1. /\ reader \in [op : Searches \cup {"none", "getRecordingId"}, sought : Int, counterId : CounterIds,
                     field : {"state", "typeId", "key", "done"}, result : Int]
      /\ touched \subseteq CounterIds /\ touched' = touched
    BY DEF TypeInv, ReaderOK, ReadTypeOK, ReadStep
<1>2. "getRecordingId" \notin Searches /\ None \in Int /\ CounterIds \subseteq Int
    BY DEF Searches, None, CounterIds
<1>3. ASSUME NEW value \in Int, ReadReturns(value), reader.op \in Searches => value \in CounterIds \cup {None}
      PROVE  ReaderOK'
    BY <1>1, <1>3 DEF ReadReturns, ReaderOK, ReadTypeOK
<1>4. ASSUME NEW field \in {"typeId", "key"}, ReadField(field)
      PROVE  ReaderOK'
    BY <1>1, <1>4 DEF ReadField, TypeInv, ReaderOK, ReadTypeOK
<1>5. ASSUME Miss
      PROVE  ReaderOK'
    <2>1. CASE reader.op = "getRecordingId" \/ IsLast(reader.counterId)
        BY <1>2, <1>3, <1>5, <2>1 DEF Miss
    <2>2. CASE ~(reader.op = "getRecordingId" \/ IsLast(reader.counterId))
        <3>1. reader.counterId + 1 \in CounterIds
            BY <1>1, <2>2, ConstantFacts DEF IsLast, CounterIds
        <3>2. reader' = [reader EXCEPT !.counterId = @ + 1, !.field = "state"]
            BY <1>5, <2>2 DEF Miss
        <3> QED
            BY <1>1, <3>1, <3>2 DEF TypeInv, ReaderOK, ReadTypeOK
    <2> QED
        BY <2>1, <2>2
<1>6. CASE ReadState \/ ReadTypeId
    BY <1>4, <1>5, <1>6 DEF ReadState, ReadTypeId
<1>7. CASE ReadKey
    <2> DEFINE key == KeyOf(counters[reader.counterId], reader.op)
    <2>1. key \in Int
        BY <1>1, ConstantFacts DEF KeyOf, TypeInv, OutsideOK, RecordingsTypeOK, Keys, None, AnySession, RecordingIds
    <2>2. \/ reader.op = "getRecordingId" /\ ReadReturns(key)
          \/ ReadReturns(reader.counterId)
          \/ Miss
        BY <1>7 DEF ReadKey
    <2> HIDE DEF key
    <2> QED
        BY <1>1, <1>2, <1>3, <1>5, <2>1, <2>2
<1> QED
    BY <1>6, <1>7 DEF ReadStep

LEMMA WatchKeepsType ==
    ASSUME TypeInv, Watch
    PROVE  ReaderOK'
BY DEF Watch, TypeInv, ReaderOK, ReadTypeOK

LEMMA EventKeepsType ==
    ASSUME TypeInv, NEW kind \in {"started", "progress", "stopped"}, NEW r \in RecordingIds, NEW position \in Int,
           Event(kind, r, position)
    PROVE  events' \in Seq(Events)
<1>1. [kind |-> kind, recordingId |-> r, position |-> position] \in Events
    BY DEF Events
<1>2. events \in Seq(Events)
    BY DEF TypeInv, OutsideOK
<1> QED
    BY <1>1, <1>2, AppendProperties DEF Event

RecordingTypes == [state : {"none", "starting", "active", "stopped"}, session : Keys, position : Int,
                   counter : CounterIds \cup {None}]
CounterTypes == [state : {"unused", "allocated", "reclaimed"}, typeId : {"none", "recordingPos", "other"},
                 recordingId : RecordingIds \cup {None}, sessionId : Keys, value : Int]

\* Several fields change one after the other.
LEMMA AnsweredType ==
    ASSUME NEW f \in [Threads -> Calls], NEW t \in Threads, NEW id \in Int, NEW listing \in Seq(Descriptors),
           NEW status \in {"done", "failed"}
    PROVE  [f EXCEPT ![t].status = status, ![t].id = id, ![t].listing = listing] \in [Threads -> Calls]
<1> DEFINE g == [f EXCEPT ![t].status = status]
           h == [g EXCEPT ![t].id = id]
           k == [h EXCEPT ![t].listing = listing]
<1>1. g \in [Threads -> Calls]
    BY DEF Calls
<1>2. h \in [Threads -> Calls]
    <2> HIDE DEF g
    <2> QED
        BY <1>1 DEF Calls
<1>3. k \in [Threads -> Calls]
    <2> HIDE DEF h
    <2> QED
        BY <1>2 DEF Calls
<1> QED
    BY <1>3

LEMMA AllocatedType ==
    ASSUME NEW f \in [CounterIds -> CounterTypes], NEW i, NEW position \in Int
    PROVE  [f EXCEPT ![i].state = "allocated", ![i].value = position] \in [CounterIds -> CounterTypes]
<1> DEFINE g == [f EXCEPT ![i].state = "allocated"]
           h == [g EXCEPT ![i].value = position]
<1>1. g \in [CounterIds -> CounterTypes]
    BY DEF CounterTypes
<1>2. h \in [CounterIds -> CounterTypes]
    <2> HIDE DEF g
    <2> QED
        BY <1>1 DEF CounterTypes
<1> QED
    BY <1>2

LEMMA MetadataType ==
    ASSUME NEW f \in [CounterIds -> CounterTypes], NEW i \in CounterIds, NEW r \in RecordingIds, NEW s \in Keys
    PROVE  [f EXCEPT ![i].typeId = "recordingPos", ![i].recordingId = r, ![i].sessionId = s, ![i].value = 0]
              \in [CounterIds -> CounterTypes]
<1> DEFINE g == [f EXCEPT ![i].typeId = "recordingPos"]
           h == [g EXCEPT ![i].recordingId = r]
           k == [h EXCEPT ![i].sessionId = s]
           m == [k EXCEPT ![i].value = 0]
<1>1. g \in [CounterIds -> CounterTypes]
    BY DEF CounterTypes
<1>2. h \in [CounterIds -> CounterTypes]
    <2> HIDE DEF g
    <2> QED
        BY <1>1 DEF CounterTypes
<1>3. k \in [CounterIds -> CounterTypes]
    <2> HIDE DEF h
    <2> QED
        BY <1>2 DEF CounterTypes
<1>4. m \in [CounterIds -> CounterTypes]
    <2> HIDE DEF k
    <2> QED
        BY <1>3 DEF CounterTypes
<1> QED
    BY <1>4

\* Types of what the world outside changes.
OutsideChange ==
    /\ subscribed' \subseteq Keys /\ extending' \in RecordingIds \cup {None}
    /\ publications' \in Publications
    /\ recordings' \in [RecordingIds -> RecordingTypes]
    /\ counters' \in [CounterIds -> CounterTypes]
    /\ replays' \subseteq [id : Int, session : Int] /\ IsFiniteSet(replays')
    /\ listening' \in BOOLEAN /\ running' \in BOOLEAN
    /\ events' \in Seq(Events)

LEMMA OutsideTypes ==
    /\ OutsideChange <=> OutsideOK'
    /\ TypeInv => /\ subscribed \subseteq Keys /\ extending \in RecordingIds \cup {None}
                  /\ publications \in Publications
                  /\ recordings \in [RecordingIds -> RecordingTypes]
                  /\ counters \in [CounterIds -> CounterTypes]
                  /\ replays \subseteq [id : Int, session : Int] /\ IsFiniteSet(replays)
                  /\ listening \in BOOLEAN /\ running \in BOOLEAN
                  /\ events \in Seq(Events)
<1>1. publications' \in Publications <=>
        /\ publications' \in [Sessions -> [state : {"none", "open", "closed"}, shared : BOOLEAN,
                                          users : SUBSET Threads, position : Int]]
        /\ Positions'
    BY DEF Publications, Positions
<1> QED
    BY <1>1, PublicationTypes DEF OutsideChange, TypeInv, OutsideOK, RecordingsTypeOK, Keys, RecordingTypes, CounterTypes

LEMMA ReplayIds ==
    ASSUME IsFiniteSet(replays), NEW s \in ReplaySessions
    PROVE  s \in Int /\ ReplayId(s) \in Int
<1>1. s \in Int /\ Modulus \in Nat \ {0}
    BY ReplayAssumption, Bits DEF ReplayAssumption
<1>2. Cardinality(replays) \in Nat /\ s % Modulus \in 0..(Modulus - 1)
    BY <1>1, FS_CardinalityType
<1>3. ReplayId(s) = (Cardinality(replays) + 1) * Modulus + (s % Modulus)
    BY DEF ReplayId, Modulus
<1> DEFINE n == Cardinality(replays)
           low == s % Modulus
<1> HIDE DEF n, low
<1>4. (n + 1) * Modulus + low \in Int
    BY <1>1, <1>2 DEF n, low
<1> QED
    BY <1>1, <1>3, <1>4 DEF n, low

\* What the archive does for a request.
Requested(c) ==
    \/ StartRequested(c) \/ ExtendRequested(c) \/ StopRequested(c)
    \/ \E s \in ReplaySessions : ReplayRequested(c, s)
    \/ UNCHANGED <<subscribed, extending, replays>>

LEMMA RequestKeepsType ==
    ASSUME TypeInv, NEW c \in Calls, c.op = "extend" => c.id \in RecordingIds, Requested(c)
    PROVE  /\ subscribed' \subseteq Keys /\ extending' \in RecordingIds \cup {None}
           /\ replays' \subseteq [id : Int, session : Int] /\ IsFiniteSet(replays')
<1>1. /\ subscribed \subseteq Keys /\ extending \in RecordingIds \cup {None}
      /\ replays \subseteq [id : Int, session : Int] /\ IsFiniteSet(replays) /\ c.key \in Keys
    BY OutsideTypes DEF Calls
<1>2. CASE StartRequested(c) \/ ExtendRequested(c) \/ StopRequested(c)
    BY <1>1, <1>2 DEF StartRequested, ExtendRequested, StopRequested, Unsubscribe
<1>3. ASSUME NEW s \in ReplaySessions, ReplayRequested(c, s)
      PROVE  replays' \subseteq [id : Int, session : Int] /\ IsFiniteSet(replays')
    <2>1. [id |-> ReplayId(s), session |-> s] \in [id : Int, session : Int]
        BY <1>1, ReplayIds
    <2>2. replays' = replays \cup {[id |-> ReplayId(s), session |-> s]}
        BY <1>3 DEF ReplayRequested
    <2>3. IsFiniteSet(replays')
        BY <1>1, <2>2, FS_AddElement
    <2> QED
        BY <1>1, <2>1, <2>2, <2>3
<1>4. CASE \E s \in ReplaySessions : ReplayRequested(c, s)
    BY <1>1, <1>3, <1>4 DEF ReplayRequested
<1>5. CASE UNCHANGED <<subscribed, extending, replays>>
    BY <1>1, <1>5
<1> QED
    BY <1>2, <1>4, <1>5 DEF Requested

LEMMA CallStepKeepsType ==
    ASSUME TypeInv, CallStep
    PROVE  CallsOK' /\ OutsideOK' /\ pc' = pc
<1>1. calls \in [Threads -> Calls] /\ late \subseteq Calls
      /\ (\A t \in Threads : calls[t].op = "extend" /\ calls[t].status = "asked" => calls[t].id \in RecordingIds)
      /\ (\A c \in late : c.op = "extend" => c.id \in RecordingIds)
    BY DEF TypeInv, CallsOK
<1>2. ASSUME NEW t \in Threads, GiveUp(t)
      PROVE  CallsOK' /\ OutsideOK' /\ pc' = pc
    <2>1. OutsideChange /\ pc' = pc
        BY <1>2, OutsideTypes DEF GiveUp, OutsideChange, driverVars
    <2>2. CallsOK'
        BY <1>1, <1>2 DEF GiveUp, CallsOK, Calls
    <2> QED
        BY <2>1, <2>2, OutsideTypes
<1>3. ASSUME NEW t \in Threads, Refuse(t)
      PROVE  CallsOK' /\ OutsideOK' /\ pc' = pc
    <2>1. OutsideChange /\ pc' = pc
        BY <1>3, OutsideTypes DEF Refuse, OutsideChange, driverVars, archiveVars
    <2>2. CallsOK'
        BY <1>1, <1>3 DEF Refuse, CallsOK, Calls, archiveVars
    <2> QED
        BY <2>1, <2>2, OutsideTypes
<1>4. ASSUME NEW t \in Threads, Serve(t)
      PROVE  CallsOK' /\ OutsideOK' /\ pc' = pc
    <2> DEFINE c == calls[t]
    <2>1. c \in Calls /\ (c.op = "extend" => c.id \in RecordingIds) /\ Requested(c)
        BY <1>1, <1>4 DEF Serve, Requested
    <2>2. PICK id \in Int, listing \in Seq(Descriptors) : Answer(t, id, listing)
        <3>1. <<>> \in Seq(Descriptors) /\ Listing \in Seq(Descriptors) /\ None \in Int
            BY EmptySeq, ListingFacts DEF TypeInv, OutsideOK, None
        <3>2. \A s \in ReplaySessions : ReplayId(s) \in Int
            BY ReplayIds DEF TypeInv, OutsideOK
        <3> QED
            BY <1>4, <3>1, <3>2 DEF Serve
    <2>3. CallsOK'
        <3>1. PICK status \in {"done", "failed"} :
                calls' = [calls EXCEPT ![t].status = status, ![t].id = id, ![t].listing = listing]
            BY <2>2 DEF Answer
        <3>2. late' = late
            BY <1>4 DEF Serve
        <3>3. calls' \in [Threads -> Calls]
            BY <1>1, <3>1, AnsweredType
        <3>4. calls'[t].status # "asked" /\ \A u \in Threads \ {t} : calls'[u] = calls[u]
            BY <1>1, <3>1 DEF Calls
        <3> QED
            BY <1>1, <3>2, <3>3, <3>4 DEF CallsOK
    <2>4. UNCHANGED <<pc, recordings, events, publications, counters, listening, running>>
        BY <1>4 DEF Serve, driverVars
    <2> HIDE DEF c
    <2>5. /\ subscribed' \subseteq Keys /\ extending' \in RecordingIds \cup {None}
          /\ replays' \subseteq [id : Int, session : Int] /\ IsFiniteSet(replays')
        BY <2>1, RequestKeepsType
    <2>6. OutsideChange
        BY <2>4, <2>5, OutsideTypes DEF OutsideChange
    <2> QED
        BY <2>3, <2>4, <2>6, OutsideTypes
<1>5. ASSUME ServeLate
      PROVE  CallsOK' /\ OutsideOK' /\ pc' = pc
    <2>1. PICK c \in late : late' = late \ {c} /\ Requested(c)
        BY <1>5 DEF ServeLate, Requested
    <2>2. UNCHANGED <<pc, calls, recordings, events, publications, counters, listening, running>>
        BY <1>5 DEF ServeLate, driverVars
    <2>3. /\ subscribed' \subseteq Keys /\ extending' \in RecordingIds \cup {None}
          /\ replays' \subseteq [id : Int, session : Int] /\ IsFiniteSet(replays')
        BY <1>1, <2>1, RequestKeepsType
    <2>4. OutsideChange
        BY <2>2, <2>3, OutsideTypes DEF OutsideChange
    <2>5. CallsOK'
        BY <1>1, <2>1, <2>2 DEF CallsOK
    <2> QED
        BY <2>2, <2>4, <2>5, OutsideTypes
<1>6. ASSUME OthersStop
      PROVE  CallsOK' /\ OutsideOK' /\ pc' = pc
    <2>1. OutsideChange
        BY <1>6, OutsideTypes DEF OthersStop, Unsubscribe, processVars, driverVars, OutsideChange
    <2>2. CallsOK' /\ pc' = pc
        BY <1>1, <1>6 DEF OthersStop, processVars, CallsOK
    <2> QED
        BY <2>1, <2>2, OutsideTypes
<1> QED
    BY <1>2, <1>3, <1>4, <1>5, <1>6 DEF CallStep

LEMMA RecordingStepKeepsType ==
    ASSUME TypeInv, RecordingStep
    PROVE  OutsideOK' /\ UNCHANGED <<pc, calls, late>>
<1>1. /\ subscribed \subseteq Keys /\ extending \in RecordingIds \cup {None}
      /\ publications \in Publications
      /\ recordings \in [RecordingIds -> RecordingTypes]
      /\ counters \in [CounterIds -> CounterTypes]
      /\ replays \subseteq [id : Int, session : Int] /\ IsFiniteSet(replays)
      /\ listening \in BOOLEAN /\ running \in BOOLEAN
      /\ events \in Seq(Events)
    BY OutsideTypes
<1>2. UNCHANGED <<pc, calls, late, subscribed, extending, replays, publications, listening, running>>
    BY DEF RecordingStep, StartRecording, AllocateCounter, Record, StopRecording, processVars
<1>3. ASSUME NEW s \in Sessions, StartRecording(s)
      PROVE  OutsideChange
    <2>1. PICK r \in RecordingIds, i \in CounterIds :
            /\ counters' = [counters EXCEPT ![i].typeId = "recordingPos", ![i].recordingId = r,
                                            ![i].sessionId = s, ![i].value = 0]
            /\ recordings' = [recordings EXCEPT ![r] =
                                [state |-> "starting", session |-> s, counter |-> i,
                                 position |-> publications[s].position]]
            /\ events' = events
        BY <1>3 DEF StartRecording, WriteMetadata
    <2>2. s \in Keys /\ publications[s].position \in Int
        BY <1>1 DEF Keys, Publications
    <2>3. [state |-> "starting", session |-> s, counter |-> i, position |-> publications[s].position] \in RecordingTypes
        BY <2>2 DEF RecordingTypes
    <2>4. recordings' \in [RecordingIds -> RecordingTypes]
        BY <1>1, <2>1, <2>3
    <2>8. counters' \in [CounterIds -> CounterTypes]
        <3>1. r \in RecordingIds /\ s \in Keys /\ counters \in [CounterIds -> CounterTypes]
            BY <1>1, <2>2
        <3> QED
            BY <2>1, <3>1, MetadataType
    <2> QED
        BY <1>1, <1>2, <2>1, <2>4, <2>8 DEF OutsideChange
<1>4. ASSUME NEW r \in RecordingIds, AllocateCounter(r) \/ Record(r) \/ StopRecording(r)
      PROVE  OutsideChange
    <2> DEFINE i == recordings[r].counter
               position == recordings[r].position
    <2>1. recordings \in [RecordingIds -> RecordingTypes] /\ counters \in [CounterIds -> CounterTypes]
          /\ position \in Int /\ position + 1 \in Int
        BY <1>1 DEF RecordingTypes
    <2>2. /\ \/ recordings' = [recordings EXCEPT ![r].state = "active"]
             \/ recordings' = [recordings EXCEPT ![r].position = @ + 1]
             \/ recordings' = [recordings EXCEPT ![r].state = "stopped"]
          /\ \/ counters' = [counters EXCEPT ![i].state = "allocated", ![i].value = position]
             \/ counters' = [counters EXCEPT ![i].value = @ + 1]
             \/ counters' = [counters EXCEPT ![i].state = "reclaimed"]
        BY <1>4 DEF AllocateCounter, Record, StopRecording
    <2>3. recordings' \in [RecordingIds -> RecordingTypes]
        BY <2>1, <2>2 DEF RecordingTypes
    <2>4. counters' \in [CounterIds -> CounterTypes]
        <3> HIDE DEF i, position
        <3>1. CASE counters' = [counters EXCEPT ![i].state = "allocated", ![i].value = position]
            BY <2>1, <3>1, AllocatedType
        <3>2. CASE counters' = [counters EXCEPT ![i].value = @ + 1]
            <4>1. CASE i \in CounterIds
                <5>1. counters[i].value + 1 \in Int
                    BY <2>1, <4>1 DEF CounterTypes
                <5> QED
                    BY <2>1, <3>2, <4>1, <5>1 DEF CounterTypes
            <4>2. CASE i \notin CounterIds
                <5>1. counters' = counters
                    BY <2>1, <3>2, <4>2
                <5> QED
                    BY <2>1, <5>1
            <4> QED
                BY <4>1, <4>2
        <3>3. CASE counters' = [counters EXCEPT ![i].state = "reclaimed"]
            BY <2>1, <3>3 DEF CounterTypes
        <3> QED
            BY <2>2, <3>1, <3>2, <3>3
    <2>5. events' \in Seq(Events)
        <3> QED
            BY <1>4, <2>1, EventKeepsType DEF AllocateCounter, Record, StopRecording
    <2> QED
        BY <1>1, <1>2, <2>3, <2>4, <2>5 DEF OutsideChange
<1>5. OutsideChange
    BY <1>3, <1>4 DEF RecordingStep
<1> QED
    BY <1>2, <1>5, OutsideTypes

LEMMA OthersKeepType ==
    ASSUME TypeInv, Others
    PROVE  CallsOK' /\ OutsideOK' /\ ReaderOK' /\ pc' = pc
<1>1. Watch
    BY DEF Others, Seen
<1>2. ReaderOK'
    BY <1>1, WatchKeepsType
<1>3. CASE CallStep
    BY <1>2, <1>3, CallStepKeepsType
<1>4. CASE RecordingStep
    BY <1>2, <1>4, RecordingStepKeepsType DEF TypeInv, CallsOK
<1>5. ASSUME NEW i \in CounterIds, NEW s \in Sessions, OtherCounter(i, s)
      PROVE  OutsideChange /\ UNCHANGED <<pc, calls, late>>
    <2>1. [state |-> "allocated", typeId |-> "other", recordingId |-> None, sessionId |-> s, value |-> 0]
             \in CounterTypes
        BY DEF CounterTypes, Keys
    <2>2. counters' = [counters EXCEPT ![i] = [state |-> "allocated", typeId |-> "other",
                                              recordingId |-> None, sessionId |-> s, value |-> 0]]
        BY <1>5 DEF OtherCounter
    <2>3. counters' \in [CounterIds -> CounterTypes]
        BY <2>1, <2>2, OutsideTypes
    <2> QED
        BY <1>5, <2>3, OutsideTypes DEF OtherCounter, processVars, archiveVars, OutsideChange
<1>6. CASE CounterStep(OwnSessions) \/ CounterStep({OtherSession})
    <2>1. OutsideChange /\ UNCHANGED <<pc, calls, late>>
        BY <1>5, <1>6, ConstantFacts DEF CounterStep
    <2> QED
        BY <1>2, <2>1, OutsideTypes DEF TypeInv, CallsOK
<1>7. CASE UnknownEventSent
    <2>1. [kind |-> "unknown", recordingId |-> None, position |-> 0] \in Events
        BY DEF Events
    <2>2. events' \in Seq(Events)
        BY <1>7, <2>1, OutsideTypes, AppendProperties DEF UnknownEventSent
    <2>3. OutsideChange
        BY <1>7, <2>2, OutsideTypes DEF UnknownEventSent, processVars, driverVars, OutsideChange
    <2>4. UNCHANGED <<pc, calls, late>>
        BY <1>7 DEF UnknownEventSent, processVars
    <2> QED
        BY <1>2, <2>3, <2>4, OutsideTypes DEF TypeInv, CallsOK
<1>8. CASE OthersPublish
    <2>1. PublicationsChange
        BY <1>8 DEF OthersPublish, PublicationsChange
    <2>2. publications' \in Publications
        BY <2>1, OutsideTypes, PublicationsKeepType
    <2>3. OutsideChange /\ UNCHANGED <<pc, calls, late>>
        BY <1>8, <2>2, OutsideTypes DEF OthersPublish, processVars, archiveVars, OutsideChange
    <2> QED
        BY <1>2, <2>3, OutsideTypes DEF TypeInv, CallsOK
<1>9. CASE Interrupt
    <2>1. OutsideChange /\ UNCHANGED <<pc, calls, late>>
        BY <1>9, OutsideTypes DEF Interrupt, archiveVars, driverVars, OutsideChange
    <2> QED
        BY <1>2, <2>1, OutsideTypes DEF TypeInv, CallsOK
<1> QED
    BY <1>3, <1>4, <1>6, <1>7, <1>8, <1>9 DEF Others, EventStep

-----------------------------------------------------------------------------
LEMMA TypeInit == Init => TypeInv
<1> SUFFICES ASSUME Init PROVE TypeInv
    OBVIOUS
<1>1. PICK oldPosition \in {None, OldPosition}, recorded \in {{}, {OtherSession}} :
        RecordingsInit(oldPosition, recorded)
    BY DEF Init
<1>2. /\ None \in Int /\ OldPosition \in Nat /\ 0 \in CounterIds /\ OtherSession \in Sessions
      /\ NoStop \in Nat /\ MaxRounds \in Nat \ {0} /\ NumberOfMessages \in Nat /\ MessagesCount \in Nat
      /\ MaxOperations \in Nat
    BY ConstantFacts, ProgramAssumption, ThroughputAssumption, PublisherAssumption, OperationsAssumption
       DEF ProgramAssumption, ThroughputAssumption, PublisherAssumption, OperationsAssumption, None, CounterIds
<1>3. pc = [t \in Threads |-> Entry(t)]
    BY DEF Init
<1>4. CallsOK
    <2>1. NoCall \in Calls /\ NoCall.op = "none"
        BY <1>2, EmptySeq DEF NoCall, Calls, Operations, Keys
    <2> QED
        BY <1>1, <2>1 DEF RecordingsInit, CallsOK
<1>5. OutsideOK
    <2>1. Positions /\ publications \in [Sessions -> [state : {"none", "open", "closed"}, shared : BOOLEAN,
                                                     users : SUBSET Threads, position : Int]]
        <3>1. NoPublication \in [state : {"none", "open", "closed"}, shared : BOOLEAN, users : SUBSET Threads,
                                 position : Int]
              /\ NoPublication.position = 0
            BY DEF NoPublication
        <3> QED
            BY <1>1, <3>1 DEF RecordingsInit, Positions
    <2>2. recordings \in [RecordingIds -> [state : {"none", "starting", "active", "stopped"},
                                          session : Sessions \cup {AnySession}, position : Int,
                                          counter : CounterIds \cup {None}]]
        <3>1. oldPosition \in Int
            BY <1>2
        <3>2. NoRecording \in RecordingTypes /\ OtherSession \in Keys
            BY <1>2 DEF NoRecording, RecordingTypes, Keys
        <3>3. [NoRecording EXCEPT !.state = "stopped", !.session = OtherSession, !.position = oldPosition]
                 \in RecordingTypes
            BY <3>1, <3>2 DEF RecordingTypes
        <3> QED
            BY <1>1, <3>2, <3>3 DEF RecordingsInit, RecordingTypes, Keys
    <2>3. counters \in [CounterIds -> [state : {"unused", "allocated", "reclaimed"},
                                      typeId : {"none", "recordingPos", "other"},
                                      recordingId : RecordingIds \cup {None},
                                      sessionId : Sessions \cup {AnySession}, value : Int]]
        BY <1>1 DEF RecordingsInit, UnusedCounter
    <2>4. RecordingsTypeOK
        BY <1>1, <1>2, <2>1, <2>2, <2>3 DEF RecordingsInit, RecordingsTypeOK
    <2>5. IsFiniteSet(replays) /\ events \in Seq(Events)
        BY <1>1, FS_EmptySet, EmptySeq DEF RecordingsInit
    <2> QED
        BY <2>1, <2>4, <2>5 DEF OutsideOK
<1>6. ReaderOK
    BY <1>2 DEF Init, NoReader, ReaderOK, ReadTypeOK, Searches
<1>7. Main \in Threads /\ MainThread \in Threads /\ Main = MainThread
    BY ConstantFacts, ProgramAssumption DEF ProgramAssumption
<1>8. PublisherOK
    <2>1. program = "publisher" => pc[Main] = "list"
        BY <1>3, <1>7 DEF Entry
    <2> QED
        <3>1. extendRecording \in BOOLEAN /\ PublisherInit
            BY DEF Init
        <3>2. 0 \in 0..MessagesCount
            BY <1>2
        <3> QED
            BY <1>2, <2>1, <3>1, <3>2 DEF PublisherInit, PublisherOK, PublisherTypeOK, NoRecordingData
<1>9. OperationsOK
    <2>1. program = "operations" => \A t \in Threads : pc[t] = "idle"
        BY <1>3 DEF Entry
    <2> QED
        BY <1>2, <2>1 DEF Init, OperationsInit, OperationsOK, OperationsTypeOK, NoOperation, Operation, NoReplay
<1>10. ThroughputOK
    <2>1. program = "throughput" => pc[MainThread] = "record"
        BY <1>3, <1>7 DEF Entry
    <2> QED
        <3>1. disableRecording \in BOOLEAN /\ stopPosition \in {0, NoStop} /\ ThroughputInit
            BY DEF Init
        <3>2. 0 \in 0..NumberOfMessages /\ 0 \in 0..MaxRounds /\ 0 < MaxRounds
            BY <1>2
        <3>3. ThroughputTypeOK
            <4>1. stopPosition \in Nat
                BY <1>2, <3>1
            <4>2. /\ isRecording \in BOOLEAN /\ published \in OwnSessions \cup {None} /\ offered \in 0..NumberOfMessages
                  /\ round \in 0..MaxRounds /\ clearedBy \subseteq RecordingIds
                BY <3>1, <3>2 DEF ThroughputInit
            <4> QED
                BY <3>1, <4>1, <4>2 DEF ThroughputTypeOK
        <3>4. round < MaxRounds
            BY <3>1, <3>2 DEF ThroughputInit
        <3> QED
            BY <2>1, <3>3, <3>4 DEF ThroughputOK
<1> QED
    BY <1>3, <1>4, <1>5, <1>6, <1>8, <1>9, <1>10 DEF TypeInv

LEMMA TypeStep == TypeInv /\ [Next]_vars => TypeInv'
<1> SUFFICES ASSUME TypeInv, [Next]_vars PROVE TypeInv'
    OBVIOUS
<1>1. CASE Publishing
    <2>1. program = "publisher" /\ PublisherStep /\ UNCHANGED <<program, operationVars, throughputVars>>
        BY <1>1 DEF Publishing
    <2>2. CallsOK' /\ OutsideOK' /\ ReaderOK' /\ pc' = [t \in Threads |-> pc'[t]]
        BY <2>1, PublisherChange, OwnChangeKeeps
    <2>3. PublisherOK'
        BY <2>1, PublisherKeepsType DEF PublisherOK
    <2>4. OperationsOK' /\ ThroughputOK'
        BY <2>1 DEF TypeInv, OperationsOK, OperationsTypeOK, operationVars, ThroughputOK, ThroughputTypeOK, throughputVars
    <2> QED
        BY <2>2, <2>3, <2>4 DEF TypeInv
<1>2. ASSUME NEW t \in Threads, Operating(t)
      PROVE  TypeInv'
    <2>1. program = "operations" /\ OperationStep(t) /\ UNCHANGED <<program, publisherVars, throughputVars>>
        BY <1>2 DEF Operating
    <2>2. CallsOK' /\ OutsideOK' /\ ReaderOK' /\ pc' = [u \in Threads |-> pc'[u]]
        BY <2>1, OperationsChange, OwnChangeKeeps
    <2>3. OperationsOK'
        BY <2>1, OperationsKeepType DEF OperationsOK
    <2>4. PublisherOK' /\ ThroughputOK'
        BY <2>1 DEF TypeInv, PublisherOK, PublisherTypeOK, publisherVars, ThroughputOK, ThroughputTypeOK, throughputVars
    <2> QED
        BY <2>2, <2>3, <2>4 DEF TypeInv
<1>3. ASSUME NEW t \in Threads, Searching(t)
      PROVE  TypeInv'
    <2>1. program = "search" /\ UNCHANGED <<program, publisherVars, throughputVars>>
        BY <1>3 DEF Searching
    <2>2. CallsOK' /\ OutsideOK' /\ ReaderOK' /\ pc' = [u \in Threads |-> pc'[u]]
        BY <1>3, <2>1, SearchingKeepsType, OwnChangeKeeps
    <2>3. OperationsOK'
        BY <1>3, <2>1, SearchingKeepsType DEF OperationsOK
    <2>4. PublisherOK' /\ ThroughputOK'
        BY <2>1 DEF TypeInv, PublisherOK, PublisherTypeOK, publisherVars, ThroughputOK, ThroughputTypeOK, throughputVars
    <2> QED
        BY <2>2, <2>3, <2>4 DEF TypeInv
<1>4. CASE MeasuringMain \/ MeasuringPoller
    <2>1. program = "throughput" /\ (MainStep \/ PollerStep) /\ UNCHANGED <<program, publisherVars, operationVars>>
        BY <1>4 DEF MeasuringMain, MeasuringPoller
    <2>2. CallsOK' /\ OutsideOK' /\ ReaderOK' /\ pc' = [t \in Threads |-> pc'[t]]
        BY <2>1, MainChange, PollerChange, OwnChangeKeeps
    <2>3. ThroughputOK'
        BY <2>1, MainKeepsType, PollerKeepsType DEF ThroughputOK, MainPlaces
    <2>4. PublisherOK' /\ OperationsOK'
        BY <2>1 DEF TypeInv, PublisherOK, PublisherTypeOK, publisherVars, OperationsOK, OperationsTypeOK, operationVars
    <2> QED
        BY <2>2, <2>3, <2>4 DEF TypeInv
<1>5. CASE Reading
    <2>1. ReadStep /\ UNCHANGED <<program, publisherVars, operationVars, throughputVars, recordingsVars>>
        BY <1>5 DEF Reading, ReadStep
    <2>2. ReaderOK'
        BY <2>1, ReadingKeepsType
    <2>3. CallsOK' /\ pc' = pc
        BY <2>1 DEF TypeInv, CallsOK, recordingsVars, processVars, archiveVars
    <2>4. OutsideOK'
        BY <2>1 DEF TypeInv, OutsideOK, RecordingsTypeOK, Positions, recordingsVars, processVars, archiveVars, driverVars
    <2>5. PublisherOK' /\ OperationsOK' /\ ThroughputOK'
        BY <2>1, <2>3 DEF TypeInv, PublisherOK, PublisherTypeOK, publisherVars, OperationsOK, OperationsTypeOK,
           operationVars, ThroughputOK, ThroughputTypeOK, throughputVars
    <2> QED
        BY <2>2, <2>3, <2>4, <2>5 DEF TypeInv
<1>6. CASE Others
    <2>1. CallsOK' /\ OutsideOK' /\ ReaderOK' /\ pc' = pc
        BY <1>6, OthersKeepType
    <2>2. UNCHANGED <<program, publisherVars, operationVars, throughputVars>>
        BY <1>6 DEF Others, Seen
    <2>3. PublisherOK' /\ OperationsOK' /\ ThroughputOK'
        BY <2>1, <2>2 DEF TypeInv, PublisherOK, PublisherTypeOK, publisherVars, OperationsOK, OperationsTypeOK,
           operationVars, ThroughputOK, ThroughputTypeOK, throughputVars
    <2> QED
        BY <2>1, <2>3 DEF TypeInv
<1>7. CASE UNCHANGED vars
    <2>1. UNCHANGED <<program, publisherVars, operationVars, throughputVars, recordingsVars, readerVars>>
        BY <1>7 DEF vars
    <2>2. CallsOK' /\ ReaderOK' /\ pc' = pc
        BY <2>1 DEF TypeInv, CallsOK, recordingsVars, processVars, archiveVars, ReaderOK, ReadTypeOK, readerVars
    <2>3. OutsideOK'
        BY <2>1 DEF TypeInv, OutsideOK, RecordingsTypeOK, Positions, recordingsVars, processVars, archiveVars, driverVars
    <2>4. PublisherOK' /\ OperationsOK' /\ ThroughputOK'
        BY <2>1, <2>2 DEF TypeInv, PublisherOK, PublisherTypeOK, publisherVars, OperationsOK, OperationsTypeOK,
           operationVars, ThroughputOK, ThroughputTypeOK, throughputVars
    <2> QED
        BY <2>2, <2>3, <2>4 DEF TypeInv
<1> QED
    BY <1>1, <1>2, <1>3, <1>4, <1>5, <1>6, <1>7 DEF Next

\* Every variable of the recording clients has its type, whichever program the
\* process is and whatever the driver and the archive do: what a call asks for
\* or returns, what an event says and what a search finds is what the thread
\* that goes on with it expects.
THEOREM TypesCorrect == Spec => []TypeOK
<1>1. TypeInv => TypeOK
    BY DEF TypeInv, CallsOK, OutsideOK, ReaderOK, PublisherOK, OperationsOK, ThroughputOK, TypeOK
<1> QED
    BY <1>1, TypeInit, TypeStep, PTL DEF Spec
=============================================================================
