-------------------------- MODULE ArchiveProxyProofs --------------------------
(***************************************************************************)
(* Proofs about ArchiveProxy, for any number of callers, of requests and   *)
(* of configured attempts: its type invariant, that offer() tries as often *)
(* as configured, that connect() throws for good reasons only, and that    *)
(* the proxy implements RequestStream (its safety part).                   *)
(***************************************************************************)
EXTENDS ArchiveProxy, TLAPS

Encoded == [header : AllRequests \cup {NoRequest}, body : AllRequests \cup {NoRequest}]

LEMMA WholeType == \A r \in AllRequests \cup {NoRequest} : Whole(r) \in Encoded
BY DEF Whole, Encoded

LEMMA AttemptsType ==
    /\ AttemptsConfigured \in Nat \ {0} /\ AttemptsConfigured >= RetryAttempts
    /\ AttemptsConfigured # 1 => AttemptsConfigured = RetryAttempts
BY ProxyAssumption DEF AttemptsConfigured

-----------------------------------------------------------------------------
(***************************************************************************)
(* The inductive invariant.  lock_ is held from Begin to Return, so the    *)
(* buffer, and what offer() counts, are the holder's own.                  *)
(***************************************************************************)
LockInv == \A c \in Callers : lock = c <=> pc[c] # "idle"

HolderInv == \A c \in Callers : pc[c] # "idle" => request[c] \in AllRequests /\ outcome[c] = "none"

BufferInv ==
    \A c \in Callers :
        /\ pc[c] = "body" => buffer.header = request[c]
        /\ pc[c] = "offer" => buffer = Whole(request[c])

AttemptsInv ==
    \A c \in Callers :
        pc[c] = "offer" => attempts = RetryAttempts - offers /\ offers < AttemptsConfigured

\* Requests are numbered in the order in which lock_ was taken for them.
NumberInv ==
    /\ \A c \in Callers : request[c] # NoRequest => request[c].number <= made
    /\ \A c \in Callers : lock = c => request[c].number = made
    /\ \A c \in Callers : outcome[c] # "none" => request[c] # NoRequest
    /\ \A c, d \in Callers :
         (c # d /\ request[c] # NoRequest /\ request[d] # NoRequest) =>
         request[c].number # request[d].number

PInv == TypeOK /\ LockInv /\ HolderInv /\ BufferInv /\ AttemptsInv

-----------------------------------------------------------------------------
\* The caller that takes a step between Begin and Return is alone there.
LEMMA Alone ==
    ASSUME LockInv, NEW c \in Callers, pc[c] # "idle"
    PROVE  \A d \in Callers : d # c => pc[d] = "idle"
BY DEF LockInv

\* No caller is called Nobody.
LEMMA NobodyCalls == Nobody \notin Callers
BY ProxyAssumption

LEMMA InvInit == Init => PInv
<1> SUFFICES ASSUME Init PROVE PInv
  OBVIOUS
<1>1. TypeOK
  <2>1. buffer \in Encoded
    BY WholeType DEF Init
  <2>2. 0 \in 0..MaxRequests /\ 0 \in 0..AttemptsConfigured /\ 0 \in Int
    BY ProxyAssumption, AttemptsType
  <2>3. publication \in DOMAIN Results
    BY DEF Init, Results
  <2>4. /\ pc \in [Callers -> {"idle", "header", "body", "offer"}]
        /\ request \in [Callers -> AllRequests \cup {NoRequest}]
        /\ outcome \in [Callers -> {"none", "true", "false", "throws", "doesNotFit"}]
        /\ lock \in Callers \cup {Nobody} /\ expired \in BOOLEAN
    BY Zenon DEF Init
  <2>5. wire \in Seq(Encoded)
    BY DEF Init
  <2>6. made \in 0..MaxRequests /\ attempts \in Int /\ offers \in 0..AttemptsConfigured
    BY <2>2 DEF Init
  <2>7. QED
    BY <2>1, <2>3, <2>4, <2>5, <2>6 DEF TypeOK, Encoded
<1>2. LockInv /\ HolderInv /\ BufferInv /\ AttemptsInv
  BY NobodyCalls DEF Init, LockInv, HolderInv, BufferInv, AttemptsInv
<1>3. QED
  BY <1>1, <1>2 DEF PInv

\* Return gives the lock back and leaves nobody in a method.
LEMMA ReturnStep ==
    ASSUME PInv, NEW c \in Callers, pc[c] # "idle", NEW value,
           value \in {"true", "false", "throws", "doesNotFit"}, Return(c, value)
    PROVE  /\ LockInv' /\ HolderInv' /\ BufferInv' /\ AttemptsInv'
           /\ \A d \in Callers : pc'[d] = "idle"
           /\ pc' \in [Callers -> {"idle", "header", "body", "offer"}]
           /\ outcome' \in [Callers -> {"none", "true", "false", "throws", "doesNotFit"}]
           /\ lock' \in Callers \cup {Nobody}
           /\ UNCHANGED <<request, made>>
<1> USE DEF PInv, TypeOK
<1>1. /\ pc' = [pc EXCEPT ![c] = "idle"] /\ lock' = Nobody
      /\ outcome' = [outcome EXCEPT ![c] = value] /\ UNCHANGED <<request, made>>
  BY DEF Return, Go
<1>2. \A d \in Callers : pc'[d] = "idle"
  BY <1>1, Alone
<1>3. LockInv' /\ HolderInv' /\ BufferInv' /\ AttemptsInv'
  BY <1>1, <1>2, NobodyCalls DEF LockInv, HolderInv, BufferInv, AttemptsInv
<1>4. /\ pc' \in [Callers -> {"idle", "header", "body", "offer"}]
      /\ outcome' \in [Callers -> {"none", "true", "false", "throws", "doesNotFit"}]
      /\ lock' \in Callers \cup {Nobody}
  BY <1>1
<1>5. QED
  BY <1>1, <1>2, <1>3, <1>4

-----------------------------------------------------------------------------
(***************************************************************************)
(* Every step preserves the invariant.                                     *)
(***************************************************************************)
LEMMA BeginStep ==
    ASSUME PInv, NEW c \in Callers, Begin(c)
    PROVE  PInv' /\ request'[c] \in AllRequests
<1> USE DEF PInv, TypeOK
<1>1. PICK op \in Operations : request' = [request EXCEPT ![c] = [operation |-> op, number |-> made + 1]]
  BY DEF Begin
<1>2. /\ pc[c] = "idle" /\ lock = Nobody /\ lock' = c /\ pc' = [pc EXCEPT ![c] = "header"]
      /\ outcome' = [outcome EXCEPT ![c] = "none"]
      /\ UNCHANGED <<localVars, buffer, publication, wire>>
      /\ made < MaxRequests /\ made' = made + 1
  BY DEF Begin, Go
<1>3. [operation |-> op, number |-> made + 1] \in AllRequests
  <2>1. made + 1 \in 1..MaxRequests
    BY <1>2, ProxyAssumption
  <2>2. QED
    BY <2>1, Zenon DEF AllRequests
<1>4. request'[c] \in AllRequests
  BY <1>1, <1>3
<1>5. TypeOK'
  <2>1. request' \in [Callers -> AllRequests \cup {NoRequest}]
    BY <1>1, <1>3
  <2>2. made' \in 0..MaxRequests
    BY <1>2, ProxyAssumption
  <2>3. /\ pc' \in [Callers -> {"idle", "header", "body", "offer"}]
        /\ outcome' \in [Callers -> {"none", "true", "false", "throws", "doesNotFit"}]
        /\ lock' \in Callers \cup {Nobody}
    BY <1>2
  <2>4. QED
    BY <1>2, <2>1, <2>2, <2>3, Zenon DEF localVars
<1>6. \A d \in Callers : d # c => pc[d] = "idle"
  BY <1>2, NobodyCalls DEF LockInv
<1>7. LockInv' /\ HolderInv' /\ BufferInv' /\ AttemptsInv'
  BY <1>2, <1>4, <1>6 DEF LockInv, HolderInv, BufferInv, AttemptsInv
<1>8. QED
  BY <1>4, <1>5, <1>7

LEMMA EncodeStep ==
    ASSUME PInv, NEW c \in Callers, EncodeHeader(c) \/ EncodeBody(c) \/ FailToEncode(c)
    PROVE  PInv'
<1> USE DEF PInv, TypeOK
<1>0. /\ pc[c] # "idle" /\ request[c] \in AllRequests /\ buffer \in Encoded
      /\ UNCHANGED <<request, made, publication, wire>>
  BY DEF EncodeHeader, EncodeBody, FailToEncode, HolderInv, Return, Encoded
<1>1. \A d \in Callers : d # c => pc[d] = "idle"
  BY <1>0, Alone
<1>2. CASE EncodeHeader(c)
  <2>1. /\ buffer' = [buffer EXCEPT !.header = request[c]] /\ pc' = [pc EXCEPT ![c] = "body"]
        /\ UNCHANGED <<request, lock, made, outcome, localVars, publication, wire>>
    BY <1>2 DEF EncodeHeader, Go
  <2>2. buffer' \in Encoded /\ buffer'.header = request[c]
    BY <1>0, <2>1, Zenon DEF Encoded
  <2>3. pc' \in [Callers -> {"idle", "header", "body", "offer"}]
    BY <2>1
  <2>4. TypeOK'
    BY <2>1, <2>2, <2>3, Zenon DEF localVars, Encoded
  <2>5. LockInv' /\ HolderInv' /\ BufferInv' /\ AttemptsInv'
    BY <1>0, <1>1, <2>1, <2>2 DEF LockInv, HolderInv, BufferInv, AttemptsInv
  <2>6. QED
    BY <2>4, <2>5
<1>3. CASE EncodeBody(c)
  <2>1. /\ buffer' = [buffer EXCEPT !.body = request[c]] /\ pc' = [pc EXCEPT ![c] = "offer"]
        /\ pc[c] = "body" /\ attempts' = RetryAttempts /\ offers' = 0 /\ expired' = FALSE
        /\ UNCHANGED <<request, lock, made, outcome, publication, wire>>
    BY <1>3 DEF EncodeBody, Go
  <2>2. buffer' = Whole(request[c])
    <3>1. buffer.header = request[c]
      BY <2>1 DEF BufferInv
    <3>2. QED
      BY <1>0, <2>1, <3>1 DEF Encoded, Whole
  <2>3. buffer' \in Encoded
    BY <1>0, <2>2, WholeType
  <2>4. /\ attempts' \in Int /\ offers' \in 0..AttemptsConfigured
        /\ attempts' = RetryAttempts - offers' /\ offers' < AttemptsConfigured
    <3>1. attempts' = RetryAttempts /\ offers' = 0
      BY <2>1
    <3>2. QED
      BY <3>1, ProxyAssumption, AttemptsType
  <2>5. pc' \in [Callers -> {"idle", "header", "body", "offer"}]
    BY <2>1
  <2>6. TypeOK'
    <3>1. expired' \in BOOLEAN
      BY <2>1
    <3>2. QED
      BY <2>1, <2>3, <2>4, <2>5, <3>1, Zenon DEF Encoded
  <2>7. LockInv' /\ HolderInv' /\ BufferInv' /\ AttemptsInv'
    BY <1>0, <1>1, <2>1, <2>2, <2>4 DEF LockInv, HolderInv, BufferInv, AttemptsInv
  <2>8. QED
    BY <2>6, <2>7
<1>4. CASE FailToEncode(c)
  <2>1. /\ buffer' = [buffer EXCEPT !.body = NoRequest] /\ Return(c, "doesNotFit")
        /\ UNCHANGED localVars
    BY <1>4 DEF FailToEncode
  <2>2. buffer' \in Encoded
    BY <1>0, <2>1, Zenon DEF Encoded
  <2>3. /\ LockInv' /\ HolderInv' /\ BufferInv' /\ AttemptsInv'
        /\ pc' \in [Callers -> {"idle", "header", "body", "offer"}]
        /\ outcome' \in [Callers -> {"none", "true", "false", "throws", "doesNotFit"}]
        /\ lock' \in Callers \cup {Nobody}
    BY <1>0, <2>1, ReturnStep, Zenon
  <2>4. TypeOK'
    BY <1>0, <2>1, <2>2, <2>3, Zenon DEF localVars, Encoded
  <2>5. QED
    BY <2>3, <2>4
<1>5. QED
  BY <1>2, <1>3, <1>4

\* The three ways to offer: to Return with a value, or to try again.
LEMMA OfferCases ==
    ASSUME NEW c \in Callers, Offer(c) \/ OfferWithTimeout(c) \/ TryConnect(c)
    PROVE  /\ pc[c] = "offer" /\ UNCHANGED <<buffer, publication>>
           /\ \/ Accepted(c)
              \/ /\ UNCHANGED wire
                 /\ Return(c, "throws") \/ Return(c, "false") \/ UNCHANGED callVars
BY DEF Offer, OfferWithTimeout, TryConnect, Offers, Accepted

\* What each of them does to the locals.
LEMMA OfferLocals ==
    ASSUME PInv, NEW c \in Callers, Offer(c) \/ OfferWithTimeout(c) \/ TryConnect(c)
    PROVE  /\ attempts' \in Int /\ offers' \in 0..AttemptsConfigured /\ expired' = expired
           /\ pc' = pc => attempts' = RetryAttempts - offers' /\ offers' < AttemptsConfigured
<1> USE DEF PInv, TypeOK
<1>1. /\ attempts = RetryAttempts - offers /\ offers < AttemptsConfigured /\ pc[c] = "offer"
  BY OfferCases DEF AttemptsInv
<1>2. \A value : Return(c, value) => pc' # pc
  BY <1>1 DEF Return, Go
<1>3. CASE OfferWithTimeout(c) \/ TryConnect(c)
  BY <1>1, <1>3 DEF OfferWithTimeout, TryConnect, Accepted
<1>4. CASE Offer(c)
  <2>1. offers' = offers + 1 /\ expired' = expired
    BY <1>4 DEF Offer, Accepted
  <2>2. \/ \E value : Return(c, value) /\ attempts' = attempts
        \/ /\ attempts' = attempts - 1
           /\ IF attempts' <= 0 THEN Return(c, "false") ELSE UNCHANGED callVars
    BY <1>4 DEF Offer, Accepted, AttemptsAreUsedUp
  <2>3. pc' = pc => attempts' = attempts - 1 /\ ~(attempts' <= 0)
    BY <1>2, <2>2
  <2>4. QED
    BY <1>1, <2>1, <2>2, <2>3, ProxyAssumption, AttemptsType
<1>5. QED
  BY <1>3, <1>4

LEMMA OfferStep ==
    ASSUME PInv, NEW c \in Callers, Offer(c) \/ OfferWithTimeout(c) \/ TryConnect(c)
    PROVE  PInv'
<1> USE DEF PInv, TypeOK
<1>1. pc[c] = "offer" /\ buffer' = buffer /\ publication' = publication
  BY OfferCases
<1>2. wire' \in Seq(Encoded)
  <2>1. buffer \in Encoded /\ wire \in Seq(Encoded)
    BY Zenon DEF Encoded
  <2>2. wire' = wire \/ wire' = Append(wire, buffer)
    BY OfferCases DEF Accepted
  <2>3. QED
    BY <2>1, <2>2
<1>3. attempts' \in Int /\ offers' \in 0..AttemptsConfigured /\ expired' \in BOOLEAN
  BY OfferLocals
<1>4. ASSUME NEW value \in {"true", "false", "throws", "doesNotFit"}, Return(c, value)
      PROVE  PInv'
  <2>1. TypeOK'
    BY <1>1, <1>2, <1>3, <1>4, ReturnStep, Zenon DEF Encoded
  <2>2. QED
    BY <1>1, <1>4, <2>1, ReturnStep
<1>5. CASE UNCHANGED callVars
  <2>1. TypeOK'
    BY <1>1, <1>2, <1>3, <1>5, Zenon DEF callVars, Encoded
  <2>2. \A d \in Callers : d # c => pc[d] = "idle"
    BY <1>1, Alone
  <2>3. AttemptsInv'
    BY <1>5, <2>2, OfferLocals DEF callVars, AttemptsInv
  <2>4. LockInv' /\ HolderInv' /\ BufferInv'
    BY <1>1, <1>5 DEF callVars, LockInv, HolderInv, BufferInv
  <2>5. QED
    BY <2>1, <2>3, <2>4
<1>6. QED
  BY <1>4, <1>5, OfferCases DEF Accepted

LEMMA InvStep == PInv /\ [Next]_vars => PInv'
<1> SUFFICES ASSUME PInv, [Next]_vars PROVE PInv'
  OBVIOUS
<1>1. CASE \E c \in Callers : Begin(c) \/ CallerStep(c)
  BY <1>1, BeginStep, EncodeStep, OfferStep DEF CallerStep
<1>2. CASE PublicationChanges \/ DeadlinePasses \/ UNCHANGED vars
  <2>1. /\ UNCHANGED <<callVars, attempts, offers, buffer, wire>>
        /\ expired' = expired \/ expired' = TRUE
        /\ publication' \in {publication, "connected", "notConnected", "maxPosition", "closed"}
    BY <1>2 DEF PublicationChanges, DeadlinePasses, vars, localVars
  <2>2. publication' \in DOMAIN Results
    BY <2>1 DEF PInv, TypeOK, Results
  <2>3. TypeOK'
    BY <2>1, <2>2, Zenon DEF PInv, TypeOK, callVars
  <2>4. LockInv' /\ HolderInv' /\ BufferInv' /\ AttemptsInv'
    BY <2>1 DEF PInv, callVars, LockInv, HolderInv, BufferInv, AttemptsInv
  <2>5. QED
    BY <2>3, <2>4 DEF PInv
<1>3. QED
  BY <1>1, <1>2 DEF Next

LEMMA InvHolds == Spec => []PInv
<1>1. Init => PInv
  BY InvInit
<1>2. PInv /\ [Next]_vars => PInv'
  BY InvStep
<1>3. QED
  BY <1>1, <1>2, PTL DEF Spec

-----------------------------------------------------------------------------
\* Every variable keeps its type; in particular offer() never offers a request
\* more often than configured.
THEOREM TypeCorrect == Spec => []TypeOK
<1>1. PInv => TypeOK
  BY DEF PInv
<1>2. QED
  BY <1>1, InvHolds, PTL

-----------------------------------------------------------------------------
(***************************************************************************)
(* connect() throws only for good.                                         *)
(***************************************************************************)
LEMMA ConnectInit == Init => ConnectThrowsForGood
BY DEF Init, ConnectThrowsForGood

LEMMA ConnectStep == PInv /\ ConnectThrowsForGood /\ [Next]_vars => ConnectThrowsForGood'
<1> SUFFICES ASSUME PInv, ConnectThrowsForGood, [Next]_vars,
                    NEW d \in Callers, outcome'[d] = "throws",
                    request'[d].operation \in ConnectOperations
             PROVE  publication' \in {"closed", "maxPosition"}
  BY DEF ConnectThrowsForGood
<1> USE DEF PInv, TypeOK
<1>1. ASSUME request'[d] = request[d], outcome'[d] = outcome[d], publication' = publication
      PROVE  publication' \in {"closed", "maxPosition"}
  BY <1>1 DEF ConnectThrowsForGood
<1>2. ASSUME NEW c \in Callers, Begin(c)
      PROVE  publication' \in {"closed", "maxPosition"}
  <2>1. d # c
    BY <1>2 DEF Begin
  <2>2. QED
    BY <1>1, <1>2, <2>1 DEF Begin
<1>3. ASSUME NEW c \in Callers, EncodeHeader(c) \/ EncodeBody(c) \/ FailToEncode(c)
      PROVE  publication' \in {"closed", "maxPosition"}
  BY <1>1, <1>3 DEF EncodeHeader, EncodeBody, FailToEncode, Return
<1>4. ASSUME NEW c \in Callers, Offer(c) \/ OfferWithTimeout(c) \/ TryConnect(c)
      PROVE  publication' \in {"closed", "maxPosition"}
  <2>1. publication' = publication /\ request' = request
    BY <1>4, OfferCases DEF Accepted, Return, callVars
  <2>2. CASE d # c \/ UNCHANGED callVars
    BY <1>1, <1>4, <2>1, <2>2, OfferCases DEF Accepted, Return, callVars
  <2>3. CASE d = c /\ Return(c, "throws")
    <3>1. request[c].operation \in ConnectOperations
      BY <2>1, <2>3
    <3>2. OfferWithTimeout(c)
      BY <1>4, <3>1 DEF Offer, TryConnect, Offers, ConnectOperations, SessionOperations, TryOperations
    <3>3. Results[publication] \cap ConnectThrows # {}
      <4>1. outcome'[c] = "throws" /\ outcome[c] = "none"
        BY <2>3, <3>2 DEF Return, HolderInv, OfferWithTimeout, Offers
      <4>2. \A value : Return(c, value) => value = "throws"
        BY <4>1 DEF Return
      <4>3. ~UNCHANGED callVars
        BY <4>1 DEF callVars
      <4>4. QED
        BY <3>2, <4>2, <4>3 DEF OfferWithTimeout, Accepted
    <3>4. QED
      BY <2>1, <3>3 DEF Results, ConnectThrows
  <2>4. CASE d = c /\ (Return(c, "true") \/ Return(c, "false"))
    BY <2>4 DEF Return
  <2>5. QED
    BY <1>4, <2>2, <2>3, <2>4, OfferCases DEF Accepted
<1>5. CASE PublicationChanges
  <2>1. publication \in {"closed", "maxPosition"}
    BY <1>5 DEF PublicationChanges, callVars, ConnectThrowsForGood
  <2>2. QED
    BY <1>5, <2>1 DEF PublicationChanges
<1>6. CASE DeadlinePasses \/ UNCHANGED vars
  BY <1>1, <1>6 DEF DeadlinePasses, vars, callVars
<1>7. QED
  BY <1>2, <1>3, <1>4, <1>5, <1>6 DEF Next, CallerStep

\* connect() throws only if the publication can never be used again, whatever
\* the publication does and whoever else uses the proxy.
THEOREM ConnectFailsForGood == Spec => []ConnectThrowsForGood
<1>1. QED
  BY ConnectInit, ConnectStep, InvHolds, PTL DEF Spec

-----------------------------------------------------------------------------
(***************************************************************************)
(* The proxy implements the request stream: Begin is Ask, an accepted      *)
(* offer is Accept, every other way to return is Refuse, and the rest      *)
(* stutters.                                                               *)
(***************************************************************************)
Asked == [c \in Callers |-> IF pc[c] = "idle" THEN NoRequest ELSE Whole(request[c])]
Got == [c \in Callers |-> outcome[c] = "true"]

LEMMA StreamInit == Init => Stream!Init
BY DEF Init, Stream!Init

\* A stutter of the stream.
LEMMA StreamStutters ==
    ASSUME UNCHANGED <<outcome, request, wire>>,
           \A c \in Callers : (pc'[c] = "idle") = (pc[c] = "idle")
    PROVE  UNCHANGED Stream!vars
<1>1. Asked' = Asked /\ Got' = Got
  BY DEF Asked, Got
<1>2. QED
  BY <1>1 DEF Stream!vars, Asked, Got

LEMMA StreamStep == PInv /\ PInv' /\ [Next]_vars => [Stream!Next]_(Stream!vars)
<1> SUFFICES ASSUME PInv, PInv', [Next]_vars
             PROVE  Stream!Next \/ UNCHANGED Stream!vars
  OBVIOUS
<1> USE DEF PInv, TypeOK
<1>1. ASSUME NEW c \in Callers, Begin(c)
      PROVE  Stream!Next
  <2>1. /\ pc[c] = "idle" /\ pc' = [pc EXCEPT ![c] = "header"] /\ wire' = wire
        /\ outcome' = [outcome EXCEPT ![c] = "none"]
        /\ \A d \in Callers : d # c => request'[d] = request[d]
    BY <1>1 DEF Begin, Go
  <2>2. Asked[c] = NoRequest
    BY <2>1 DEF Asked
  <2>3. request'[c] \in AllRequests
    BY <1>1, BeginStep
  <2>4. Asked' = [Asked EXCEPT ![c] = Whole(request'[c])]
    BY <2>1 DEF Asked
  <2>5. Got' = [Got EXCEPT ![c] = FALSE]
    <3>1. \A d \in Callers : Got'[d] = IF d = c THEN FALSE ELSE Got[d]
      BY <2>1 DEF Got
    <3>2. QED
      BY <3>1 DEF Got
  <2>6. Stream!Ask(c)
    <3>1. Whole(request'[c]) \in { Whole(r) : r \in AllRequests }
      BY <2>3
    <3>2. \E r \in { Whole(q) : q \in AllRequests } : Asked' = [Asked EXCEPT ![c] = r]
      BY <2>4, <3>1
    <3>3. QED
      BY <2>1, <2>2, <2>5, <3>2, Zenon DEF Stream!Ask, Asked, Got
  <2>7. QED
    BY <2>6 DEF Stream!Next
<1>2. ASSUME NEW c \in Callers, EncodeHeader(c) \/ EncodeBody(c)
      PROVE  UNCHANGED Stream!vars
  BY <1>2, StreamStutters DEF EncodeHeader, EncodeBody, Go
<1>3. ASSUME NEW c \in Callers, pc[c] # "idle"
      PROVE  Asked[c] = Whole(request[c]) /\ Asked[c] # NoRequest /\ Got[c] = FALSE
  <2>1. request[c] \in AllRequests /\ outcome[c] = "none"
    BY <1>3 DEF HolderInv
  <2>2. Whole(request[c]) # NoRequest
    BY <2>1, NoRequestAssumption
  <2>3. Asked[c] = Whole(request[c])
    BY <1>3 DEF Asked
  <2>4. Got[c] = FALSE
    BY <2>1 DEF Got
  <2>5. QED
    BY <2>2, <2>3, <2>4
<1>4. ASSUME NEW c \in Callers, pc[c] # "idle", NEW value, Return(c, value), value # "true",
             wire' = wire
      PROVE  Stream!Next
  <2>1. /\ pc' = [pc EXCEPT ![c] = "idle"] /\ outcome' = [outcome EXCEPT ![c] = value]
        /\ request' = request
    BY <1>4 DEF Return, Go
  <2>2. Asked' = [Asked EXCEPT ![c] = NoRequest]
    BY <2>1 DEF Asked
  <2>3. Got' = Got
    BY <1>3, <1>4, <2>1 DEF Got
  <2>4. Stream!Refuse(c)
    BY <1>3, <1>4, <2>2, <2>3 DEF Stream!Refuse, Asked, Got
  <2>5. QED
    BY <2>4 DEF Stream!Next
<1>5. ASSUME NEW c \in Callers, pc[c] = "offer", Accepted(c)
      PROVE  Stream!Next
  <2>1. /\ pc' = [pc EXCEPT ![c] = "idle"] /\ outcome' = [outcome EXCEPT ![c] = "true"]
        /\ request' = request /\ wire' = Append(wire, Whole(request[c]))
    BY <1>5 DEF Accepted, Return, Go, BufferInv
  <2>2. Asked' = [Asked EXCEPT ![c] = NoRequest]
    BY <2>1 DEF Asked
  <2>3. Got' = [Got EXCEPT ![c] = TRUE]
    <3>1. \A d \in Callers : Got'[d] = IF d = c THEN TRUE ELSE Got[d]
      BY <2>1 DEF Got
    <3>2. QED
      BY <3>1 DEF Got
  <2>4. Stream!Accept(c)
    BY <1>3, <1>5, <2>1, <2>2, <2>3 DEF Stream!Accept, Asked, Got
  <2>5. QED
    BY <2>4 DEF Stream!Next
<1>6. ASSUME NEW c \in Callers, Offer(c) \/ OfferWithTimeout(c) \/ TryConnect(c)
      PROVE  Stream!Next \/ UNCHANGED Stream!vars
  <2>1. CASE UNCHANGED callVars /\ UNCHANGED wire
    BY <2>1, StreamStutters DEF callVars
  <2>2. QED
    BY <1>4, <1>5, <1>6, <2>1, OfferCases
<1>7. ASSUME NEW c \in Callers, FailToEncode(c)
      PROVE  Stream!Next
  BY <1>4, <1>7 DEF FailToEncode
<1>8. CASE PublicationChanges \/ DeadlinePasses \/ UNCHANGED vars
  BY <1>8, StreamStutters DEF PublicationChanges, DeadlinePasses, vars, callVars
<1>9. QED
  BY <1>1, <1>2, <1>6, <1>7, <1>8 DEF Next, CallerStep

\* Whoever else uses the proxy, and whatever the publication does: a request
\* arrives whole and once and its method returns true, or it does not arrive.
THEOREM Refinement == Spec => ImplementsRequestStream
<1>1. QED
  BY StreamInit, StreamStep, InvHolds, PTL DEF Spec, ImplementsRequestStream, Stream!Spec

-----------------------------------------------------------------------------
(***************************************************************************)
(* offer() tries as often as configured: what offers counts is about the   *)
(* latest request, and requests have numbers of their own.                 *)
(***************************************************************************)
LEMMA NumberStep == PInv /\ NumberInv /\ [Next]_vars => NumberInv'
<1> SUFFICES ASSUME PInv, NumberInv, [Next]_vars PROVE NumberInv'
  OBVIOUS
<1> USE DEF PInv, TypeOK
<1>1. ASSUME NEW c \in Callers, Begin(c)
      PROVE  NumberInv'
  <2>1. PICK op \in Operations : request' = [request EXCEPT ![c] = [operation |-> op, number |-> made + 1]]
    BY <1>1 DEF Begin
  <2>2. /\ request'[c].number = made + 1 /\ made' = made + 1 /\ lock' = c
        /\ \A d \in Callers : d # c => request'[d] = request[d] /\ outcome'[d] = outcome[d]
    BY <1>1, <2>1 DEF Begin
  <2>3. request'[c] # NoRequest
    BY <1>1, BeginStep, NoRequestAssumption
  <2>4. \A d \in Callers : request[d] # NoRequest => request[d].number \in Int /\ request[d].number <= made
    BY DEF NumberInv, AllRequests
  <2>5. made \in Int
    OBVIOUS
  <2>6. \A d \in Callers : request'[d] # NoRequest => request'[d].number <= made'
    BY <2>2, <2>4, <2>5
  <2>7. \A d \in Callers : d # c /\ request'[d] # NoRequest => request'[d].number # request'[c].number
    BY <2>2, <2>4, <2>5
  <2>8. \A d \in Callers : outcome'[d] # "none" => request'[d] # NoRequest
    BY <2>2, <2>3 DEF NumberInv
  <2>9. QED
    BY <2>2, <2>6, <2>7, <2>8 DEF NumberInv
<1>2. ASSUME request' = request, made' = made, lock' = lock \/ lock' = Nobody,
             \A c \in Callers : outcome'[c] # outcome[c] => request[c] # NoRequest
      PROVE  NumberInv'
  BY <1>2, NobodyCalls DEF NumberInv
<1>3. ASSUME NEW c \in Callers, CallerStep(c)
      PROVE  NumberInv'
  <2>1. pc[c] # "idle"
    BY <1>3 DEF CallerStep, EncodeHeader, EncodeBody, FailToEncode, Offer, OfferWithTimeout, TryConnect, Offers
  <2>2. request[c] # NoRequest
    BY <2>1, NoRequestAssumption DEF HolderInv
  <2>3. /\ request' = request /\ made' = made
        /\ lock' = lock \/ lock' = Nobody
        /\ \A d \in Callers : d # c => outcome'[d] = outcome[d]
    <3>1. CASE EncodeHeader(c) \/ EncodeBody(c) \/ FailToEncode(c)
      BY <3>1 DEF EncodeHeader, EncodeBody, FailToEncode, Return
    <3>2. CASE Offer(c) \/ OfferWithTimeout(c) \/ TryConnect(c)
      BY <3>2, OfferCases DEF Accepted, Return, callVars
    <3>3. QED
      BY <1>3, <3>1, <3>2 DEF CallerStep
  <2>4. QED
    BY <1>2, <2>2, <2>3
<1>4. CASE PublicationChanges \/ DeadlinePasses \/ UNCHANGED vars
  BY <1>2, <1>4 DEF PublicationChanges, DeadlinePasses, vars, callVars
<1>5. QED
  BY <1>1, <1>3, <1>4 DEF Next

LEMMA RetriesStep ==
    PInv /\ NumberInv /\ RetriesAsConfigured /\ [Next]_vars => RetriesAsConfigured'
<1> SUFFICES ASSUME PInv, NumberInv, RetriesAsConfigured, [Next]_vars,
                    NEW d \in Callers, outcome'[d] = "false", lock' = Nobody,
                    request'[d].operation \in SessionOperations, request'[d].number = made'
             PROVE  offers' = AttemptsConfigured
  BY DEF RetriesAsConfigured, AttemptsConfigured
<1> USE DEF PInv, TypeOK
\* A caller that returns made the latest request.
<1>1. ASSUME NEW c \in Callers, pc[c] # "idle", request' = request, made' = made,
             \A e \in Callers : e # c => outcome'[e] = outcome[e]
      PROVE  d = c
  <2>1. lock = c /\ request[c] \in AllRequests
    BY <1>1 DEF LockInv, HolderInv
  <2>2. request[c].number = made /\ request[c] # NoRequest
    BY <2>1, NoRequestAssumption DEF NumberInv
  <2>3. d # c => request[d] # NoRequest /\ request[d].number = made
    BY <1>1 DEF NumberInv
  <2>4. QED
    BY <2>2, <2>3 DEF NumberInv
<1>2. ASSUME NEW c \in Callers, Begin(c) \/ EncodeHeader(c) \/ EncodeBody(c)
      PROVE  FALSE
  BY <1>2, NobodyCalls DEF Begin, EncodeHeader, EncodeBody, LockInv
<1>3. ASSUME NEW c \in Callers, FailToEncode(c)
      PROVE  FALSE
  BY <1>1, <1>3 DEF FailToEncode, Return
<1>4. ASSUME NEW c \in Callers, Offer(c) \/ OfferWithTimeout(c) \/ TryConnect(c)
      PROVE  offers' = AttemptsConfigured
  <2>1. pc[c] = "offer" /\ lock = c
    BY <1>4, OfferCases DEF LockInv
  <2>2. request' = request /\ made' = made /\ \A e \in Callers : e # c => outcome'[e] = outcome[e]
    BY <1>4, OfferCases DEF Accepted, Return, callVars
  <2>3. d = c
    BY <1>1, <2>1, <2>2
  <2>4. Offer(c)
    BY <1>4, <2>2, <2>3
       DEF OfferWithTimeout, TryConnect, Offers, ConnectOperations, TryOperations, SessionOperations
  <2>5. \A value : Return(c, value) => value = "false"
    BY <2>3 DEF Return
  <2>6. attempts' = attempts - 1 /\ offers' = offers + 1 /\ attempts' <= 0
    BY <2>1, <2>4, <2>5, NobodyCalls DEF Offer, Accepted, AttemptsAreUsedUp, callVars
  <2>7. attempts = RetryAttempts - offers /\ offers < AttemptsConfigured /\ offers \in Nat
    BY <2>1 DEF AttemptsInv
  <2>8. QED
    BY <2>6, <2>7, ProxyAssumption, AttemptsType
<1>5. CASE PublicationChanges \/ DeadlinePasses \/ UNCHANGED vars
  <2>1. UNCHANGED <<outcome, request, lock, made, offers>>
    BY <1>5 DEF PublicationChanges, DeadlinePasses, vars, callVars, localVars
  <2>2. QED
    BY <2>1 DEF RetriesAsConfigured
<1>6. QED
  BY <1>2, <1>3, <1>4, <1>5 DEF Next, CallerStep

\* When offer() gives up it has offered the request exactly as often as
\* configured, and once if the configuration says less.
THEOREM Retries == Spec => []RetriesAsConfigured
<1>1. Init => NumberInv /\ RetriesAsConfigured
  BY NobodyCalls DEF Init, NumberInv, RetriesAsConfigured
<1>2. QED
  BY <1>1, NumberStep, RetriesStep, InvHolds, PTL DEF Spec
=============================================================================
