----------------------------- MODULE ArchiveProxy -----------------------------
(***************************************************************************)
(* How ArchiveProxy gets a request to the archive.  A request method       *)
(* encodes into the proxy's only buffer (an SBE header, then the body) and *)
(* offers it to the exclusive publication until the publication takes it,  *)
(* an attempt too many has failed, the deadline has passed or the          *)
(* publication is beyond use.                                              *)
(*                                                                         *)
(* A request whose channel does not fit into the buffer fails while it is  *)
(* encoded.  The proxy has no lock of its own: several callers are safe only because *)
(* AeronArchive holds lock_ around every method call; lock is that lock.   *)
(* The publication and the clock are external.                             *)
(***************************************************************************)
EXTENDS Integers, Sequences

CONSTANTS
    Callers,            \* threads that use the proxy through AeronArchive
    Nobody,
    RetryAttempts,      \* retryAttempts_; AeronArchive passes 3
    Operations,         \* the request methods that are called
    NoRequest,
    MaxRequests         \* bound: requests that are made

ConnectOperations == {"connect"}
TryOperations == {"tryConnect"}
SessionOperations ==
    {"closeSession", "startRecording", "stopRecording", "stopRecordingSubscription", "replay",
     "stopReplay", "listRecordings", "listRecordingsForUri", "listRecording", "extendRecording",
     "getRecordingPosition", "truncateRecording", "getStopPosition", "findLastMatchingRecording"}

AllRequests == [operation : Operations, number : 1..MaxRequests]
Whole(r) == [header |-> r, body |-> r]

\* Setting channels can fail; setting numbers cannot.
WithChannel ==
    ConnectOperations \cup TryOperations \cup
    {"startRecording", "stopRecording", "replay", "listRecordingsForUri", "extendRecording",
     "findLastMatchingRecording"}

ASSUME ProxyAssumption ==
    /\ Nobody \notin Callers
    /\ RetryAttempts \in Int /\ MaxRequests \in Nat
    /\ Operations \subseteq ConnectOperations \cup TryOperations \cup SessionOperations

ASSUME NoRequestAssumption ==
    /\ NoRequest \notin AllRequests
    /\ NoRequest \notin { Whole(r) : r \in AllRequests }

VARIABLES
    pc,             \* where each caller is
    request,        \* request[c]: the request that c makes or made last
    lock,           \* owner of lock_
    made,           \* bound counter; it also tells requests apart
    buffer,         \* buffer_: which request its header and its body are of
    attempts,       \* the local variable of offer()
    offers,         \* how often offer() has offered the request
    expired,        \* has the clock passed the deadline of offerWithTimeout()?
    outcome,        \* outcome[c]: what the method returned, or "throws"
    publication,    \* state of the publication
    wire            \* the messages that the publication took

callVars == <<pc, request, lock, made, outcome>>
localVars == <<attempts, offers, expired>>
vars == <<callVars, localVars, buffer, publication, wire>>

Init ==
    /\ pc = [c \in Callers |-> "idle"]
    /\ request = [c \in Callers |-> NoRequest]
    /\ lock = Nobody
    /\ made = 0
    /\ buffer = Whole(NoRequest)
    /\ attempts = 0
    /\ offers = 0
    /\ expired = FALSE
    /\ outcome = [c \in Callers |-> "none"]
    /\ publication = "connected"
    /\ wire = <<>>

Go(c, label) == pc' = [pc EXCEPT ![c] = label]

\* Mutant: the caller forgets lock_.
BeginWithoutLock(c) ==
    /\ pc[c] = "idle"
    /\ made < MaxRequests
    /\ \E op \in Operations :
         request' = [request EXCEPT ![c] = [operation |-> op, number |-> made + 1]]
    /\ lock' = c
    /\ made' = made + 1
    /\ outcome' = [outcome EXCEPT ![c] = "none"]
    /\ Go(c, "header")
    /\ UNCHANGED <<localVars, buffer, publication, wire>>

\* AeronArchive takes lock_ and calls a request method.
Begin(c) ==
    /\ pc[c] = "idle"
    /\ lock = Nobody
    /\ made < MaxRequests
    /\ \E op \in Operations :
         request' = [request EXCEPT ![c] = [operation |-> op, number |-> made + 1]]
    /\ lock' = c
    /\ made' = made + 1
    /\ outcome' = [outcome EXCEPT ![c] = "none"]
    /\ Go(c, "header")
    /\ UNCHANGED <<localVars, buffer, publication, wire>>

\* wrapAndApplyHeader
EncodeHeader(c) ==
    /\ pc[c] = "header"
    /\ buffer' = [buffer EXCEPT !.header = request[c]]
    /\ Go(c, "body")
    /\ UNCHANGED <<request, lock, made, outcome, localVars, publication, wire>>

Return(c, value) ==
    /\ outcome' = [outcome EXCEPT ![c] = value]
    /\ lock' = Nobody
    /\ Go(c, "idle")
    /\ UNCHANGED <<request, made>>

\* The chain of field setters; then offer() or offerWithTimeout() is entered.
EncodeBody(c) ==
    /\ pc[c] = "body"
    /\ buffer' = [buffer EXCEPT !.body = request[c]]
    /\ attempts' = RetryAttempts
    /\ offers' = 0
    /\ expired' = FALSE
    /\ Go(c, "offer")
    /\ UNCHANGED <<request, lock, made, outcome, publication, wire>>

\* The setter of a channel throws: the body stays as far as it was written.
FailToEncode(c) ==
    /\ pc[c] = "body"
    /\ request[c].operation \in WithChannel
    /\ buffer' = [buffer EXCEPT !.body = NoRequest]
    /\ Return(c, "doesNotFit")
    /\ UNCHANGED <<localVars, publication, wire>>

Offers(c, operations) == pc[c] = "offer" /\ request[c].operation \in operations

\* publication_->offer(): what it may return in each state of the publication.
Results ==
    [connected |-> {"position", "BACK_PRESSURED", "ADMIN_ACTION"},
     notConnected |-> {"NOT_CONNECTED"},
     closed |-> {"PUBLICATION_CLOSED"},
     maxPosition |-> {"MAX_POSITION_EXCEEDED"}]

Accepted(c) ==
    /\ "position" \in Results[publication]
    /\ wire' = Append(wire, buffer)
    /\ Return(c, "true")
    /\ UNCHANGED <<attempts, expired>>

\* What ends offer() with an exception.
OfferThrows == {"PUBLICATION_CLOSED", "NOT_CONNECTED", "MAX_POSITION_EXCEEDED"}

\* Mutants of AttemptsAreUsedUp: one attempt more, one attempt less.
OneAttemptMore(left) == left < 0
OneAttemptLess(left) == left <= 1

AttemptsAreUsedUp(left) == left <= 0

\* offer()
Offer(c) ==
    /\ Offers(c, SessionOperations)
    /\ offers' = offers + 1
    /\ \/ Accepted(c)
       \/ /\ Results[publication] \cap OfferThrows # {}
          /\ Return(c, "throws")
          /\ UNCHANGED <<wire, attempts, expired>>
       \/ /\ Results[publication] \ ({"position"} \cup OfferThrows) # {}
          /\ attempts' = attempts - 1
          /\ IF AttemptsAreUsedUp(attempts') THEN Return(c, "false") ELSE UNCHANGED callVars
          /\ UNCHANGED <<wire, expired>>
    /\ UNCHANGED <<buffer, publication>>

\* What ends offerWithTimeout() with one: there may be no archive yet.
ConnectThrows == {"PUBLICATION_CLOSED", "MAX_POSITION_EXCEEDED"}

NoTimeout == FALSE      \* mutant of ConnectTimedOut: the deadline is never looked at
ConnectTimedOut == expired

\* offerWithTimeout()
OfferWithTimeout(c) ==
    /\ Offers(c, ConnectOperations)
    /\ \/ Accepted(c)
       \/ /\ Results[publication] \cap ConnectThrows # {}
          /\ Return(c, "throws")
          /\ UNCHANGED <<wire, attempts, expired>>
       \/ /\ Results[publication] \ ({"position"} \cup ConnectThrows) # {}
          /\ IF ConnectTimedOut THEN Return(c, "false") ELSE UNCHANGED callVars
          /\ UNCHANGED <<wire, attempts, expired>>
    /\ UNCHANGED <<offers, buffer, publication>>

\* tryConnect(): one offer, and its result is all there is to it.
TryConnect(c) ==
    /\ Offers(c, TryOperations)
    /\ \/ Accepted(c)
       \/ Results[publication] # {"position"} /\ Return(c, "false")
          /\ UNCHANGED <<wire, attempts, expired>>
    /\ UNCHANGED <<offers, buffer, publication>>

CallerStep(c) ==
    EncodeHeader(c) \/ EncodeBody(c) \/ FailToEncode(c) \/ Offer(c) \/ OfferWithTimeout(c) \/ TryConnect(c)

\* External: a closed or exhausted publication does not come back.
PublicationChanges ==
    /\ \/ publication = "connected" /\ publication' \in {"notConnected", "maxPosition", "closed"}
       \/ publication = "notConnected" /\ publication' \in {"connected", "closed"}
    /\ UNCHANGED <<callVars, localVars, buffer, wire>>

DeadlinePasses ==
    /\ ~expired
    /\ \E c \in Callers : Offers(c, ConnectOperations)
    /\ expired' = TRUE
    /\ UNCHANGED <<callVars, attempts, offers, buffer, publication, wire>>

Next ==
    \/ \E c \in Callers : Begin(c) \/ CallerStep(c)
    \/ PublicationChanges
    \/ DeadlinePasses

Spec == Init /\ [][Next]_vars

\* A caller's thread runs on, and time passes.
FairSpec ==
    /\ Spec
    /\ \A c \in Callers : WF_vars(CallerStep(c))
    /\ WF_vars(DeadlinePasses)

-----------------------------------------------------------------------------
\* offer() tries at least once.
AttemptsConfigured == IF RetryAttempts > 1 THEN RetryAttempts ELSE 1

TypeOK ==
    /\ pc \in [Callers -> {"idle", "header", "body", "offer"}]
    /\ request \in [Callers -> AllRequests \cup {NoRequest}]
    /\ lock \in Callers \cup {Nobody}
    /\ made \in 0..MaxRequests
    /\ buffer \in [header : AllRequests \cup {NoRequest}, body : AllRequests \cup {NoRequest}]
    /\ attempts \in Int /\ offers \in 0..AttemptsConfigured /\ expired \in BOOLEAN
    /\ outcome \in [Callers -> {"none", "true", "false", "throws", "doesNotFit"}]
    /\ publication \in DOMAIN Results
    /\ wire \in Seq([header : AllRequests \cup {NoRequest}, body : AllRequests \cup {NoRequest}])

\* A method call is one step of the request stream: a request arrives whole
\* and once and the method returns true, or it does not arrive at all.
Stream == INSTANCE RequestStream WITH
    Requests <- { Whole(r) : r \in AllRequests },
    asked <- [c \in Callers |-> IF pc[c] = "idle" THEN NoRequest ELSE Whole(request[c])],
    accepted <- [c \in Callers |-> outcome[c] = "true"]

ImplementsRequestStream == Stream!Spec

\* offer() returns false after exactly the configured number of attempts, and
\* after one if none are configured.
RetriesAsConfigured ==
    \A c \in Callers :
        (outcome[c] = "false" /\ request[c].operation \in SessionOperations /\ lock = Nobody
            /\ request[c].number = made) =>
        offers = AttemptsConfigured

\* An archive that is not there yet is no reason for connect() to throw: it
\* throws only if the publication can never be used again.
ConnectThrowsForGood ==
    \A c \in Callers :
        (outcome[c] = "throws" /\ request[c].operation \in ConnectOperations) =>
        publication \in {"closed", "maxPosition"}

\* Every request method returns or throws.
MethodReturns == \A c \in Callers : pc[c] # "idle" ~> pc[c] = "idle"
=============================================================================
