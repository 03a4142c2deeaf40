--------------------------- MODULE ArchiveSessions ---------------------------
(***************************************************************************)
(* What the constructor of AeronArchive promises.  Each attempt asks at    *)
(* most once, under an id of its own, and the archive opens a session of   *)
(* its own for it or refuses.  A constructor returns with the session that *)
(* was opened for its request, or says that it was refused when it was; it *)
(* may also give up, and then a session may be left that nobody has.       *)
(*                                                                         *)
(* Here a client sees what the archive did.  ArchiveConnect.tla implements *)
(* this with a subscription that hears what everybody is told.             *)
(***************************************************************************)
EXTENDS Integers

CONSTANTS Clients, Ids, NoId

VARIABLES
    state,          \* state[c]: "new", "connecting", "open" or "failed"
    how,            \* how[c]: how the constructor ended, or "none"
    asked,          \* asked[c]: the id of this attempt, or NoId
    session,        \* session[c]: the session of an open client
    lastId,         \* the id that was drawn last
    requests,       \* requests[i]: what became of the request with id i
    nextSession     \* the archive's counter

Init ==
    /\ state = [c \in Clients |-> "new"]
    /\ how = [c \in Clients |-> "none"]
    /\ asked = [c \in Clients |-> NoId]
    /\ session = [c \in Clients |-> NoId]
    /\ lastId = 0
    /\ requests = [i \in Ids |-> [status |-> "unsent", session |-> NoId]]
    /\ nextSession = 1

-----------------------------------------------------------------------------
Try(c) ==
    /\ state[c] \in {"new", "failed"}
    /\ state' = [state EXCEPT ![c] = "connecting"]
    /\ how' = [how EXCEPT ![c] = "none"]
    /\ asked' = [asked EXCEPT ![c] = NoId]
    /\ UNCHANGED <<session, lastId, requests, nextSession>>

IsConnecting(c) == state[c] = "connecting"
IsAsking(c) == IsConnecting(c) /\ asked[c] \in Ids
Became(c, status) == requests[asked[c]].status = status

DrawId(c) ==
    /\ IsConnecting(c) /\ asked[c] = NoId
    /\ lastId + 1 \in Ids /\ lastId' = lastId + 1
    /\ asked' = [asked EXCEPT ![c] = lastId + 1]
    /\ UNCHANGED <<state, how, session, requests, nextSession>>

Ask(c) ==
    /\ IsAsking(c) /\ Became(c, "unsent")
    /\ requests' = [requests EXCEPT ![asked[c]].status = "pending"]
    /\ UNCHANGED <<state, how, asked, session, lastId, nextSession>>

End(c, label, reason) ==
    /\ state' = [state EXCEPT ![c] = label]
    /\ how' = [how EXCEPT ![c] = reason]
    /\ UNCHANGED <<asked, lastId, requests, nextSession>>

Open(c) ==
    /\ IsAsking(c) /\ Became(c, "opened")
    /\ session' = [session EXCEPT ![c] = requests[asked[c]].session]
    /\ End(c, "open", "open")

Fail(c, reason) == UNCHANGED session /\ End(c, "failed", reason)

Refused(c) == IsAsking(c) /\ Became(c, "refused") /\ Fail(c, "refused")

FailToRegister(c) == IsConnecting(c) /\ asked[c] = NoId /\ Fail(c, "registration")

FailToAsk(c) == IsAsking(c) /\ Became(c, "unsent") /\ Fail(c, "notSent")

GiveUp(c) ==
    /\ IsAsking(c) /\ ~Became(c, "unsent")
    /\ \E reason \in {"notConnected", "timeout", "disconnected", "unknownTemplate"} : Fail(c, reason)

\* A session is opened once, or not at all.
Answer(i) ==
    /\ requests[i].status = "pending"
    /\ \E status \in {"opened", "refused"} :
         requests' = [requests EXCEPT ![i] = [status |-> status, session |-> nextSession]]
    /\ nextSession' = nextSession + 1
    /\ UNCHANGED <<state, how, asked, session, lastId>>

Next ==
    \/ \E c \in Clients :
         \/ Try(c) \/ DrawId(c) \/ Ask(c)
         \/ Open(c) \/ Refused(c) \/ FailToRegister(c) \/ FailToAsk(c) \/ GiveUp(c)
    \/ \E i \in Ids : Answer(i)

vars == <<state, how, asked, session, lastId, requests, nextSession>>

Spec == Init /\ [][Next]_vars
=============================================================================
