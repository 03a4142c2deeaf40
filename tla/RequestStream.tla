---------------------------- MODULE RequestStream ----------------------------
(***************************************************************************)
(* What a request of ArchiveProxy promises its caller: either the request, *)
(* whole and once, is on the stream to the archive and the method returns  *)
(* true, or nothing of it ever is and the method returns false or throws.  *)
(* AeronArchive.tla uses it in this form, as its actions Send and          *)
(* FailToSend; ArchiveProxy.tla is shown to implement it.                  *)
(***************************************************************************)
EXTENDS Sequences

CONSTANTS Callers, Requests, NoRequest

VARIABLES
    asked,      \* asked[c]: the request that c is sending, or NoRequest
    accepted,   \* accepted[c]: did the last request of c get through?
    wire        \* what the archive gets to read, in order

Init ==
    /\ asked = [c \in Callers |-> NoRequest]
    /\ accepted = [c \in Callers |-> FALSE]
    /\ wire = <<>>

Ask(c) ==
    /\ asked[c] = NoRequest
    /\ \E r \in Requests : asked' = [asked EXCEPT ![c] = r]
    /\ accepted' = [accepted EXCEPT ![c] = FALSE]
    /\ UNCHANGED wire

Accept(c) ==
    /\ asked[c] # NoRequest
    /\ wire' = Append(wire, asked[c])
    /\ asked' = [asked EXCEPT ![c] = NoRequest]
    /\ accepted' = [accepted EXCEPT ![c] = TRUE]

Refuse(c) ==
    /\ asked[c] # NoRequest
    /\ asked' = [asked EXCEPT ![c] = NoRequest]
    /\ UNCHANGED <<accepted, wire>>

Next == \E c \in Callers : Ask(c) \/ Accept(c) \/ Refuse(c)

vars == <<asked, accepted, wire>>

Spec == Init /\ [][Next]_vars
=============================================================================
