------------------------------ MODULE ChannelUri ------------------------------
(***************************************************************************)
(* ChannelUri: a channel taken apart into media and parameters, and put    *)
(* together again.                                                         *)
(*                                                                         *)
(* A text is a sequence of symbols: the two prefixes, the separators that  *)
(* the parser looks for, and names, which stand for any other text.        *)
(***************************************************************************)
EXTENDS SequencesExt, Integers

SpyPrefix == "aeron-spy:"
AeronPrefix == "aeron:"
SessionIdParamName == <<"session-id">>

\* MEDIA stops at a ':', and the prefixes contain one.
HasColon(c) == c \in {":", SpyPrefix, AeronPrefix}

Invalid == [isValid |-> FALSE]
Uri(spy, media, params) == [isValid |-> TRUE, spy |-> spy, media |-> media, params |-> params]

\* params_[key] = value
Put(params, key, value) ==
    [k \in DOMAIN params \cup {key} |-> IF k = key THEN value ELSE params[k]]

-----------------------------------------------------------------------------
(***************************************************************************)
(* parse(): the state machine over the text behind the prefixes.           *)
(***************************************************************************)
Start == [state |-> "MEDIA", media |-> <<>>, key |-> <<>>, buffer |-> <<>>, params |-> <<>>]

Buffer(s, c) == [s EXCEPT !.buffer = Append(@, c)]
EndMedia(s) == [s EXCEPT !.media = s.buffer, !.buffer = <<>>, !.state = "PARAMS_KEY"]
EndKey(s) == [s EXCEPT !.key = s.buffer, !.buffer = <<>>, !.state = "PARAMS_VALUE"]
EndValue(s) == [s EXCEPT !.params = Put(@, s.key, s.buffer), !.buffer = <<>>, !.state = "PARAMS_KEY"]

\* Mutant of ParseSymbol: a '|' ends a key, too.
ParseSymbolStrictly(s, c) ==
    CASE s.state = "MEDIA" /\ c = "?" -> EndMedia(s)
      [] s.state = "MEDIA" /\ HasColon(c) -> [s EXCEPT !.state = "THROWN"]
      [] s.state = "PARAMS_KEY" /\ c = "=" -> EndKey(s)
      [] s.state = "PARAMS_KEY" /\ c = "|" -> [s EXCEPT !.state = "THROWN"]
      [] s.state = "PARAMS_VALUE" /\ c = "|" -> EndValue(s)
      [] s.state = "THROWN" -> s
      [] OTHER -> Buffer(s, c)

ParseSymbol(s, c) ==
    CASE s.state = "MEDIA" /\ c = "?" -> EndMedia(s)
      [] s.state = "MEDIA" /\ HasColon(c) -> [s EXCEPT !.state = "THROWN"]
      [] s.state = "PARAMS_KEY" /\ c = "=" -> EndKey(s)
      [] s.state = "PARAMS_VALUE" /\ c = "|" -> EndValue(s)
      [] s.state = "THROWN" -> s
      [] OTHER -> Buffer(s, c)

\* What the parser knows after each symbol of the body.
After(body) ==
    LET after[k \in 0..Len(body)] ==
          IF k = 0 THEN Start ELSE ParseSymbol(after[k - 1], body[k])
    IN after

StartsWith(text, symbol) == text # <<>> /\ Head(text) = symbol

\* The text must not end in a key.
Parse(text) ==
    LET spy == StartsWith(text, SpyPrefix)
        aeron == IF spy THEN Tail(text) ELSE text
        end == After(Tail(aeron))[Len(Tail(aeron))]
    IN IF ~StartsWith(aeron, AeronPrefix) THEN Invalid
       ELSE CASE end.state = "MEDIA" -> Uri(spy, end.buffer, end.params)
              [] end.state = "PARAMS_VALUE" -> Uri(spy, end.media, EndValue(end).params)
              [] OTHER -> Invalid

-----------------------------------------------------------------------------
(***************************************************************************)
(* toString(): the order of an unordered_map is any.                       *)
(***************************************************************************)
\* Mutant of PrintParams: no '|' between the parameters.
PrintParamsUnseparated(params, order) ==
    LET printed[n \in 0..Len(order)] ==
          IF n = 0 THEN <<>>
          ELSE printed[n - 1] \o (IF n = 1 THEN <<"?">> ELSE <<>>)
                 \o order[n] \o <<"=">> \o params[order[n]]
    IN printed[Len(order)]

PrintParams(params, order) ==
    LET printed[n \in 0..Len(order)] ==
          IF n = 0 THEN <<>>
          ELSE printed[n - 1] \o (IF n = 1 THEN <<"?">> ELSE <<"|">>)
                 \o order[n] \o <<"=">> \o params[order[n]]
    IN printed[Len(order)]

ToStrings(uri) ==
    { (IF uri.spy THEN <<SpyPrefix>> ELSE <<>>) \o <<AeronPrefix>> \o uri.media
         \o PrintParams(uri.params, order) : order \in SetToSeqs(DOMAIN uri.params) }

\* addSessionId(): every text it may return; none if the channel is invalid.
AddSessionId(text, sessionId) ==
    LET uri == Parse(text) IN
    IF uri.isValid
    THEN ToStrings(Uri(uri.spy, uri.media, Put(uri.params, SessionIdParamName, sessionId)))
    ELSE {}
-----------------------------------------------------------------------------
(***************************************************************************)
(* What parse() should find, said without a state machine: a channel is    *)
(* cut at '?', '=', '|', '=', ..., '='; no ':' and no '?' is left in the   *)
(* media, no '=' in a key and no '|' in a value; the last value of a key   *)
(* counts.                                                                 *)
(***************************************************************************)
Behind(text) ==
    LET aeron == IF StartsWith(text, SpyPrefix) THEN Tail(text) ELSE text IN
    IF StartsWith(aeron, AeronPrefix) THEN {Tail(aeron)} ELSE {}

Cutter(n) == IF n = 1 THEN "?" ELSE IF n % 2 = 0 THEN "=" ELSE "|"

\* Places in a body, in rising order.
Cuts(body) ==
    LET at == { i \in DOMAIN body : body[i] \in {"?", "=", "|"} } IN
    UNION { { c \in [1..n -> at] : \A m \in 2..n : c[m - 1] < c[m] } : n \in 0..Cardinality(at) }

Piece(body, cuts, n) ==
    SubSeq(body, IF n = 0 THEN 1 ELSE cuts[n] + 1,
                 IF n = Len(cuts) THEN Len(body) ELSE cuts[n + 1] - 1)

Has(piece, c) == \E i \in DOMAIN piece : piece[i] = c

IsCut(body, cuts) ==
    /\ \A n \in DOMAIN cuts : body[cuts[n]] = Cutter(n)
    /\ Len(cuts) % 2 = 0
    /\ ~Has(Piece(body, cuts, 0), "?")
    /\ \A i \in DOMAIN Piece(body, cuts, 0) : ~HasColon(Piece(body, cuts, 0)[i])
    /\ \A n \in DOMAIN cuts : ~Has(Piece(body, cuts, n), IF n % 2 = 0 THEN "|" ELSE "=")

UriOfCut(spy, body, cuts) ==
    LET pairs == { n \in DOMAIN cuts : n % 2 = 1 }
        last(key) == Max({ n \in pairs : Piece(body, cuts, n) = key })
    IN Uri(spy, Piece(body, cuts, 0),
           [key \in { Piece(body, cuts, n) : n \in pairs } |-> Piece(body, cuts, last(key) + 1)])

UrisByCutting(text) ==
    UNION { { UriOfCut(StartsWith(text, SpyPrefix), body, cuts) :
                cuts \in { c \in Cuts(body) : IsCut(body, c) } } : body \in Behind(text) }
=============================================================================
