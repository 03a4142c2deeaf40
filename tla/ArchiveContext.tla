---------------------------- MODULE ArchiveContext ----------------------------
(***************************************************************************)
(* Configuration and Context: settings come from the environment or from a *)
(* property file, setters change them, and the channel of the control      *)
(* requests is built from some of them.                                    *)
(*                                                                         *)
(* Texts are sequences of symbols, as in ChannelUri and PropertiesReader.  *)
(* In a file, the key of a setting is a symbol named like the setting.     *)
(***************************************************************************)
EXTENDS Integers, Sequences, FiniteSets, TLC

ChannelUri == INSTANCE ChannelUri
PropertiesReader == INSTANCE PropertiesReader

CONSTANTS
    Numbers,        \* what a numeral may stand for
    Defaults,       \* the value of each setting that is not given
    Environments,   \* what getenv finds: texts of some of the settings
    Files,          \* property files: sequences of lines
    SetterCalls,    \* pairs of a setting and a value to set
    Channels,       \* arguments of controlRequestChannel
    Texts,          \* arguments of addSessionId
    SessionId

ChannelSettings == {"controlChannel", "localControlChannel", "controlResponseChannel",
                    "recordingEventsChannel"}
NumberSettings == {"messageTimeoutNs", "controlStreamId", "localControlStreamId",
                   "controlResponseStreamId", "recordingEventsStreamId",
                   "controlTermBufferLength", "controlMtuLength"}
Settings == ChannelSettings \cup NumberSettings \cup {"controlTermBufferSparse"}

\* What a setting may be.
Values(setting) ==
    IF setting \in ChannelSettings THEN Seq(STRING)
    ELSE IF setting \in NumberSettings THEN Numbers ELSE BOOLEAN

\* What is given and read are texts.
ASSUME TextAssumption ==
    /\ Texts \subseteq Seq(STRING) /\ Channels \subseteq Seq(STRING)
    /\ \A file \in Files : file \in Seq(Seq(STRING))

\* Settings have values of their types, and getenv finds texts.
ASSUME SettingAssumption ==
    /\ Defaults = [s \in Settings |-> Defaults[s]] /\ \A s \in Settings : Defaults[s] \in Values(s)
    /\ \A environment \in Environments :
         DOMAIN environment \subseteq Settings
         /\ \A s \in DOMAIN environment : environment[s] \in Seq(STRING)
    /\ \A call \in SetterCalls : call[1] \in Settings /\ call[2] \in Values(call[1])

\* A number is printed as one symbol, which is not a separator.
ASSUME NumeralAssumption ==
    \A n \in Numbers \cup {SessionId} : ToString(n) \in STRING /\ ToString(n) # "|"

VARIABLES
    phase,                  \* "new", "configured", "context", "connected"; "thrown"; "added"
    lines,                  \* the file that was read
    cfg,
    controlRequestChannel,
    given,                  \* the text that the request channel was made of
    givenWith,              \* and the settings of that moment
    added,                  \* what addSessionId returned
    aeronDirectoryName,     \* "" if it is not set
    aeron                   \* the client: "none", "given", or the directory of one made here

aeronVars == <<aeronDirectoryName, aeron>>
vars == <<phase, lines, cfg, controlRequestChannel, given, givenWith, added, aeronVars>>

Init ==
    /\ phase = "new"
    /\ cfg = Defaults /\ givenWith = Defaults
    /\ lines = <<>> /\ controlRequestChannel = <<>> /\ given = <<>> /\ added = <<>>
    /\ aeronDirectoryName = "" /\ aeron = "none"

-----------------------------------------------------------------------------
\* std::to_string
Numeral(n) == <<ToString(n)>>
Flag(b) == <<IF b THEN "1" ELSE "0">>

\* The values that a text stands for: one, or none if lexical_cast throws.
LexicalCast(setting, text) ==
    CASE setting \in ChannelSettings -> {text}
      [] setting \in NumberSettings -> { n \in Numbers : text = Numeral(n) }
      [] OTHER -> { b \in BOOLEAN : text = Flag(b) }

\* In a file, a flag is any text, in capitals or not.
ParseValue(setting, text) ==
    IF setting \in ChannelSettings \cup NumberSettings THEN LexicalCast(setting, text)
    ELSE { text \in {<<"true">>, <<"1">>, <<"y">>} }

\* The constructors of Configuration: found are the values of the settings that
\* are given; one that has none throws.
Configure(found) ==
    IF \E s \in DOMAIN found : found[s] = {}
    THEN phase' = "thrown" /\ UNCHANGED cfg
    ELSE /\ phase' = "configured"
         /\ cfg' = [s \in Settings |-> IF s \in DOMAIN found THEN CHOOSE v \in found[s] : TRUE
                                                             ELSE Defaults[s]]

ReadEnvironment ==
    /\ phase = "new"
    /\ \E environment \in Environments :
         Configure([s \in DOMAIN environment |-> LexicalCast(s, environment[s])])
    /\ UNCHANGED <<lines, controlRequestChannel, given, givenWith, added, aeronVars>>

ReadFile ==
    /\ phase = "new"
    /\ \E file \in Files :
         LET properties == PropertiesReader!Properties(file)
             settings == { s \in Settings : <<s>> \in DOMAIN properties }
         IN /\ lines' = file
            /\ Configure([s \in settings |-> ParseValue(s, properties[<<s>>])])
    /\ UNCHANGED <<controlRequestChannel, given, givenWith, added, aeronVars>>

-----------------------------------------------------------------------------
\* The parameters of the request channel, and the settings that they are.
ControlParams ==
    [name \in {"term-length", "mtu", "sparse"} |->
        CASE name = "term-length" -> "controlTermBufferLength"
          [] name = "mtu" -> "controlMtuLength"
          [] OTHER -> "controlTermBufferSparse"]

ControlKeys == { <<name>> : name \in DOMAIN ControlParams }

ControlParam(settings, name) ==
    LET value == settings[ControlParams[name]] IN
    IF name = "sparse" THEN Flag(value) ELSE Numeral(value)

\* Mutant of WithControlParams: what the channel says already is kept.
WithMissingControlParams(uri, settings) ==
    ChannelUri!Uri(uri.spy, uri.media,
        [key \in DOMAIN uri.params \cup ControlKeys |->
            IF key \in DOMAIN uri.params THEN uri.params[key] ELSE ControlParam(settings, key[1])])

WithControlParams(uri, settings) ==
    ChannelUri!Uri(uri.spy, uri.media,
        [key \in DOMAIN uri.params \cup ControlKeys |->
            IF key \in ControlKeys THEN ControlParam(settings, key[1]) ELSE uri.params[key]])

\* controlRequestChannel(value), if value is a channel.
BuildRequestChannel(value) ==
    LET uri == ChannelUri!Parse(value) IN
    /\ uri.isValid
    /\ controlRequestChannel' \in ChannelUri!ToStrings(WithControlParams(uri, cfg))
    /\ given' = value /\ givenWith' = cfg

\* Context(cfg); the file is not needed any more.
Construct ==
    /\ phase = "configured"
    /\ \/ phase' = "context" /\ BuildRequestChannel(cfg.controlChannel)
       \/ /\ ~ChannelUri!Parse(cfg.controlChannel).isValid
          /\ phase' = "thrown"
          /\ UNCHANGED <<controlRequestChannel, given, givenWith>>
    /\ lines' = <<>>
    /\ UNCHANGED <<cfg, added, aeronVars>>

\* A call with a text that is no channel throws and changes nothing.
SetControlRequestChannel ==
    /\ phase = "context"
    /\ \E value \in Channels : BuildRequestChannel(value)
    /\ UNCHANGED <<phase, lines, cfg, added, aeronVars>>

\* Every other setter of a setting; none of them sets the controlChannel.
Set ==
    /\ phase = "context"
    /\ \E call \in SetterCalls :
         /\ call[1] \in Settings \ {"controlChannel"}
         /\ cfg' = [cfg EXCEPT ![call[1]] = call[2]]
    /\ UNCHANGED <<phase, lines, controlRequestChannel, given, givenWith, added, aeronVars>>

SetAeronDirectoryName ==
    /\ phase = "context"
    /\ aeronDirectoryName' = "other"
    /\ UNCHANGED <<phase, lines, cfg, controlRequestChannel, given, givenWith, added, aeron>>

SetAeron ==
    /\ phase = "context"
    /\ aeron' \in {"none", "given"}
    /\ UNCHANGED <<phase, lines, cfg, controlRequestChannel, given, givenWith, added,
                   aeronDirectoryName>>

\* conclude: a client is made if none was given.
Conclude ==
    /\ aeronDirectoryName' = IF aeronDirectoryName = "" THEN "default" ELSE aeronDirectoryName
    /\ aeron' = IF aeron = "none" THEN aeronDirectoryName' ELSE aeron

\* AeronArchive copies the context, concludes the copy and connects with it; the
\* client may find no driver, and then the copy is gone.
Connect ==
    /\ phase = "context"
    /\ \/ phase' = "connected" /\ Conclude
       \/ phase' = "thrown" /\ aeron = "none" /\ UNCHANGED aeronVars
    /\ UNCHANGED <<lines, cfg, controlRequestChannel, given, givenWith, added>>

\* What AeronArchive does with the channel of a publication or of a replay.
AddSessionId ==
    /\ phase = "new"
    /\ \E text \in Texts :
         /\ given' = text
         /\ \/ phase' = "added" /\ added' \in ChannelUri!AddSessionId(text, Numeral(SessionId))
            \/ ~ChannelUri!Parse(text).isValid /\ phase' = "thrown" /\ UNCHANGED added
    /\ UNCHANGED <<lines, cfg, controlRequestChannel, givenWith, aeronVars>>

Next ==
    \/ ReadEnvironment \/ ReadFile \/ Construct
    \/ SetControlRequestChannel \/ Set \/ SetAeronDirectoryName \/ SetAeron \/ Connect
    \/ AddSessionId

Spec == Init /\ [][Next]_vars

-----------------------------------------------------------------------------
(***************************************************************************)
(* Properties.                                                             *)
(***************************************************************************)
\* ChannelUri::parse accepts exactly the texts that can be cut into media, keys
\* and values, and finds these; there is never more than one way to cut.
ParsesAsCut ==
    LET uri == ChannelUri!Parse(given) IN
    ChannelUri!UrisByCutting(given) = IF uri.isValid THEN {uri} ELSE {}

\* addSessionId changes the session id of a channel and nothing else, whichever
\* way the map is ordered: what it prints parses back to the same media and
\* parameters, and a session id that was there before is gone.
SessionIdIsAdded ==
    phase = "added" =>
        LET before == ChannelUri!Parse(given)
            after == ChannelUri!Parse(added)
        IN /\ after.isValid /\ after.spy = before.spy /\ after.media = before.media
           /\ DOMAIN after.params = DOMAIN before.params \cup {<<"session-id">>}
           /\ \A key \in DOMAIN after.params :
                after.params[key] = IF key = <<"session-id">> THEN Numeral(SessionId)
                                                              ELSE before.params[key]

\* The request channel is the one that was given last, with the length, the MTU
\* and the sparseness of that moment in place of any it had.
RequestChannelIsAsGiven ==
    phase \in {"context", "connected"} =>
        LET text == ChannelUri!Parse(given)
            uri == ChannelUri!Parse(controlRequestChannel)
        IN /\ uri.isValid /\ uri.spy = text.spy /\ uri.media = text.media
           /\ \A name \in DOMAIN ControlParams : uri.params[<<name>>] = ControlParam(givenWith, name)
           /\ \A key \in DOMAIN text.params :
                key \in ControlKeys \/ uri.params[key] = text.params[key]

\* A line that starts with its key and has no comment.
IsPlain(line) == line # <<>> /\ line[1] \notin {" ", "#", "="} /\ \A i \in DOMAIN line : line[i] # "#"

\* A line of blanks, or of blanks and a comment.
IsSilent(line) ==
    \E n \in 0..Len(line) :
        (\A i \in 1..n : line[i] = " ") /\ (n = Len(line) \/ line[n + 1] = "#")

IsRegular(line) == IsPlain(line) \/ IsSilent(line)

\* What a line says of a setting: the text behind its first '=', if the
\* text before it is the setting's key.
SaysOf(line, setting) ==
    LET separators == { i \in DOMAIN line :
                          line[i] = "=" /\ \A j \in 1..(i - 1) : line[j] # "=" }
    IN { PropertiesReader!Trim(SubSeq(line, i + 1, Len(line))) :
           i \in { j \in separators : PropertiesReader!Trim(SubSeq(line, 1, j - 1)) = <<setting>> } }

\* A file of such lines gives a setting the value that its first line says, and
\* the default if there is none: empty lines and comments between the others
\* change nothing.  (Other lines are read otherwise than they look: see
\* PropertiesReader.)
PlainFileIsRead ==
    (phase = "configured" /\ lines # <<>> /\ \A n \in DOMAIN lines : IsRegular(lines[n])) =>
        \A s \in Settings :
            LET about == { n \in DOMAIN lines : SaysOf(lines[n], s) # {} } IN
            IF about = {} THEN cfg[s] = Defaults[s]
            ELSE \E n \in about : /\ \A m \in about : n <= m
                                 /\ \E text \in SaysOf(lines[n], s) : cfg[s] \in ParseValue(s, text)

\* The control stream that AeronArchive opens has the term length, the MTU and
\* the sparseness that its context says.
RequestChannelHasSettings ==
    phase = "connected" =>
        \A name \in DOMAIN ControlParams :
            ChannelUri!Parse(controlRequestChannel).params[<<name>>] = ControlParam(cfg, name)
=============================================================================
