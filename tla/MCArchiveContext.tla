--------------------------- MODULE MCArchiveContext ---------------------------
EXTENDS ArchiveContext

MCNumbers == {1, 2}

MCDefaults ==
    [s \in Settings |->
        CASE s \in ChannelSettings -> <<"aeron:", "udp">>
          [] s \in NumberSettings -> 1
          [] OTHER -> TRUE]

UpTo(n, symbols) == UNION { [1..k -> symbols] : k \in 0..n }

\* Every body of up to five symbols behind each prefix, and every text of three.
MCTexts ==
    { prefix \o body : prefix \in { <<"aeron:">>, <<"aeron-spy:", "aeron:">> },
                       body \in UpTo(5, {":", "?", "=", "|", "session-id", "a"}) }
      \cup UpTo(3, {"aeron:", "aeron-spy:", "?", "=", "a"})

MCChannels == { <<"aeron:", "a", "?", "mtu", "=", "2", "|", "a", "=", "1">>,
                <<"aeron-spy:", "aeron:", "a">>, <<"a">> }

MCEnvironments ==
    { <<>>, "controlTermBufferSparse" :> <<"0">>, "controlTermBufferSparse" :> <<"true">>,
      "controlMtuLength" :> <<"2">>, "controlMtuLength" :> <<>> }
      \cup { "controlChannel" :> channel : channel \in MCChannels }

\* Every file of one short line, and two of these lines.
MCFiles ==
    { <<line>> : line \in UpTo(5, {" ", "#", "=", "controlMtuLength", "2"}) }
      \cup [1..2 -> { <<"controlMtuLength", "=", "1">>, <<"controlMtuLength", " ", "=", " ", "2">>,
                      <<"controlMtuLength", "=", "a">>, <<"controlMtuLength">>,
                      <<"controlTermBufferSparse", "=", "y">>, <<"controlTermBufferSparse", "=", "a">>,
                      <<"controlChannel", "=", "aeron:", "a">>,
                      <<>>, <<" ">>, <<"#", "controlMtuLength", "=", "1">> }]

MCSetterCalls == { <<"controlTermBufferLength", 2>>, <<"controlTermBufferSparse", FALSE>>,
                   <<"controlMtuLength", 1>>, <<"controlResponseChannel", <<"aeron:", "a">> >> }
=============================================================================
