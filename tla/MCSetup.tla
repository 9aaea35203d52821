-------------------------------- MODULE MCSetup --------------------------------
(***************************************************************************)
(* TLC instance: a USB interface with fewer channels at the higher rate,   *)
(* and a sound card without microphone and without a stream file, whose    *)
(* label occurs in that of the interface; two cards.                       *)
(***************************************************************************)
EXTENDS Setup

CONSTANTS interface, onboard

MCUnits == {interface, onboard}
MCCards == {1, 2}
MCLabel == [u \in MCUnits |-> IF u = interface THEN "USB Audio" ELSE "Audio"]
MCWithin == {<<"Audio", "Audio">>, <<"Audio", "USB Audio">>, <<"USB Audio", "USB Audio">>}
MCMost == [u \in MCUnits |-> IF u = interface THEN [output |-> 3, input |-> 2]
                                              ELSE [output |-> 2, input |-> 0]]
MCUsb == {interface}
MCRates == {48, 96}
MCAltsets ==
    [u \in MCUsb |-> {[kind |-> "output", rates |-> {48}, channels |-> 3],
                      [kind |-> "output", rates |-> {96}, channels |-> 2],
                      [kind |-> "input", rates |-> {48}, channels |-> 2],
                      [kind |-> "input", rates |-> {96}, channels |-> 1]}]
MCWidths == {1, 3}
MCAnswers == {0, 1, 2}

\* Bound: the wizard is started where there is no configuration yet, and not
\* while a daemon runs, which reads the file when it starts and never again.
OneSetupAtATime ==
    /\ stage # "off" => config \in {None, Truncated}
    /\ daemon # None => stage = "off" /\ config = daemon.config
===============================================================================
