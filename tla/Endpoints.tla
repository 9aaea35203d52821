------------------------------- MODULE Endpoints -------------------------------
(***************************************************************************)
(* How the client picks audio hardware: the device choice, channel counts  *)
(* and channel mapping of client/audio.py and client/alsa.py, as           *)
(* operators.  One that may raise AudioDeviceError returns the set of its  *)
(* results, empty when it raises.                                          *)
(*                                                                         *)
(* A device is an ALSA PCM; PortAudio lists them by card, so its table     *)
(* tells which unit each card is, and its order is that of the cards.      *)
(* PortAudio reads the table once per process.                             *)
(***************************************************************************)
EXTENDS Integers, Sequences

CONSTANTS
    Units, NoUnit,   \* pieces of audio hardware
    Cards, NoCard,   \* card numbers; a name without "(hw:...)"
    Label,           \* the name of each unit before "(hw:card,device)"
    Within,          \* label pairs <<a, b>>: text a occurs in text b
    Most,            \* [unit -> [kind -> max_input/output_channels]]
    Usb,             \* the units with a /proc/asound/card<N>/stream<M>
    Altsets          \* what it says: [kind, rates, channels] each

Kind == {"input", "output"}

ASSUME EndpointsOK ==
    /\ NoUnit \notin Units /\ Usb \subseteq Units
    /\ Cards \subseteq Nat /\ NoCard \notin Cards
    /\ \A u \in Units : <<Label[u], Label[u]>> \in Within
    /\ Most \in [Units -> [Kind -> Nat]]
    /\ \A u \in Usb : \A a \in Altsets[u] :
           a.channels \in Nat \ {0} /\ a.channels <= Most[u][a.kind]

-------------------------------------------------------------------------------
(* find_device *)

\* Mutant: the wizard saves the name without "(hw:card,device)".
NameWithoutCard(table, c) == [label |-> Label[table[c]], card |-> NoCard]

Name(table, c) == [label |-> Label[table[c]], card |-> c]

\* needle in name: text that ends in "(hw:...)" matches on one card only.
Matches(needle, name) ==
    /\ <<needle.label, name.label>> \in Within
    /\ needle.card \in {NoCard, name.card}

Channels(table, c, kind) ==
    IF table[c] = NoUnit THEN 0 ELSE Most[table[c]][kind]

\* The first of the devices in S, if it has enough channels.
FirstOf(S, table, kind, required) ==
    {c \in S : (\A d \in S : c <= d) /\ Channels(table, c, kind) >= required}

\* Mutant: devices without channels of that kind are not passed over.
FindAnyKind(table, needle, kind, required) ==
    FirstOf({c \in Cards : table[c] # NoUnit /\ Matches(needle, Name(table, c))},
            table, kind, required)

FindDevice(table, needle, kind, required) ==
    FirstOf({c \in Cards : /\ Channels(table, c, kind) > 0
                           /\ Matches(needle, Name(table, c))},
            table, kind, required)

(* resolve_endpoint, _check_device_supports_rate *)

ChannelCounts(unit, kind, rate) ==
    {a.channels : a \in {b \in Altsets[unit] : b.kind = kind /\ rate \in b.rates}}

\* The hardware channels for that many logical ones: the smallest count that
\* the stream file offers.  Without such a file, the count itself.
ResolveEndpoint(unit, kind, channels, rate) ==
    LET valid == {n \in ChannelCounts(unit, kind, rate) : n >= channels}
    IN  IF unit \in Usb THEN {n \in valid : \A m \in valid : n <= m}
                        ELSE {channels}

\* What PortAudio accepts: raw hardware its own counts only.
Accepts(unit, kind, n, rate) ==
    \/ unit \in Usb /\ n \in ChannelCounts(unit, kind, rate)
    \/ unit \in Units \ Usb /\ n \in 1..Most[unit][kind]

\* The stream file is that of whatever unit is the card by now.
Openable(unit, kind, channels, rate) ==
    {n \in ResolveEndpoint(unit, kind, channels, rate) :
        Accepts(unit, kind, n, rate)}

-------------------------------------------------------------------------------
(* What each output plays: a channel of the file, by number, or nothing *)

Silence == 0

FileChannels(width) == [k \in 1..width |-> k]

\* _match_channels: the last channel is repeated, or the rest cut off.
MatchChannels(data, target) ==
    [k \in 1..target |-> IF k <= Len(data) THEN data[k] ELSE data[Len(data)]]

\* Mutant: the silence comes before the audio.
PadInFront(data, channels) ==
    LET pad == channels - Len(data)
    IN  [k \in 1..channels |-> IF k > pad THEN data[k - pad] ELSE Silence]

\* _pad_outputs
PadOutputs(data, channels) ==
    [k \in 1..channels |-> IF k <= Len(data) THEN data[k] ELSE Silence]
===============================================================================
