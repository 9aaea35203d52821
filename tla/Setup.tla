--------------------------------- MODULE Setup ---------------------------------
(***************************************************************************)
(* From the wizard to the loudspeakers: client/setup_wizard.py,           *)
(* client/config.py and, of the daemon, what play_and_record opens for a   *)
(* file.                                                                   *)
(*                                                                         *)
(* Hardware is replugged, and cards are renumbered, at any time.  Wizard   *)
(* and daemon keep the device table they were started with, the daemon     *)
(* its configuration as well, while the stream files under /proc and the   *)
(* hardware itself are as they are now.                                    *)
(***************************************************************************)
EXTENDS Endpoints

CONSTANTS Rates, Widths,  \* sample rates and channel counts of the files
          Answers,        \* channel counts that are typed in
          None,           \* no process, no file, no test
          Truncated       \* a file that was opened for writing

ASSUME SetupOK ==
    /\ Rates \subseteq Nat /\ Widths \subseteq Nat \ {0} /\ Answers \subseteq Nat
    /\ None \notin Rates /\ None # Truncated

VARIABLES
    plugged,  \* the unit each card is
    stage,    \* where the wizard stands
    listed,   \* its device table
    picks,    \* what it was told
    config,   \* config.yaml
    daemon,   \* what the daemon was started with: configuration, device table
    stream    \* the stream of the last file it played

wizard == <<stage, listed, picks>>
vars   == <<plugged, wizard, config, daemon, stream>>

\* No unit is two cards.
Table == {t \in [Cards -> Units \cup {NoUnit}] :
             \A c, d \in Cards : t[c] = t[d] /\ c # d => t[c] = NoUnit}

NoPicks == [card |-> None, channels |-> None, tested |-> None]

Init ==
    /\ plugged \in Table
    /\ stage = "off" /\ listed = None /\ picks = NoPicks
    /\ config = None /\ daemon = None /\ stream = None

\* A reboot or a USB reconnect.
Replug ==
    /\ plugged' \in Table
    /\ UNCHANGED <<wizard, config, daemon, stream>>

-------------------------------------------------------------------------------
(* The wizard *)

Proceed(from, to) == stage = from /\ stage' = to

\* Ctrl+C, sys.exit(1) or an exception; a file being written stays as it is.
Quit ==
    /\ stage # "off"
    /\ stage' = "off" /\ listed' = None /\ picks' = NoPicks
    /\ UNCHANGED <<plugged, config, daemon, stream>>

ListDevices ==
    /\ Proceed("off", "choose")
    /\ listed' = plugged
    /\ UNCHANGED <<plugged, picks, config, daemon, stream>>

\* A device must have channels of its kind, except that the microphone may be
\* on the output device whatever that has.
Choose(card, channels) ==
    /\ Proceed("choose", "test")
    /\ \A k \in Kind :
          /\ Channels(listed, card[k], k) > 0 \/ card.input = card.output
          /\ channels[k] <= Channels(listed, card[k], k)
    /\ Channels(listed, card.output, "output") > 0
    /\ picks' = [card |-> card, channels |-> channels, tested |-> None]
    /\ UNCHANGED <<plugged, listed, config, daemon, stream>>

\* _test_playback and _test_recording, on the devices by index.  The peak of a
\* recording without channels raises.
LiveTest(rate) ==
    /\ Proceed("test", "save")
    /\ \A k \in Kind :
          Openable(plugged[picks.card[k]], k, picks.channels[k], rate) # {}
    /\ picks.channels.input > 0
    /\ picks' = [picks EXCEPT !.tested = IF plugged = listed THEN rate ELSE None]
    /\ UNCHANGED <<plugged, listed, config, daemon, stream>>

\* Whether the SFTP settings, asked for next, work changes nothing below.
SkipTest ==
    /\ Proceed("test", "save")
    /\ UNCHANGED <<plugged, listed, picks, config, daemon, stream>>

\* save_config opens the file for writing, which empties it ...
Truncate ==
    /\ Proceed("save", "write")
    /\ config' = Truncated
    /\ UNCHANGED <<plugged, listed, picks, daemon, stream>>

\* ... and the text is there when it is closed.  "chosen", "tested" and "table"
\* are not in the file: the units that are meant, the rate and the devices that
\* were tested.
WriteConfig ==
    /\ Proceed("write", "off")
    /\ config' = [device   |-> [k \in Kind |-> Name(listed, picks.card[k])],
                  channels |-> picks.channels,
                  chosen   |-> [k \in Kind |-> listed[picks.card[k]]],
                  tested   |-> picks.tested,
                  table    |-> listed]
    /\ listed' = None /\ picks' = NoPicks
    /\ UNCHANGED <<plugged, daemon, stream>>

\* "Copy to config.yaml": written by hand, a device by a part of its label.
EditConfig(unit, label, channels) ==
    /\ stage = "off"
    /\ \A k \in Kind : <<label[k], Label[unit[k]]>> \in Within
    /\ config' = [device   |-> [k \in Kind |-> [label |-> label[k], card |-> NoCard]],
                  channels |-> channels,
                  chosen   |-> unit,
                  tested   |-> None,
                  table    |-> None]
    /\ UNCHANGED <<plugged, wizard, daemon, stream>>

-------------------------------------------------------------------------------
(* The daemon *)

\* Mutant: a file that is there is taken for a configuration.
IsThere(file) == file # None

\* load_config raises on a file that is absent or empty; systemd tries again.
Loads(file) == file \notin {None, Truncated}

Start ==
    /\ daemon = None /\ Loads(config)
    /\ daemon' = [config |-> config, table |-> plugged]
    /\ UNCHANGED <<plugged, wizard, config, stream>>

Stop ==
    /\ daemon # None
    /\ daemon' = None /\ stream' = None
    /\ UNCHANGED <<plugged, wizard, config>>

\* The device it finds by name in its table, opened as it is now.
Opens(kind, rate) ==
    LET wanted == daemon.config.channels[kind]
    IN  UNION {{[unit |-> plugged[c], channels |-> n] :
                   n \in Openable(plugged[c], kind, wanted, rate)} :
               c \in FindDevice(daemon.table, daemon.config.device[kind],
                                kind, wanted)}

\* play_and_record up to the stream; nothing is opened if one end raises.
PlayFile(rate, width) ==
    /\ daemon # None
    /\ \/ \E out \in Opens("output", rate), in \in Opens("input", rate) :
             stream' = [unit  |-> [output |-> out.unit, input |-> in.unit],
                        width |-> width,
                        plays |-> PadOutputs(
                                    MatchChannels(FileChannels(width),
                                                  daemon.config.channels.output),
                                    out.channels)]
       \/ (\E k \in Kind : Opens(k, rate) = {}) /\ stream' = None
    /\ UNCHANGED <<plugged, wizard, config, daemon>>

-------------------------------------------------------------------------------
Next ==
    \/ Replug \/ Quit \/ ListDevices \/ SkipTest \/ Truncate \/ WriteConfig
    \/ Start \/ Stop
    \/ \E channels \in [Kind -> Answers] :
          \/ \E card \in [Kind -> Cards] : Choose(card, channels)
          \/ \E unit \in [Kind -> Units], label \in [Kind -> {Label[u] : u \in Units}] :
                EditConfig(unit, label, channels)
    \/ \E rate \in Rates : LiveTest(rate) \/ \E width \in Widths : PlayFile(rate, width)

Spec == Init /\ [][Next]_vars

-------------------------------------------------------------------------------
\* What is kept has its type; a daemon runs on a whole configuration.
TypeOK ==
    /\ plugged \in Table
    /\ stage \in {"off", "choose", "test", "save", "write"}
    /\ stage # "off" => listed \in Table
    /\ daemon # None => daemon.config \notin {None, Truncated} /\ daemon.table \in Table

\* What the wizard tested is what the daemon gets, by name instead of index and
\* in another process: at the rate of the live test a file finds the chosen unit
\* and its stream opens, as long as that unit is on the card it was tested on.
\* Whatever else was unplugged, added or renumbered before the daemon started or
\* since makes no difference, also to a device table that is out of date by now.
TestedIsPlayable ==
    daemon # None =>
        LET conf == daemon.config
        IN  conf.tested # None =>
                \A k \in Kind, c \in Cards :
                    (\A t \in {conf.table, daemon.table, plugged} : t[c] = conf.chosen[k])
                        => {e.unit : e \in Opens(k, conf.tested)} = {conf.chosen[k]}

\* "Use the same device for input": whoever told the wizard so plays and records
\* on one unit, so that one clock and one reported latency go for both.  Nothing
\* stores that answer, only the same name twice, and each is searched by itself
\* among the devices of its kind.  It holds for the unit that is meant and for
\* any that took its card, before or under the daemon.
SameDeviceIsOneUnit ==
    stream # None =>
        LET conf == daemon.config
        IN  conf.table # None /\ conf.chosen.input = conf.chosen.output
                => stream.unit.input = stream.unit.output

\* "audio goes to the first configured playback channels, other hardware outputs
\* stay silent" (README), whatever file, rate and hardware: mapped to the
\* configured count first, padded to the hardware's second, which is never less.
SpeakersGetFile ==
    stream # None =>
        LET wanted == daemon.config.channels.output
        IN  /\ Len(stream.plays) >= wanted
            /\ \A k \in 1..Len(stream.plays) :
                  stream.plays[k] =
                      IF k > wanted THEN Silence
                      ELSE IF k <= stream.width THEN k ELSE stream.width

\* A label written by hand survives every renumbering: a daemon started later
\* finds the unit, unless another unit that has channels of that kind could be
\* meant as well.
LabelsSurvive ==
    daemon # None =>
        \A k \in Kind :
            LET needle == daemon.config.device[k]
                unit   == daemon.config.chosen[k]
                wanted == daemon.config.channels[k]
                card   == {c \in Cards : daemon.table[c] = unit}
            IN  /\ needle.card = NoCard
                /\ Most[unit][k] > 0 /\ Most[unit][k] >= wanted
                /\ \A u \in Units \ {unit} :
                      Most[u][k] > 0 => <<needle.label, Label[u]>> \notin Within
                => FindDevice(daemon.table, needle, k, wanted) = card

(* What the documentation says and the code does not keep *)

\* "Device names, not indices -- ALSA/PortAudio indices can shift across reboots
\* or USB reconnects" (config.example.yaml): the configured device is found as
\* long as it is plugged in and has channels of that kind.  The wizard saves its
\* name with "(hw:card,device)".
NamesSurvive ==
    daemon # None =>
        \A k \in Kind :
            (\E c \in Cards : /\ daemon.table[c] = daemon.config.chosen[k]
                              /\ Channels(daemon.table, c, k) > 0)
                => FindDevice(daemon.table, daemon.config.device[k], k, 0) # {}
===============================================================================
