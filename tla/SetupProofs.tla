------------------------------ MODULE SetupProofs ------------------------------
(***************************************************************************)
(* Proofs about Setup, for all hardware, labels, rates and files.  The     *)
(* inductive invariant keeps, of a configuration, why it was written:      *)
(* what the wizard saw when it made it, or that a label written by hand    *)
(* fits the unit that is meant.                                            *)
(***************************************************************************)
EXTENDS Setup, EndpointsProofs

Picks == [card : [Kind -> Cards] \cup {None}, channels : [Kind -> Nat] \cup {None},
          tested : Rates \cup {None}]

\* What the wizard has verified of its choices, and of its live test.
ChosenOK ==
    stage \in {"test", "save", "write"} =>
        /\ picks.card \in [Kind -> Cards] /\ picks.channels \in [Kind -> Nat]
        /\ \A k \in Kind : picks.channels[k] <= Channels(listed, picks.card[k], k)
        /\ Channels(listed, picks.card.output, "output") > 0

LiveTestOK ==
    picks.tested # None =>
        /\ stage \in {"save", "write"}
        /\ picks.channels.input > 0
        /\ \A k \in Kind : Openable(listed[picks.card[k]], k, picks.channels[k],
                                    picks.tested) # {}

\* What a configuration keeps of that.
WasChosen(conf, card) ==
    /\ \A k \in Kind : /\ conf.device[k] = Name(conf.table, card[k])
                       /\ conf.chosen[k] = conf.table[card[k]]
    /\ Channels(conf.table, card.output, "output") > 0

WasTested(conf, card) ==
    \A k \in Kind :
        /\ conf.device[k] = Name(conf.table, card[k])
        /\ conf.chosen[k] = conf.table[card[k]]
        /\ conf.channels[k] <= Channels(conf.table, card[k], k)
        /\ Channels(conf.table, card[k], k) > 0
        /\ Openable(conf.table[card[k]], k, conf.channels[k], conf.tested) # {}

ConfigOK(conf) ==
    /\ conf.channels \in [Kind -> Nat]
    /\ \A k \in Kind : conf.device[k].card = NoCard =>
          conf.chosen[k] \in Units /\ <<conf.device[k].label, Label[conf.chosen[k]]>> \in Within
    /\ conf.table # None =>
          conf.table \in Table /\ \E card \in [Kind -> Cards] : WasChosen(conf, card)
    /\ conf.tested # None =>
          conf.table \in Table /\ \E card \in [Kind -> Cards] : WasTested(conf, card)

IInv ==
    /\ TypeOK
    /\ picks \in Picks /\ (stage = "off" => picks = NoPicks)
    /\ ChosenOK
    /\ LiveTestOK
    /\ config \notin {None, Truncated} => ConfigOK(config)
    /\ daemon # None => ConfigOK(daemon.config)
    /\ stream # None => daemon # None
    /\ SpeakersGetFile
    /\ SameDeviceIsOneUnit

-------------------------------------------------------------------------------
LEMMA ChannelsNat ==
    ASSUME NEW table \in Table, NEW c \in Cards, NEW k \in Kind
    PROVE  /\ Channels(table, c, k) \in Nat
           /\ Channels(table, c, k) > 0 => table[c] \in Units
  BY EndpointsOK DEF Channels, Table

\* A name with a card number is found on that card or not at all.
LEMMA FoundOnCard ==
    ASSUME NEW table, NEW then, NEW card \in Cards, NEW k, NEW n,
           NEW c \in FindDevice(table, Name(then, card), k, n)
    PROVE  c = card
  BY EndpointsOK DEF FindDevice, FirstOf, Matches, Name

\* The full name of a unit finds it as long as it is on that card, whatever the
\* other cards are by then, and nothing else.
LEMMA NameIsFound ==
    ASSUME NEW table \in Table, NEW then, NEW c \in Cards, then[c] = table[c],
           NEW k \in Kind, NEW n \in Nat,
           Channels(table, c, k) > 0, n <= Channels(table, c, k)
    PROVE  FindDevice(table, Name(then, c), k, n) = {c}
  <1> DEFINE S == {d \in Cards : Channels(table, d, k) > 0
                                 /\ Matches(Name(then, c), Name(table, d))}
  <1>1. table[c] \in Units
    BY ChannelsNat
  <1>2. S = {c}
    <2>1. Matches(Name(then, c), Name(table, c))
      BY EndpointsOK, <1>1 DEF Matches, Name
    <2>2. ASSUME NEW d \in Cards, Matches(Name(then, c), Name(table, d))
          PROVE  d = c
      BY EndpointsOK, <2>2 DEF Matches, Name
    <2>3. QED  BY <2>1, <2>2
  <1>3. FirstOf(S, table, k, n) = {c}
    BY EndpointsOK, <1>2 DEF FirstOf
  <1>4. QED  BY <1>3 DEF FindDevice

\* A unit that was chosen for both kinds has one name, that of its card.
LEMMA OneName ==
    ASSUME NEW conf, conf.table \in Table,
           \E card \in [Kind -> Cards] : WasChosen(conf, card),
           conf.chosen["input"] = conf.chosen["output"]
    PROVE  \E card \in Cards : \A k \in Kind : conf.device[k] = Name(conf.table, card)
  <1>1. PICK card \in [Kind -> Cards] : WasChosen(conf, card)
    OBVIOUS
  <1>2. /\ card["input"] \in Cards /\ card["output"] \in Cards
        /\ conf.table[card["input"]] = conf.table[card["output"]]
        /\ Channels(conf.table, card["output"], "output") > 0
        /\ \A k \in Kind : conf.device[k] = Name(conf.table, card[k])
    BY <1>1 DEF WasChosen, Kind
  <1>3. conf.table[card["output"]] # NoUnit
    BY <1>2 DEF Channels
  <1>4. card["input"] = card["output"]
    BY <1>2, <1>3 DEF Table
  <1>5. QED  BY <1>2, <1>4 DEF Kind

\* What every output plays.
LEMMA PlaysFile ==
    ASSUME NEW w \in Nat \ {0}, NEW out \in Nat, NEW n,
           NEW i \in 1..Len(PadOutputs(MatchChannels(FileChannels(w), out), n)),
           n \in Nat
    PROVE  PadOutputs(MatchChannels(FileChannels(w), out), n)[i] =
              IF i > out THEN Silence ELSE IF i <= w THEN i ELSE w
  <1> DEFINE M == MatchChannels(FileChannels(w), out)
  <1>1. Len(FileChannels(w)) = w /\ \A j \in 1..w : FileChannels(w)[j] = j
    BY DEF FileChannels
  <1>2. /\ Len(M) = out
        /\ \A j \in 1..out : M[j] = IF j <= w THEN j ELSE w
    BY <1>1 DEF MatchChannels
  <1>3. i \in 1..n
    BY DEF PadOutputs
  <1>4. QED  BY <1>2, <1>3 DEF PadOutputs

-------------------------------------------------------------------------------
LEMMA InitOK == Init => IInv
  BY DEF Init, IInv, TypeOK, Picks, NoPicks, ChosenOK, LiveTestOK,
         SpeakersGetFile, SameDeviceIsOneUnit

\* Steps that leave the configuration and all that runs on it alone.
LEMMA DaemonKept ==
    ASSUME IInv, UNCHANGED <<config, daemon, stream>>
    PROVE  /\ config' \notin {None, Truncated} => ConfigOK(config')
           /\ daemon' # None => ConfigOK(daemon'.config)
           /\ stream' # None => daemon' # None
           /\ SpeakersGetFile' /\ SameDeviceIsOneUnit'
           /\ daemon' # None => daemon'.config \notin {None, Truncated} /\ daemon'.table \in Table
  BY DEF IInv, TypeOK, SpeakersGetFile, SameDeviceIsOneUnit

\* Steps that leave the wizard alone.
LEMMA WizardKept ==
    ASSUME IInv, UNCHANGED wizard
    PROVE  /\ picks' \in Picks /\ (stage' = "off" => picks' = NoPicks)
           /\ ChosenOK' /\ LiveTestOK'
           /\ stage' \in {"off", "choose", "test", "save", "write"}
           /\ stage' # "off" => listed' \in Table
  BY DEF IInv, TypeOK, wizard, ChosenOK, LiveTestOK

LEMMA ChooseStep ==
    ASSUME IInv, NEW cards \in [Kind -> Cards], NEW counts \in [Kind -> Answers],
           Choose(cards, counts)
    PROVE  IInv'
  <1>0. TypeOK /\ picks \in Picks /\ ChosenOK /\ LiveTestOK
    BY DEF IInv
  <1>1. /\ stage = "choose" /\ stage' = "test"
        /\ picks' = [card |-> cards, channels |-> counts, tested |-> None]
        /\ UNCHANGED <<plugged, listed, config, daemon, stream>>
    BY DEF Choose, Proceed
  <1>2. counts \in [Kind -> Nat]
    BY SetupOK, Zenon
  <1>3. picks' \in Picks
    BY <1>1, <1>2 DEF Picks
  <1>4. ChosenOK'
    <2>1. \A k \in Kind : counts[k] <= Channels(listed, cards[k], k)
      BY DEF Choose
    <2>2. Channels(listed, cards.output, "output") > 0
      BY DEF Choose
    <2>3. QED  BY <1>1, <1>2, <2>1, <2>2 DEF ChosenOK
  <1>5. TypeOK' /\ LiveTestOK'
    BY <1>0, <1>1, DaemonKept DEF TypeOK, LiveTestOK
  <1>6. QED  BY <1>1, <1>3, <1>4, <1>5, DaemonKept DEF IInv

LEMMA WizardStep ==
    ASSUME IInv,
           \/ ListDevices
           \/ Quit
           \/ \E card \in [Kind -> Cards], channels \in [Kind -> Answers] : Choose(card, channels)
           \/ \E rate \in Rates : LiveTest(rate)
           \/ SkipTest
    PROVE  IInv'
  <1>0. TypeOK /\ picks \in Picks /\ ChosenOK /\ LiveTestOK
        /\ (stage = "off" => picks = NoPicks)
    BY DEF IInv
  <1>1. CASE ListDevices
    BY <1>0, <1>1, DaemonKept DEF ListDevices, Proceed, IInv, TypeOK, Picks, NoPicks, ChosenOK,
       LiveTestOK
  <1>2. CASE Quit
    BY <1>0, <1>2, DaemonKept DEF Quit, IInv, TypeOK, Picks, NoPicks, ChosenOK,
       LiveTestOK
  <1>3. ASSUME NEW cards \in [Kind -> Cards], NEW counts \in [Kind -> Answers],
               Choose(cards, counts)
        PROVE  IInv'
    BY <1>3, ChooseStep
  <1>4. ASSUME NEW rate \in Rates, LiveTest(rate)
        PROVE  IInv'
    <2>1. /\ stage = "test" /\ stage' = "save"
          /\ picks' = [picks EXCEPT !.tested = IF plugged = listed THEN rate ELSE None]
          /\ UNCHANGED <<plugged, listed, config, daemon, stream>>
          /\ picks.tested = None /\ picks.channels.input > 0
      BY <1>0, <1>4 DEF LiveTest, Proceed, LiveTestOK
    <2>2. /\ picks'.card = picks.card /\ picks'.channels = picks.channels
          /\ picks'.tested = (IF plugged = listed THEN rate ELSE None)
          /\ picks' \in Picks
      BY <1>0, <2>1 DEF Picks
    <2>3. LiveTestOK'
      BY <1>4, <2>1, <2>2 DEF LiveTest, LiveTestOK
    <2>4. TypeOK' /\ ChosenOK'
      BY <1>0, <2>1, <2>2, DaemonKept DEF TypeOK, ChosenOK
    <2>5. QED  BY <2>1, <2>2, <2>3, <2>4, DaemonKept DEF IInv
  <1>5. CASE SkipTest
    BY <1>0, <1>5, DaemonKept DEF SkipTest, Proceed, IInv, TypeOK, ChosenOK, LiveTestOK
  <1>6. QED  BY <1>1, <1>2, <1>3, <1>4, <1>5

\* Steps that write the configuration.
LEMMA ConfigStep ==
    ASSUME IInv,
           \/ Truncate
           \/ WriteConfig
           \/ \E unit \in [Kind -> Units], label \in [Kind -> {Label[u] : u \in Units}],
                 channels \in [Kind -> Answers] : EditConfig(unit, label, channels)
    PROVE  IInv'
  <1>0. TypeOK /\ picks \in Picks /\ ChosenOK /\ LiveTestOK
        /\ (stage = "off" => picks = NoPicks)
    BY DEF IInv
  <1>1. ASSUME UNCHANGED <<daemon, stream>>
        PROVE  /\ daemon' # None => ConfigOK(daemon'.config)
               /\ stream' # None => daemon' # None
               /\ SpeakersGetFile' /\ SameDeviceIsOneUnit'
               /\ daemon' # None => daemon'.config \notin {None, Truncated} /\ daemon'.table \in Table
    BY <1>1 DEF IInv, TypeOK, SpeakersGetFile, SameDeviceIsOneUnit
  <1>2. CASE Truncate
    BY <1>0, <1>1, <1>2 DEF Truncate, Proceed, IInv, TypeOK, ChosenOK, LiveTestOK
  <1>3. CASE WriteConfig
    <2>1. /\ stage = "write" /\ stage' = "off" /\ picks' = NoPicks
          /\ UNCHANGED <<plugged, daemon, stream>>
      BY <1>3 DEF WriteConfig, Proceed
    <2>2. /\ config'.device = [k \in Kind |-> Name(listed, picks.card[k])]
          /\ config'.channels = picks.channels
          /\ config'.chosen = [k \in Kind |-> listed[picks.card[k]]]
          /\ config'.tested = picks.tested
          /\ config'.table = listed
      BY <1>3 DEF WriteConfig
    <2>3. /\ listed \in Table
          /\ picks.card \in [Kind -> Cards] /\ picks.channels \in [Kind -> Nat]
          /\ \A k \in Kind : picks.channels[k] <= Channels(listed, picks.card[k], k)
          /\ Channels(listed, picks.card.output, "output") > 0
      BY <1>0, <2>1 DEF TypeOK, ChosenOK
    <2>4. ASSUME picks.tested # None
          PROVE  WasTested(config', picks.card)
      <3>1. \A k \in Kind : Channels(listed, picks.card[k], k) > 0
        <4>1. picks.channels.input > 0
          BY <1>0, <2>4 DEF LiveTestOK
        <4>2. Channels(listed, picks.card["input"], "input") > 0
          <5> DEFINE n == Channels(listed, picks.card["input"], "input")
          <5>1. "input" \in Kind /\ picks.card["input"] \in Cards
            BY <2>3 DEF Kind
          <5>2. n \in Nat /\ picks.channels["input"] <= n /\ picks.channels["input"] \in Nat
            BY <2>3, <5>1, ChannelsNat
          <5>3. QED  BY <4>1, <5>2
        <4>3. QED  BY <2>3, <4>2 DEF Kind
      <3>2. \A k \in Kind : Openable(listed[picks.card[k]], k, picks.channels[k], picks.tested) # {}
        BY <1>0, <2>4 DEF LiveTestOK
      <3>3. QED  BY <2>2, <2>3, <3>1, <3>2 DEF WasTested
    <2>5. ConfigOK(config')
      <3>1. \A k \in Kind : config'.device[k].card # NoCard
        BY EndpointsOK, <2>2, <2>3 DEF Name
      <3>2. WasChosen(config', picks.card)
        BY <2>2, <2>3 DEF WasChosen
      <3>3. QED  BY <2>2, <2>3, <2>4, <3>1, <3>2 DEF ConfigOK
    <2>6. TypeOK' /\ picks' \in Picks /\ ChosenOK' /\ LiveTestOK'
      BY <1>0, <1>1, <2>1 DEF TypeOK, Picks, NoPicks, ChosenOK, LiveTestOK
    <2>7. QED  BY <1>1, <2>1, <2>5, <2>6 DEF IInv
  <1>4. ASSUME NEW unit \in [Kind -> Units], NEW label \in [Kind -> {Label[u] : u \in Units}],
               NEW channels \in [Kind -> Answers], EditConfig(unit, label, channels)
        PROVE  IInv'
    <2>1. UNCHANGED <<plugged, wizard, daemon, stream>>
      BY <1>4 DEF EditConfig
    <2>2. ConfigOK(config')
      BY EndpointsOK, SetupOK, <1>4 DEF EditConfig, ConfigOK
    <2>3. TypeOK'
      BY <1>0, <1>1, <2>1, WizardKept DEF TypeOK
    <2>4. QED  BY <1>1, <2>1, <2>2, <2>3, WizardKept DEF IInv
  <1>5. QED  BY <1>2, <1>3, <1>4

\* Steps of the hardware and of the daemon.
LEMMA DaemonStep ==
    ASSUME IInv,
           \/ Replug
           \/ Start
           \/ Stop
           \/ \E rate \in Rates, width \in Widths : PlayFile(rate, width)
    PROVE  IInv'
  <1>0. TypeOK /\ (config \notin {None, Truncated} => ConfigOK(config))
        /\ (daemon # None => ConfigOK(daemon.config)) /\ (stream # None => daemon # None)
    BY DEF IInv
  <1>1. CASE Replug
    BY <1>0, <1>1, DaemonKept, WizardKept DEF Replug, IInv, TypeOK
  <1>2. CASE Start
    <2>1. /\ daemon = None /\ stream = None /\ config \notin {None, Truncated}
          /\ daemon'.config = config /\ daemon'.table = plugged
          /\ UNCHANGED <<plugged, wizard, config, stream>>
      BY <1>0, <1>2 DEF Start, Loads
    <2>2. SpeakersGetFile' /\ SameDeviceIsOneUnit'
      BY <2>1 DEF SpeakersGetFile, SameDeviceIsOneUnit
    <2>3. TypeOK'
      BY <1>0, <2>1, WizardKept DEF TypeOK
    <2>4. QED  BY <1>0, <2>1, <2>2, <2>3, WizardKept DEF IInv
  <1>3. CASE Stop
    <2>1. /\ daemon' = None /\ stream' = None
          /\ UNCHANGED <<plugged, wizard, config>>
      BY <1>3 DEF Stop
    <2>2. QED
      BY <1>0, <2>1, WizardKept DEF IInv, TypeOK, SpeakersGetFile, SameDeviceIsOneUnit
  <1>4. ASSUME NEW rate \in Rates, NEW width \in Widths, PlayFile(rate, width)
        PROVE  IInv'
    <2>1. daemon # None /\ UNCHANGED <<plugged, wizard, config, daemon>>
      BY <1>4 DEF PlayFile
    <2>2. SpeakersGetFile' /\ SameDeviceIsOneUnit'
      <3>1. CASE stream' = None
        BY <3>1 DEF SpeakersGetFile, SameDeviceIsOneUnit
      <3>2. CASE stream' # None
        <4>1. PICK out \in Opens("output", rate), in \in Opens("input", rate) :
                 stream' = [unit  |-> [output |-> out.unit, input |-> in.unit],
                            width |-> width,
                            plays |-> PadOutputs(
                                        MatchChannels(FileChannels(width),
                                                      daemon.config.channels.output),
                                        out.channels)]
          BY <1>4, <3>2 DEF PlayFile
        <4>2. ASSUME NEW k \in Kind, NEW e \in Opens(k, rate)
              PROVE  /\ e.channels \in Nat
                     /\ e.channels >= daemon.config.channels[k]
                     /\ \E c \in FindDevice(daemon.table, daemon.config.device[k], k,
                                            daemon.config.channels[k]) : e.unit = plugged[c]
          <5>1. PICK c \in FindDevice(daemon.table, daemon.config.device[k], k,
                                      daemon.config.channels[k]) :
                   e \in {[unit |-> plugged[c], channels |-> n] :
                             n \in Openable(plugged[c], k, daemon.config.channels[k], rate)}
            BY DEF Opens
          <5>2. PICK n \in Openable(plugged[c], k, daemon.config.channels[k], rate) :
                   e = [unit |-> plugged[c], channels |-> n]
            BY <5>1
          <5>3. n \in Nat /\ n >= daemon.config.channels[k]
            <6>1. /\ plugged[c] \in Units
                  /\ n \in ResolveEndpoint(plugged[c], k, daemon.config.channels[k],
                                            rate)
              BY EndpointsOK DEF Openable, Accepts
            <6>2. daemon.config.channels[k] \in Nat
              BY <1>0, <2>1 DEF ConfigOK
            <6>3. QED  BY <6>1, <6>2, OneEndpoint
          <5>4. QED  BY <5>2, <5>3
        <4>3. SpeakersGetFile'
          <5>1. daemon.config.channels.output \in Nat
            BY <1>0, <2>1 DEF ConfigOK, Kind
          <5>2. /\ out.channels \in Nat /\ width \in Nat \ {0}
                /\ out.channels >= daemon.config.channels.output
            BY <4>2, SetupOK DEF Kind
          <5>3. Len(stream'.plays) = out.channels
            BY <4>1, <5>2 DEF PadOutputs
          <5>4. QED
            BY <2>1, <4>1, <5>1, <5>2, <5>3, PlaysFile DEF SpeakersGetFile
        <4>4. SameDeviceIsOneUnit'
          <5> SUFFICES ASSUME daemon.config.table # None,
                              daemon.config.chosen["input"] = daemon.config.chosen["output"]
                       PROVE  stream'.unit["input"] = stream'.unit["output"]
            BY <2>1 DEF SameDeviceIsOneUnit
          <5>1. PICK c \in FindDevice(daemon.table, daemon.config.device["input"], "input",
                                      daemon.config.channels["input"]) :
                   in.unit = plugged[c]
            BY <4>2 DEF Kind
          <5>2. PICK d \in FindDevice(daemon.table, daemon.config.device["output"], "output",
                                      daemon.config.channels["output"]) :
                   out.unit = plugged[d]
            BY <4>2 DEF Kind
          <5>3. PICK card \in Cards :
                   \A k \in Kind : daemon.config.device[k] = Name(daemon.config.table, card)
            <6>1. /\ daemon.config.table \in Table
                  /\ \E card \in [Kind -> Cards] : WasChosen(daemon.config, card)
              BY <1>0, <2>1 DEF ConfigOK
            <6>2. QED  BY <6>1, OneName
          <5>4. c = card
            BY <5>3, FoundOnCard DEF Kind
          <5>5. d = card
            BY <5>3, FoundOnCard DEF Kind
          <5>6. QED  BY <4>1, <5>1, <5>2, <5>4, <5>5
        <4>5. QED  BY <4>3, <4>4
      <3>3. QED  BY <3>1, <3>2
    <2>3. TypeOK'
      BY <1>0, <2>1, WizardKept DEF TypeOK
    <2>4. QED  BY <1>0, <2>1, <2>2, <2>3, WizardKept DEF IInv
  <1>5. QED  BY <1>1, <1>2, <1>3, <1>4

LEMMA StepOK == IInv /\ [Next]_vars => IInv'
  <1>1. ASSUME IInv, UNCHANGED vars
        PROVE  IInv'
    BY <1>1, DaemonKept, WizardKept DEF vars, IInv, TypeOK
  <1>2. ASSUME IInv, Next
        PROVE  IInv'
    BY <1>2, WizardStep, ConfigStep, DaemonStep DEF Next
  <1>3. QED  BY <1>1, <1>2

LEMMA Inductive == Spec => []IInv
  BY InitOK, StepOK, PTL DEF Spec

-------------------------------------------------------------------------------
\* A daemon runs on a whole configuration, whenever the wizard is killed.
THEOREM TypeCorrect == Spec => []TypeOK
  <1>1. IInv => TypeOK
    BY DEF IInv
  <1>2. QED  BY <1>1, Inductive, PTL

\* On any hardware and for any file the configured outputs play the file and
\* the others nothing.
THEOREM OutputsPlayFile == Spec => []SpeakersGetFile
  <1>1. IInv => SpeakersGetFile
    BY DEF IInv
  <1>2. QED  BY <1>1, Inductive, PTL

\* A device that was chosen for both kinds is opened as one unit, for any hardware
\* and any renumbering, a live test or not.
THEOREM OneUnitForBoth == Spec => []SameDeviceIsOneUnit
  <1>1. IInv => SameDeviceIsOneUnit
    BY DEF IInv
  <1>2. QED  BY <1>1, Inductive, PTL

\* What passed the live test is opened by the daemon, as long as the unit is on
\* its card, whatever happened to the others before and after the daemon started.
THEOREM TestHoldsForDaemon == Spec => []TestedIsPlayable
  <1>1. ASSUME IInv, daemon # None, daemon.config.tested # None,
               NEW k \in Kind, NEW c \in Cards,
               daemon.config.table[c] = daemon.config.chosen[k],
               daemon.table[c] = daemon.config.chosen[k],
               plugged[c] = daemon.config.chosen[k]
        PROVE  {e.unit : e \in Opens(k, daemon.config.tested)} = {daemon.config.chosen[k]}
    <2> DEFINE conf == daemon.config
    <2>1. daemon.table \in Table /\ conf.table \in Table /\ conf.channels[k] \in Nat
      BY <1>1 DEF IInv, TypeOK, ConfigOK
    <2>2. PICK card \in [Kind -> Cards] : WasTested(conf, card)
      BY <1>1 DEF IInv, ConfigOK
    <2>3. /\ conf.device[k] = Name(conf.table, card[k])
          /\ conf.chosen[k] = conf.table[card[k]]
          /\ conf.channels[k] <= Channels(conf.table, card[k], k)
          /\ Channels(conf.table, card[k], k) > 0
          /\ Openable(conf.chosen[k], k, conf.channels[k], conf.tested) # {}
      BY <2>2 DEF WasTested
    <2>4. conf.chosen[k] # NoUnit
      BY <2>3 DEF Channels
    <2>5. c = card[k]
      BY <1>1, <2>1, <2>3, <2>4 DEF Table
    <2>6. Channels(daemon.table, c, k) = Channels(conf.table, c, k)
      BY <1>1 DEF Channels
    <2>7. FindDevice(daemon.table, conf.device[k], k, conf.channels[k]) = {c}
      BY <1>1, <2>1, <2>3, <2>5, <2>6, NameIsFound
    <2>8. Opens(k, conf.tested) =
             {[unit |-> conf.chosen[k], channels |-> n] :
                 n \in Openable(conf.chosen[k], k, conf.channels[k], conf.tested)}
      BY <1>1, <2>7 DEF Opens
    <2>9. \A e \in Opens(k, conf.tested) : e.unit = conf.chosen[k]
      BY <2>8
    <2>10. Opens(k, conf.tested) # {}
      BY <2>3, <2>8
    <2>11. QED  BY <2>9, <2>10
  <1>2. IInv => TestedIsPlayable
    BY <1>1 DEF TestedIsPlayable
  <1>3. QED  BY <1>2, Inductive, PTL

\* A label that fits one unit only finds it on whatever card it is.
THEOREM LabelsFindUnits == Spec => []LabelsSurvive
  <1>1. ASSUME IInv, daemon # None, NEW k \in Kind,
               NEW needle, needle = daemon.config.device[k],
               NEW unit, unit = daemon.config.chosen[k],
               NEW wanted, wanted = daemon.config.channels[k],
               needle.card = NoCard, Most[unit][k] > 0, Most[unit][k] >= wanted,
               \A u \in Units \ {unit} : Most[u][k] > 0 => <<needle.label, Label[u]>> \notin Within
        PROVE  FindDevice(daemon.table, needle, k, wanted)
                  = {c \in Cards : daemon.table[c] = unit}
    <2> DEFINE table == daemon.table
               S == {c \in Cards : Channels(table, c, k) > 0 /\ Matches(needle, Name(table, c))}
    <2>1. /\ table \in Table /\ unit \in Units /\ unit # NoUnit
          /\ <<needle.label, Label[unit]>> \in Within
      BY <1>1, EndpointsOK DEF IInv, TypeOK, ConfigOK
    <2>2. ASSUME NEW c \in Cards
          PROVE  c \in S <=> table[c] = unit
      <3>1. CASE table[c] = unit
        BY <1>1, <2>1, <3>1 DEF Channels, Matches, Name
      <3>2. CASE table[c] # unit
        <4>1. ASSUME c \in S
              PROVE  FALSE
          <5>1. table[c] \in Units /\ Most[table[c]][k] > 0
            BY <2>1, <4>1, ChannelsNat DEF Channels
          <5>2. <<needle.label, Label[table[c]]>> \in Within
            BY <4>1 DEF Matches, Name
          <5>3. QED  BY <1>1, <3>2, <5>1, <5>2
        <4>2. QED  BY <3>2, <4>1
      <3>3. QED  BY <3>1, <3>2
    <2>3. \A c, d \in S : c = d
      BY <2>1, <2>2 DEF Table
    <2>4. \A c \in S : Channels(table, c, k) >= wanted
      BY <1>1, <2>1, <2>2 DEF Channels
    <2>5. FirstOf(S, table, k, wanted) = S
      <3>1. \A c, d \in S : c <= d
        BY <2>3, EndpointsOK
      <3> HIDE DEF S
      <3>2. QED  BY <2>4, <3>1 DEF FirstOf
    <2>6. QED  BY <2>2, <2>5 DEF FindDevice
  <1>2. IInv => LabelsSurvive
    BY <1>1 DEF LabelsSurvive
  <1>3. QED  BY <1>2, Inductive, PTL
===============================================================================
