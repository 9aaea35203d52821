SPECIFICATION Spec
CONSTANTS
    interface = interface
    onboard = onboard
    NoUnit = NoUnit
    NoCard = NoCard
    None = None
    Truncated = Truncated
    Units <- MCUnits
    Cards <- MCCards
    Label <- MCLabel
    Within <- MCWithin
    Most <- MCMost
    Usb <- MCUsb
    Altsets <- MCAltsets
    Rates <- MCRates
    Widths <- MCWidths
    Answers <- MCAnswers
CONSTRAINT OneSetupAtATime
INVARIANTS
    TypeOK
    TestedIsPlayable
    SameDeviceIsOneUnit
    SpeakersGetFile
    LabelsSurvive
