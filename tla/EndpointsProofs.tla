---------------------------- MODULE EndpointsProofs ----------------------------
(***************************************************************************)
(* Proofs about the choice of audio hardware, for every device table, name,*)
(* kind, rate and channel count.  Endpoints gives what may raise as a set  *)
(* of results; here is that there is at most one, and exactly when there   *)
(* is one.                                                                 *)
(***************************************************************************)
EXTENDS Endpoints, WellFoundedInduction, TLAPS

-------------------------------------------------------------------------------
\* A set of naturals that is not empty has a least element.
LEMMA LeastNat ==
    ASSUME NEW S \in SUBSET Nat, S # {}
    PROVE  \E n \in S : \A m \in S : n <= m
<1> DEFINE Less == {p \in Nat \X Nat : p[1] < p[2]}
<1>1. IsWellFoundedOn(Less, Nat)
    BY Zenon, NatLessThanWellFounded DEF OpToRel
<1> HIDE DEF Less
<1>2. PICK n \in S : \A m \in S : ~(<<m, n>> \in Less)
    BY <1>1, WFMin
<1>3. \A a, b \in Nat : a < b => <<a, b>> \in Less
    BY DEF Less
<1>4. \A m \in S : ~(m < n)
    BY <1>2, <1>3
<1>5. QED
    BY <1>4

-------------------------------------------------------------------------------
(* find_device *)

\* The cards whose device has the name and channels of the kind.
Candidates(table, needle, kind) ==
    {c \in Cards : /\ Channels(table, c, kind) > 0
                   /\ Matches(needle, Name(table, c))}

\* A search fails for two reasons only, those of the two AudioDeviceErrors: no
\* device with channels of that kind has the name, or the first of them has too
\* few channels, whatever the ones behind it have.
THEOREM SearchFailsForCause ==
    ASSUME NEW table, NEW needle, NEW kind \in Kind, NEW required \in Nat,
           FindDevice(table, needle, kind, required) = {}
    PROVE  \/ Candidates(table, needle, kind) = {}
           \/ \E c \in Candidates(table, needle, kind) :
                 /\ \A d \in Candidates(table, needle, kind) : c <= d
                 /\ ~(Channels(table, c, kind) >= required)
<1> DEFINE S == Candidates(table, needle, kind)
<1>1. FindDevice(table, needle, kind, required)
          = FirstOf(S, table, kind, required)
    BY DEF FindDevice, Candidates
<1>2. S \in SUBSET Nat
    BY EndpointsOK DEF Candidates
<1> HIDE DEF S
<1>3. CASE S # {}
    <2>1. PICK c \in S : \A d \in S : c <= d
        BY <1>2, <1>3, LeastNat
    <2>2. ~(Channels(table, c, kind) >= required)
        BY <1>1, <2>1 DEF FirstOf
    <2>3. QED
        BY <2>1, <2>2 DEF S
<1>4. QED
    BY <1>3 DEF S

\* "Device names, not indices": a name that the wizard saved, with the card
\* number in it, finds nothing once its device is another card and nothing of
\* that label has taken its place.
THEOREM SavedNamesAreLost ==
    ASSUME NEW then, NEW now, NEW c \in Cards, NEW kind, NEW required,
           \/ Channels(now, c, kind) = 0
           \/ <<Label[then[c]], Label[now[c]]>> \notin Within
    PROVE  FindDevice(now, Name(then, c), kind, required) = {}
<1> SUFFICES ASSUME NEW d \in FindDevice(now, Name(then, c), kind, required)
             PROVE  FALSE
    OBVIOUS
<1>1. d \in Cards /\ d = c
    BY EndpointsOK DEF FindDevice, FirstOf, Matches, Name
<1>2. QED
    BY <1>1 DEF FindDevice, FirstOf, Matches, Name

-------------------------------------------------------------------------------
(* resolve_endpoint *)

\* The counts of a stream file are counts.
LEMMA CountsAreNat ==
    ASSUME NEW u \in Usb, NEW kind, NEW rate
    PROVE  ChannelCounts(u, kind, rate) \in SUBSET Nat
BY EndpointsOK DEF ChannelCounts

\* There is at most one count to open with, and it leaves no logical channel
\* without hardware: _pad_outputs is never asked to take one away.
THEOREM OneEndpoint ==
    ASSUME NEW u \in Units, NEW kind \in Kind, NEW wanted \in Nat, NEW rate,
           NEW m \in ResolveEndpoint(u, kind, wanted, rate),
           NEW n \in ResolveEndpoint(u, kind, wanted, rate)
    PROVE  m = n /\ n \in Nat /\ n >= wanted
<1>1. CASE u \in Usb
    <2>1. /\ m \in Nat /\ n \in Nat
          /\ m <= n /\ n <= m /\ n >= wanted
        BY <1>1, CountsAreNat DEF ResolveEndpoint
    <2>2. QED
        BY <2>1
<1>2. CASE u \notin Usb
    BY <1>2 DEF ResolveEndpoint
<1>3. QED
    BY <1>1, <1>2

\* What is resolved is what raw hardware accepts: a device opens exactly if it
\* offers that many channels or more at that rate, or, without a stream file,
\* has as many.  No larger count of another alternate setting is taken for it.
THEOREM ResolvedOpens ==
    ASSUME NEW u \in Units, NEW kind \in Kind, NEW wanted \in Nat, NEW rate
    PROVE  Openable(u, kind, wanted, rate) # {} <=>
               IF u \in Usb
               THEN \E n \in ChannelCounts(u, kind, rate) : n >= wanted
               ELSE wanted \in 1..Most[u][kind]
<1>1. CASE u \in Usb
    <2> DEFINE valid == {n \in ChannelCounts(u, kind, rate) : n >= wanted}
    <2>1. /\ valid \in SUBSET Nat
          /\ ResolveEndpoint(u, kind, wanted, rate)
                 = {n \in valid : \A m \in valid : n <= m}
        BY <1>1, CountsAreNat DEF ResolveEndpoint
    <2>2. \A n \in valid : Accepts(u, kind, n, rate)
        BY <1>1 DEF Accepts
    <2>3. valid # {} <=> \E n \in ChannelCounts(u, kind, rate) : n >= wanted
        OBVIOUS
    <2> HIDE DEF valid
    <2>4. valid # {} => Openable(u, kind, wanted, rate) # {}
        BY <2>1, <2>2, LeastNat DEF Openable
    <2>5. Openable(u, kind, wanted, rate) # {} => valid # {}
        BY <2>1 DEF Openable
    <2>6. QED
        BY <1>1, <2>3, <2>4, <2>5
<1>2. CASE u \notin Usb
    BY <1>2 DEF Openable, ResolveEndpoint, Accepts
<1>3. QED
    BY <1>1, <1>2

-------------------------------------------------------------------------------
(* _match_channels, _pad_outputs *)

\* What is handed to the stream has exactly the channels it was opened with, and
\* each configured channel is in it: the two steps never disagree on a width.
THEOREM StreamIsFilled ==
    ASSUME NEW u \in Units, NEW wanted \in Nat, NEW rate,
           NEW n \in ResolveEndpoint(u, "output", wanted, rate),
           NEW file \in Seq(Nat)
    PROVE  LET mapped == MatchChannels(file, wanted)
               sound  == PadOutputs(mapped, n)
           IN  /\ Len(mapped) = wanted /\ Len(sound) = n
               /\ \A k \in 1..wanted : sound[k] = mapped[k]
               /\ \A k \in (wanted + 1)..n : sound[k] = Silence
<1>1. n \in Nat /\ n >= wanted
    BY OneEndpoint DEF Kind
<1>2. Len(MatchChannels(file, wanted)) = wanted
    BY DEF MatchChannels
<1>3. Len(PadOutputs(MatchChannels(file, wanted), n)) = n
    BY <1>1 DEF PadOutputs
<1>4. QED
    BY <1>1, <1>2, <1>3 DEF PadOutputs
================================================================================
