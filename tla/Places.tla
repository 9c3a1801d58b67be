------------------------------- MODULE Places -------------------------------
(***************************************************************************)
(* Locations (packages/shared/src/location.ts): a location text is parsed  *)
(* into a city, a region, a country and whether it is remote.              *)
(*                                                                         *)
(* A text is the sequence of its segments between commas, slashes and      *)
(* bars, each in lower case and without surplus blanks.  A segment that    *)
(* holds a remote hint among other words is not modelled.                  *)
(***************************************************************************)
EXTENDS Naturals, Sequences, TLC

LOCAL Seqs == INSTANCE SequencesExt

NoPart == ""

\* The tables: each of a name's spellings to its code.
AuRegions ==
    [s \in {"nsw", "new south wales"} |-> "NSW"] @@ [s \in {"vic", "victoria"} |-> "VIC"] @@
    [s \in {"qld", "queensland"} |-> "QLD"] @@ [s \in {"wa", "western australia"} |-> "WA"] @@
    [s \in {"sa", "south australia"} |-> "SA"] @@ [s \in {"tas", "tasmania"} |-> "TAS"] @@
    [s \in {"act", "australian capital territory"} |-> "ACT"] @@
    [s \in {"nt", "northern territory"} |-> "NT"]

AuCities ==
    [s \in {"sydney", "newcastle", "wollongong", "central coast"} |-> "NSW"] @@
    [s \in {"melbourne", "geelong", "ballarat"} |-> "VIC"] @@
    [s \in {"brisbane", "gold coast", "sunshine coast", "cairns", "townsville"} |-> "QLD"] @@
    ("perth" :> "WA") @@ ("adelaide" :> "SA") @@
    [s \in {"hobart", "launceston"} |-> "TAS"] @@ ("canberra" :> "ACT") @@ ("darwin" :> "NT")

Countries ==
    [s \in {"australia", "au", "aus"} |-> "AU"] @@
    [s \in {"united states", "united states of america", "usa", "us"} |-> "US"] @@
    [s \in {"united kingdom", "uk", "great britain", "england"} |-> "GB"] @@
    [s \in {"new zealand", "nz"} |-> "NZ"] @@ [s \in {"singapore", "sg"} |-> "SG"] @@
    ("india" :> "IN") @@ ("canada" :> "CA") @@ ("ireland" :> "IE") @@ ("germany" :> "DE") @@
    [s \in {"united arab emirates", "uae"} |-> "AE"]

RemoteHints == {"remote", "anywhere", "work from home", "wfh", "distributed"}

\* A segment that is a hint makes the text remote and is no part of the place.
LooksRemote(text) == \E i \in DOMAIN text : text[i] \in RemoteHints

Segments(text) == SelectSeq(text, LAMBDA s : s \notin RemoteHints)

Either(part, default) == IF part = NoPart THEN default ELSE part

\* What one segment adds to what the ones before it said: the tables are tried in
\* this order, each only while its part is open, and a segment that is none of
\* these becomes the city while there is none.
AddSegment(place, s) ==
    IF place.country = NoPart /\ s \in DOMAIN Countries
    THEN [place EXCEPT !.country = Countries[s]]
    ELSE IF place.region = NoPart /\ s \in DOMAIN AuRegions
    THEN [place EXCEPT !.region = AuRegions[s], !.country = Either(@, "AU")]
    ELSE IF place.city # NoPart
    THEN place
    ELSE IF s \in DOMAIN AuCities
    THEN [place EXCEPT !.city = s, !.region = Either(@, AuCities[s]),
                       !.country = Either(@, "AU")]
    ELSE [place EXCEPT !.city = s]

NoPlace == [city |-> NoPart, region |-> NoPart, country |-> NoPart]

ParseLocation(text, remoteOverride) ==
    [place  |-> Seqs!FoldLeft(AddSegment, NoPlace, Segments(text)),
     remote |-> remoteOverride \/ LooksRemote(text)]

\* city|region|country|remote of the first location; remote or nothing without one.
LocationKey(locations, isRemote) ==
    IF locations = <<>> THEN <<NoPlace, isRemote>>
    ELSE <<locations[1].place, locations[1].remote \/ isRemote>>
=============================================================================
