-------------------------- MODULE MCPreRecognition --------------------------
(* A deployment with names of several words, one inside another, a name    *)
(* two candidates share, and three more processors.                        *)
EXTENDS PreRecognition

CONSTANTS vib1, vib2, seg, peak, rms, freq, time

MCCandidates == {vib1, vib2, seg, peak, rms, freq, time}

MCKind == [c \in MCCandidates |-> CASE c \in {vib1, vib2} -> "sensor"
                                    [] c = seg -> "test_segment"
                                    [] c \in {peak, rms} -> "indicator"
                                    [] OTHER -> "data_type"]

MCValueOf == [c \in MCCandidates |-> CASE c = vib1 -> <<"V1">> [] c = vib2 -> <<"V2">>
                                       [] c = seg -> <<"S">> [] c = peak -> <<"P", "K">>
                                       [] c = rms -> <<"RMS">>
                                       [] c = freq -> <<"FS">> [] OTHER -> <<"TD">>]

\* vib2 and seg share an alias; the short name of vib1 is inside the long one.
MCAliases == [c \in MCCandidates |-> CASE c = vib1 -> {<<"seat">>, <<"seat", "rail">>}
                                       [] c = vib2 -> {<<"rear">>}
                                       [] c = seg -> {<<"rear">>, <<"S">>}
                                       [] c = peak -> {<<"max">>}
                                       [] c = freq -> {<<"spectrum">>}
                                       [] OTHER -> {}]

MCMeta == [c \in {peak, rms} |->
              [k \in Scopes |-> IF k # "data_type" THEN {}
                                ELSE IF c = peak THEN {freq} ELSE {freq, time}]]

Shelf == [k \in ToSet(Kinds) |-> {}]

Proc(i, n, p, s, f, t, c) ==
    [id |-> i, rank |-> n, priority |-> p, stage |-> s, from |-> f, to |-> t, catalog |-> c]

MCProcessors ==
    { Proc("observation", 2, 50, "domain", <<>>, <<>>, NoCatalog),
      Proc("glossary", 1, 100, "global", <<"hum">>, <<"V1">>, NoCatalog),
      Proc("shelf", 3, 50, "domain", <<"all">>, <<"all">>, Shelf),
      Proc("polite", 4, 60, "domain", <<"all">>, <<"show">>, NoCatalog) }

\* What the theorems suppose of the names holds of these.
ASSUME NamesAreTold == ValuesApart /\ \A c \in Candidates : Legible(c)
=============================================================================
