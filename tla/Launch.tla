------------------------------- MODULE Launch -------------------------------
(***************************************************************************)
(* How a Core comes by its options: from the window, with its settings     *)
(* (Preferences), or from somebody at a console, with any command line     *)
(* (core/options.cpp).  The two never meet: a line is being typed, phrase   *)
(* by phrase, or the window is used.                                       *)
(***************************************************************************)
EXTENDS Preferences

CONSTANT MaxPhrases     \* bound: phrases in a line

VARIABLE line           \* the phrases typed at the console
launchVars == <<prefs, line>>

\* Numbers in a line: usual ones, the longest release, and the first ones beyond a limit
Port == 49741
HalfLouder == 150000
Fifth == 20000
LongestRelease == 5000
TooManySeconds == 3601
TooLongHold == 1001

\* A phrase: an option with its operands, what it is meant to set, and whether it is wrong.
Phrase(tokens, sets) == [tokens |-> tokens, sets |-> sets, wrong |-> FALSE]
Wrong(tokens) == [tokens |-> tokens, sets |-> <<>>, wrong |-> TRUE]
SettingPhrases == {
    Phrase(<<Opt("--test-seconds"), Num(30)>>, [seconds |-> 30]),
    Phrase(<<Opt("--input-gain"), Dec(HalfLouder)>>, [inputGain |-> HalfLouder]),
    Phrase(<<Joined("--input-gain", Num(8))>>, [inputGain |-> 8 * Unit]),
    Phrase(<<Joined("--capture-device", Txt("mic"))>>, [captureDevice |-> Txt("mic")]),
    Phrase(<<Opt("--self-duck-release-ms"), Num(LongestRelease)>>, [duckRelease |-> LongestRelease]),
    Phrase(<<Opt("--telemetry-handle"), Num(64)>>, [telemetry |-> 64]),
    Phrase(<<Opt("--listen-only")>>, [listenOnly |-> TRUE]) }

ModePhrases == {
    Phrase(<<Opt("--room"), Num(Port)>>,
           [mode |-> "room", localPort |-> Port, seconds |-> 0]),
    Phrase(<<Opt("--capture-test")>>, [mode |-> "capture_test", captureSeconds |-> 5]),
    Phrase(<<Joined("--capture-test", Num(7))>>, [mode |-> "capture_test", captureSeconds |-> 7]),
    Phrase(<<Opt("--udp-recv"), Num(Port), Num(3)>>,
           [mode |-> "udp_recv", port |-> Port, seconds |-> 3]),
    Phrase(<<Opt("--udp-audio-loopback"), Num(3), Num(Port)>>,
           [mode |-> "udp_audio_loopback", seconds |-> 3, port |-> Port,
            host |-> Txt("127.0.0.1")]) }

\* A contact with what it needs, and what may follow
NumericPeer ==
    <<Opt("--peer"), Txt("ann"), Num(Port), Dec(HalfLouder), Num(12), Dec(Fifth), Num(8), Num(80),
      Num(120)>>
PeerPhrase(more, ptt, buffer) ==
    Phrase(NumericPeer \o more,
           [peer |-> [host |-> Txt("ann"), port |-> Port, gain |-> HalfLouder, db |-> 12 * Unit,
                      threshold |-> Fifth, attack |-> 8, hold |-> 80, release |-> 120,
                      ptt |-> ptt, buffer |-> buffer]])
PeerPhrases == {
    PeerPhrase(<<>>, TRUE, 20),
    PeerPhrase(<<Num(0), Num(40)>>, FALSE, 40),
    PeerPhrase(<<Num(40)>>, TRUE, 40) }

WrongPhrases == {
    Wrong(<<Opt("--input-gain"), Num(9)>>),
    Wrong(<<Opt("--room"), Num(0)>>),
    Wrong(<<Opt("--tone-test"), Num(TooManySeconds)>>),
    Wrong(<<Joined("--self-duck-hold-ms", Num(TooLongHold))>>),
    Wrong(<<Joined("--telemetry-handle", Num(64))>>),
    Wrong(<<Opt("--peer"), Txt("ann"), Num(Port)>>),
    Wrong(<<Txt("stray")>>) }

Phrases == SettingPhrases \cup ModePhrases \cup PeerPhrases \cup WrongPhrases

\* The next phrase is typed, where the window was never used; the Core runs with the line so far.
Type ==
    /\ phase = "off" /\ disk = Missing /\ changes = 0
    /\ Len(line) < MaxPhrases
    /\ \E phrase \in Phrases : line' = Append(line, phrase)
    /\ UNCHANGED prefs

LaunchInit == PrefsInit /\ line = <<>>
LaunchNext == (WindowNext /\ line = <<>> /\ UNCHANGED line) \/ Type
LaunchSpec == LaunchInit /\ [][LaunchNext]_launchVars

-----------------------------------------------------------------------------
Naming(field) == {k \in DOMAIN line : field \in DOMAIN line[k].sets}
PeerOf(p) == IF "peer" \in DOMAIN p.sets THEN <<p.sets.peer>> ELSE <<>>
Meant(field) ==
    IF field = "peers" THEN FlattenSeq([k \in DOMAIN line |-> PeerOf(line[k])])
    ELSE IF Naming(field) = {} THEN Defaults[field]
    ELSE line[Max(Naming(field))].sets[field]

\* Whatever the order of its options, a line is answered with the usage exactly when one of
\* them is wrong or two of them name a mode; otherwise each option counts, the last one where
\* two set the same, a mode counting as an option for all that it presets, and the contacts are
\* those of the --peer options in their order (parse_options; README.md, "LanSpeakCore").
ParsedAsWritten ==
    LET o == parse_options(FlattenSeq([k \in DOMAIN line |-> line[k].tokens]))
    IN  /\ o.help <=> \/ \E k \in DOMAIN line : line[k].wrong
                      \/ Cardinality(Naming("mode")) > 1
        /\ ~o.help => \A field \in DOMAIN Defaults : o[field] = Meant(field)
=============================================================================
