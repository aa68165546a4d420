------------------------------- MODULE Options -------------------------------
(***************************************************************************)
(* The command line of LanSpeakCore (core/options.cpp): what parse_options *)
(* makes of a sequence of arguments.                                       *)
(*                                                                         *)
(* An argument is a token: an option, an option joined with its value by   *)
(* "=", or an operand.  An operand is a whole number in digits, a decimal  *)
(* number, or any other text that does not begin with "-"; the empty text  *)
(* is Empty.  Numbers are written in one way (no leading zeros, no         *)
(* exponents), decimals are whole numbers of 1/Unit, and a handle has 16   *)
(* bits here.  Whatever is wrong sets help, which nothing resets and which *)
(* is all that run_application then looks at.                              *)
(***************************************************************************)
EXTENDS Integers, Sequences, SequencesExt

Unit == 100000

Opt(name) == <<"opt", name>>
Joined(name, t) == <<"joined", name, t>>
Num(n) == <<"num", n>>
Dec(n) == <<"dec", n>>
Txt(s) == <<"txt", s>>
Empty == Txt("")

\* The tokens there are; what is joined with an option is none that is joined itself.
Plain == ({"num", "dec"} \X Int) \cup ({"opt", "txt"} \X STRING)
Tokens == Plain \cup ({"joined"} \X STRING \X Plain)

\* The whole numbers and the decimals a token stands for, if they are within the range
Whole(t, low, high) == IF t[1] = "num" THEN {t[2]} \cap (low .. high) ELSE {}
Decimal(t, low, high) ==
    IF t[1] = "dec" THEN {t[2]} \cap (low * Unit .. high * Unit)
    ELSE {n * Unit : n \in Whole(t, low, high)}

\* parse_role_value
RoleOf(t) ==
    CASE t = Txt("console") -> {"console"}
      [] t \in {Txt("multimedia"), Txt("media")} -> {"multimedia"}
      [] t \in {Txt("communications"), Txt("communication"), Txt("comm")} -> {"communications"}
      [] OTHER -> {}

\* The parse_ functions: the value of an operand of the kind, none if it is not one.
Read(kind, t) ==
    CASE kind = "seconds" -> Whole(t, 1, 3600)
      [] kind = "port"    -> Whole(t, 1, 65535)
      [] kind = "handle"  -> Whole(t, 1, 65535)
      [] kind = "gain"    -> Decimal(t, 0, 8)
      [] kind = "db"      -> Decimal(t, 0, 60)
      [] kind = "level"   -> Decimal(t, 0, 1)
      [] kind = "ms"      -> Whole(t, 0, 1000)
      [] kind = "release" -> Whole(t, 0, 5000)
      [] kind = "buffer"  -> Whole(t, 1, 500)
      [] kind = "flag"    -> {t[2] = 1 : n \in Whole(t, 0, 1)}
      [] kind = "role"    -> RoleOf(t)
      [] kind = "text"    -> {t} \ {Empty}

DefaultUdpPort == 49740
Defaults ==
    [mode |-> "probe", help |-> FALSE, exclusive |-> FALSE, captureSeconds |-> 0,
     seconds |-> 5, host |-> Txt("127.0.0.1"), port |-> DefaultUdpPort,
     peerHost |-> Txt("127.0.0.1"), peerPort |-> DefaultUdpPort,
     localPort |-> DefaultUdpPort, bind |-> Txt("0.0.0.0"),
     inputGain |-> Unit, outputGain |-> Unit,
     captureRole |-> "console", renderRole |-> "console",
     captureDevice |-> Empty, renderDevice |-> Empty,
     peers |-> <<>>, listenOnly |-> FALSE, inputMuted |-> FALSE,
     telemetry |-> 0, control |-> 0, duckDb |-> 0, duckHold |-> 80, duckAttack |-> 8,
     duckRelease |-> 120, duckThreshold |-> 20000]

\* Options with one value: its field, its kind, and whether it may be joined by "=".
Value(field, kind, joined) == {[field |-> field, kind |-> kind, joined |-> joined]}
DeviceOption(option) ==
    CASE option = "--test-seconds"   -> Value("seconds", "seconds", FALSE)
      [] option = "--bind-address"   -> Value("bind", "text", TRUE)
      [] option = "--input-gain"     -> Value("inputGain", "gain", TRUE)
      [] option = "--output-gain"    -> Value("outputGain", "gain", TRUE)
      [] option = "--capture-role"   -> Value("captureRole", "role", TRUE)
      [] option = "--render-role"    -> Value("renderRole", "role", TRUE)
      [] option = "--capture-device" -> Value("captureDevice", "text", TRUE)
      [] option = "--render-device"  -> Value("renderDevice", "text", TRUE)
      [] OTHER -> {}
HandleOption(option) ==
    CASE option = "--telemetry-handle" -> Value("telemetry", "handle", FALSE)
      [] option = "--control-handle"   -> Value("control", "handle", FALSE)
      [] OTHER -> {}
DuckingOption(option) ==
    CASE option = "--self-duck-db"         -> Value("duckDb", "db", TRUE)
      [] option = "--self-duck-hold-ms"    -> Value("duckHold", "ms", TRUE)
      [] option = "--self-duck-attack-ms"  -> Value("duckAttack", "ms", TRUE)
      [] option = "--self-duck-release-ms" -> Value("duckRelease", "release", TRUE)
      [] option = "--self-duck-threshold"  -> Value("duckThreshold", "level", TRUE)
      [] OTHER -> {}
ValueOption(option) == DeviceOption(option) \cup HandleOption(option) \cup DuckingOption(option)

Flag(option) ==
    CASE option \in {"--help", "-h", "/?"} -> {"help"}
      [] option = "--exclusive"   -> {"exclusive"}
      [] option = "--input-muted" -> {"inputMuted"}
      [] option = "--listen-only" -> {"listenOnly"}
      [] OTHER -> {}

\* Modes: the operands they need, what they preset, the operands that may follow.
Mode(name, needs, presets, may) ==
    {[name |-> name, needs |-> needs, presets |-> presets, may |-> may]}
Seconds(n) == [seconds |-> n]
Local(n) == [seconds |-> n, host |-> Txt("127.0.0.1"), port |-> DefaultUdpPort]
Lasting == <<"seconds", "seconds">>
ToPort == <<"port", "port">>
TestMode(option) ==
    CASE option = "--list-devices" -> Mode("list_devices", <<>>, <<>>, <<>>)
      [] option = "--capture-test" -> Mode("capture_test", <<>>, [captureSeconds |-> 5],
                                           <<<<"captureSeconds", "seconds">>>>)
      [] option = "--tone-test"    -> Mode("tone_test", <<>>, Seconds(5), <<Lasting>>)
      [] option = "--udp-recv"     -> Mode("udp_recv", <<ToPort>>, Seconds(10), <<Lasting>>)
      [] option = "--udp-send"     -> Mode("udp_send", <<<<"host", "text">>, ToPort>>,
                                           Seconds(5), <<Lasting>>)
      [] OTHER -> {}
LoopMode(option) ==
    CASE option = "--udp-loopback" -> Mode("udp_loopback", <<>>, Local(5), <<Lasting, ToPort>>)
      [] option = "--udp-play"     -> Mode("udp_play", <<ToPort>>, Seconds(10), <<Lasting>>)
      [] option = "--udp-audio-loopback" ->
            Mode("udp_audio_loopback", <<>>, Local(5), <<Lasting, ToPort>>)
      [] OTHER -> {}
TalkMode(option) ==
    CASE option = "--duplex" -> Mode("duplex", <<<<"localPort", "port">>, <<"peerHost", "text">>,
                                                 <<"peerPort", "port">>>>, Seconds(0), <<Lasting>>)
      [] option = "--room"   -> Mode("room", <<<<"localPort", "port">>>>, Seconds(0), <<>>)
      [] OTHER -> {}
ModeOption(option) == TestMode(option) \cup LoopMode(option) \cup TalkMode(option)

\* --peer: what it needs, and what may follow in this order with the value it has otherwise
PeerNeeds ==
    <<<<"host", "text">>, <<"port", "port">>, <<"gain", "gain">>, <<"db", "db">>,
      <<"threshold", "level">>, <<"attack", "ms">>, <<"hold", "ms">>, <<"release", "release">>>>
PeerMay == <<<<"ptt", "flag">>, <<"buffer", "buffer">>>>
PeerPresets == [ptt |-> TRUE, buffer |-> 20]

-----------------------------------------------------------------------------
Helped(o) == [o EXCEPT !.help = TRUE]
The(set) == CHOOSE x \in set : TRUE

\* Fields of one record over those of another (@@, for which the provers have no definition)
Over(new, old) ==
    [f \in DOMAIN new \cup DOMAIN old |-> IF f \in DOMAIN new THEN new[f] ELSE old[f]]

\* The operands that are needed: all of them are used up, and one that is wrong asks for help.
Fits(needs, args) == \A k \in DOMAIN needs : Read(needs[k][2], args[k]) # {}
Filled(needs, args) ==
    [f \in {needs[k][1] : k \in DOMAIN needs} |->
        LET k == CHOOSE n \in DOMAIN needs : needs[n][1] = f
        IN  The(Read(needs[k][2], args[k]))]
After(args, n) == SubSeq(args, n + 1, Len(args))

\* An argument that can only be an operand
IsOperand(t) ==
    /\ t # Empty
    /\ t[1] \in {"opt", "joined"} => t[2] = "/?"
    /\ t[1] \in {"num", "dec"} => t[2] >= 0

\* What may follow is used up only if it is the operand; a mode's must not be another one.
MayMistake(kind, args) ==
    args # <<>> /\ IsOperand(Head(args)) /\ Read(kind, Head(args)) = {}
MayRead(kind, args) == args # <<>> /\ Read(kind, Head(args)) # {}

FollowedBy(p, may, k, strict) ==
    IF k \notin DOMAIN may THEN p
    ELSE LET kind == may[k][2]
         IN  IF MayRead(kind, p.rest)
             THEN [o |-> [p.o EXCEPT ![may[k][1]] = The(Read(kind, Head(p.rest)))],
                   rest |-> Tail(p.rest)]
             ELSE IF strict /\ MayMistake(kind, p.rest) THEN [p EXCEPT !.o = Helped(@)]
             ELSE p

\* No option is followed by more than two.
Followed(o, may, args, strict) ==
    FollowedBy(FollowedBy([o |-> o, rest |-> args], may, 1, strict), may, 2, strict)

\* One option with a value; the value is missing, wrong, or taken.
TakeValue(o, option, args) ==
    LET v == The(ValueOption(option))
    IN  IF args = <<>> THEN [o |-> Helped(o), rest |-> args]
        ELSE [o |-> IF Read(v.kind, Head(args)) = {} THEN Helped(o)
                    ELSE [o EXCEPT ![v.field] = The(Read(v.kind, Head(args)))],
              rest |-> Tail(args)]

\* Mutated form: the last mode counts.
SetLastMode(o, name) == [o EXCEPT !.mode = name]

\* set_mode: a second mode is refused, and its operands are arguments of their own then.
SetMode(o, name) == IF o.mode = "probe" THEN [o EXCEPT !.mode = name] ELSE Helped(o)

TakeMode(o, option, args) ==
    LET m == The(ModeOption(option))
        n == Len(m.needs)
        set == SetMode(o, m.name)
    IN  IF o.mode # "probe" THEN [o |-> set, rest |-> args]
        ELSE IF Len(args) < n THEN [o |-> Helped(set), rest |-> args]
        ELSE IF ~Fits(m.needs, args) THEN [o |-> Helped(set), rest |-> After(args, n)]
        ELSE Followed(Over(m.presets, Over(Filled(m.needs, args), set)), m.may, After(args, n),
                      TRUE)

TakePeer(o, args) ==
    LET n == Len(PeerNeeds)
        more == Followed(PeerPresets, PeerMay, After(args, n), FALSE)
    IN  IF Len(args) < n THEN [o |-> Helped(o), rest |-> args]
        ELSE [o |-> IF Fits(PeerNeeds, args)
                    THEN [o EXCEPT !.peers = Append(@, Over(Filled(PeerNeeds, args), more.o))]
                    ELSE Helped(o),
              rest |-> more.rest]

\* --capture-test is the only mode that may be joined with its operand.
TakeJoined(o, option, t) ==
    IF option = "--capture-test"
    THEN IF o.mode # "probe" THEN Helped(o)
         ELSE LET set == SetMode(o, "capture_test")
              IN  IF Read("seconds", t) = {} THEN Helped(set)
                  ELSE [set EXCEPT !.captureSeconds = The(Read("seconds", t))]
    ELSE IF \E v \in ValueOption(option) : v.joined
    THEN TakeValue(o, option, <<t>>).o
    ELSE Helped(o)

Argument(o, t, args) ==
    IF t[1] = "joined" THEN [o |-> TakeJoined(o, t[2], t[3]), rest |-> args]
    ELSE IF t[1] # "opt" THEN [o |-> Helped(o), rest |-> args]
    ELSE IF ValueOption(t[2]) # {} THEN TakeValue(o, t[2], args)
    ELSE IF ModeOption(t[2]) # {} THEN TakeMode(o, t[2], args)
    ELSE IF t[2] = "--peer" THEN TakePeer(o, args)
    ELSE IF Flag(t[2]) # {} THEN [o |-> [o EXCEPT ![The(Flag(t[2]))] = TRUE], rest |-> args]
    ELSE [o |-> Helped(o), rest |-> args]

\* One argument after the other, each with the operands it uses up
TakeNext(p) == IF p.rest = <<>> THEN p ELSE Argument(p.o, Head(p.rest), Tail(p.rest))
parse_options(args) ==
    LET after[n \in 0 .. Len(args)] ==
            IF n = 0 THEN [o |-> Defaults, rest |-> args] ELSE TakeNext(after[n - 1])
    IN  after[Len(args)].o
=============================================================================
