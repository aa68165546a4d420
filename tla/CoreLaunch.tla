----------------------------- MODULE CoreLaunch -----------------------------
(***************************************************************************)
(* What a LanSpeakCore process does of its command line: run_application   *)
(* (core/application.cpp) and the choice of the audio devices              *)
(* (core/wasapi_devices.cpp).                                              *)
(*                                                                         *)
(* plugged is the sequence of the active endpoints; an endpoint has a      *)
(* flow, an id and the texts that are found in its name or its id.         *)
(***************************************************************************)
EXTENDS Options, FiniteSets

\* select_audio_endpoint: the chosen endpoint, none if there is none or more than one
select_audio_endpoint(plugged, flow, selector) ==
    LET of == {k \in DOMAIN plugged : plugged[k].flow = flow}
        named == {k \in of : selector \in plugged[k].texts}
    IN  CASE selector = Empty      -> {plugged[k].id : k \in {n \in of : plugged[n].default}}
          [] selector[1] = "num"   -> {plugged[k].id : k \in {n \in of : n = selector[2] + 1}}
          [] OTHER                 -> {plugged[k].id : k \in {n \in named : Cardinality(named) = 1}}

\* print_device_list: a line for each endpoint
print_device_list(plugged) == {<<plugged[k].flow, plugged[k].id>> : k \in DOMAIN plugged}

\* The devices each mode opens before anything else
Flows(o) ==
    CASE o.mode \in {"capture_test", "udp_send", "udp_loopback"} -> {"capture"}
      [] o.mode \in {"tone_test", "udp_play"} -> {"render"}
      [] o.mode \in {"udp_audio_loopback", "duplex"} -> {"capture", "render"}
      [] o.mode = "room" -> IF o.listenOnly THEN {"render"} ELSE {"capture", "render"}
      [] OTHER -> {}
Selector(o, flow) == IF flow = "capture" THEN o.captureDevice ELSE o.renderDevice

Opened(o, plugged) ==
    [flow \in Flows(o) |-> select_audio_endpoint(plugged, flow, Selector(o, flow))]

\* run_application: "usage", "list_devices" or "probe", a mode that runs, or "failed" without
\* one of its devices
run_application(o, devices) ==
    IF o.help THEN "usage"
    ELSE IF \E flow \in DOMAIN devices : devices[flow] = {} THEN "failed"
    ELSE o.mode
=============================================================================
