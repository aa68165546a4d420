------------------------------ MODULE MCLaunch ------------------------------
(* Two microphones, one of which may be unplugged, one adapter with two     *)
(* addresses or none, up to two contacts.                                   *)
EXTENDS Launch

Endpoint(flow, id, texts, default) ==
    [flow |-> flow, id |-> id, texts |-> {id, texts}, default |-> default]
Speaker == Endpoint("render", Txt("{spk}"), Txt("speakers"), TRUE)
Desk == Endpoint("capture", Txt("{desk}"), Txt("mic"), TRUE)
Headset == Endpoint("capture", Txt("{head}"), Txt("mic"), FALSE)
At(address) == Txt("{eth}") :> Txt(address)

MCWorlds == {[plugged |-> <<Speaker, Desk, Headset>>, adapters |-> At("10.0.0.1")],
             [plugged |-> <<Speaker, Desk, Headset>>, adapters |-> At("10.0.0.2")],
             [plugged |-> <<Speaker, Desk>>, adapters |-> <<>>]}

Ann == [DefaultContact EXCEPT !.name = Txt("Ann"), !.host = Txt("ann"), !.muted = TRUE,
                              !.hotkey = [modifiers |-> 2, vk |-> 65]]
Edited == [DefaultSettings EXCEPT
    !.port = 70000, !.adapter = Txt("{eth}"),
    !.devices["capture"] = Txt("{head}"),
    !.contacts = <<[Ann EXCEPT !.gain = 9 * Unit, !.hold = 5000] @@ "fields" :> 14>>]
First == [DefaultSettings EXCEPT
    !.contacts = <<[Ann EXCEPT !.name = Empty, !.gain = 133300] @@ "fields" :> 9>>]
MCFiles == {Missing, Edited}
MCLegacy == {First}
MCTyped == {"name" :> Txt("Ben") @@ "host" :> Txt("ben") @@ "gain" :> Dec(125000)
                @@ "db" :> Dec(1234600) @@ "threshold" :> Dec(12346),
            "gain" :> Empty @@ "buffer" :> Num(200),
            "port" :> Num(0)}
MCDiscovered == {[name |-> Empty, address |-> Txt("ben"), port |-> 49740]}
MCGains == {100000, 110000}
MCPorts == {Num(49741), Num(0)}
MCLanguages == {"auto", "ru"}
=============================================================================
