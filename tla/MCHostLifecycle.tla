----------------------------- MODULE MCHostLifecycle -----------------------------
(* Environments of four kinds: devices come and go, the power fails and      *)
(* settings are saved; settings use pins in every way; cores stop.          *)
EXTENDS HostLifecycle

MCPlayers == {0, 1}
MCPins == 0 .. 6
MCBusStartPin == [i \in MCPlayers |-> 3 * i]
MCDirPin == [i \in MCPlayers |-> 3 * i + 2]

With(modes) == [DefaultSettings EXCEPT !.modes = modes]

Cmd(kind, player, value, second) ==
  [family |-> "settings", kind |-> kind, player |-> player, value |-> value,
   second |-> second, whole |-> TRUE]

Save == Cmd("S", 0, 0, 0)

Calm == [flash |-> [valid |-> TRUE, settings |-> DefaultSettings], present |-> {},
         wanted |-> {}, clock |-> FALSE,
         plugs |-> 0, saves |-> 0, powerCuts |-> 0, hangs |-> 0, reboots |-> 0]

Detecting ==
  {[Calm EXCEPT !.flash.settings = With(0 :> m[1] @@ 1 :> m[2]), !.present = plugged,
                !.plugs = 2, !.powerCuts = 1, !.reboots = 1]
   : m \in {<<"static", "dynamic">>, <<"dynamic", "noDisable">>, <<"enable", "static">>},
     plugged \in {{}, {1}}}

Saving ==
  {[Calm EXCEPT !.flash.settings = With(0 :> m[1] @@ 1 :> m[2]), !.present = plugged,
                !.plugs = 1, !.saves = 1, !.powerCuts = 1,
                !.wanted = {Save, Cmd("X", 0, 0, 0), Cmd("P", 1, 4, 0), Cmd("P", 1, 5, 0)}]
   : m \in {<<"static", "dynamic">>, <<"disable", "dynamic">>}, plugged \in {{}, {1}}}

Wiring ==
  {[Calm EXCEPT !.flash.settings =
      [modes |-> 0 :> "enable" @@ 1 :> IF a1 < 0 \/ d1 = 3 THEN "none" ELSE "enable",
       gpioA |-> (0 :> a0 @@ 1 :> a1), gpioDir |-> (0 :> d0 @@ 1 :> d1),
       usbLedGpio |-> led, simpleUsbLedGpio |-> simple],
      !.saves = 1, !.wanted = {Save}]
   : a0, a1 \in {-1, 1, 2, 6}, d0, d1 \in {-1, 2, 3}, led \in {-1, 1, 3}, simple \in {-1, 1}}

Watched == {[Calm EXCEPT !.clock = TRUE, !.hangs = 1, !.saves = 1, !.wanted = {Save}]}

MCEnvironments == Detecting \cup Saving \cup Wiring \cup Watched
=============================================================================
