---------------------------- MODULE MCPulseAudio ----------------------------
(* Small instance of PulseAudio: a card with two sinks and one with one,   *)
(* so that every loop has no, one and several turns.                       *)
EXTENDS PulseAudio

MCSinks == {"hdmi", "analog", "usb"}
MCCardOf == [s \in MCSinks |-> IF s = "usb" THEN "headset" ELSE "onboard"]

=============================================================================
