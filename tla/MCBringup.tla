------------------------------ MODULE MCBringup ------------------------------
(***************************************************************************)
(* Two head units for Bringup: a car that numbers its services as the      *)
(* comments of control_channel.rs report of the Carnival, and the desktop  *)
(* head unit with the numbering of services.rs.                            *)
(***************************************************************************)
EXTENDS Bringup

Descriptor(id, service, sub, video_configs, stream) ==
  [id |-> id, service |-> service, sub |-> sub,
   video_configs |-> video_configs, stream |-> stream]

Carnival ==
  <<Descriptor(1, "video", {"av"}, TRUE, "audio"),
    Descriptor(3, "sensor", {"sensor"}, FALSE, "none"),
    Descriptor(4, "audio", {"av"}, FALSE, "audio"),
    Descriptor(7, "microphone", {"av_input"}, FALSE, "audio"),
    Descriptor(10, "vendor", {"vendor_ext"}, FALSE, "none"),
    Descriptor(11, "input", {"input"}, FALSE, "none"),
    Descriptor(12, "none", {}, FALSE, "none")>>

Desktop ==
  <<Descriptor(1, "input", {"input"}, FALSE, "none"),
    Descriptor(2, "sensor", {"sensor"}, FALSE, "none"),
    Descriptor(3, "video", {"av"}, TRUE, "video"),
    Descriptor(5, "microphone", {"av_input"}, FALSE, "audio"),
    Descriptor(9, "navigation", {"navigation"}, FALSE, "none")>>

MCTables == [h \in {"carnival", "desktop"} |->
               IF h = "carnival" THEN Carnival ELSE Desktop]
MCCars == {<<"carnival", "car">>, <<"desktop", "dhu-u">>,
           <<"desktop", "dhu-bundled">>, <<"desktop", "dhu-tcp">>}

=============================================================================
