----------------------------- MODULE MCTransfers -----------------------------
(* Transfers, for the orders of main.rs: cmd_run, the commands that hold their
   streams through open_for_output, and those that drop the device themselves. *)
EXTENDS Transfers

MCTransfers ==
  {<<"audioIn", 1>>, <<"isoOut", 1>>, <<"isoOut", 2>>, <<"midiIn", 1>>}

(* It looks at DEVICE_GONE, and leaves by process::exit. *)
CmdRun ==
  [streams |-> <<"isoOut", "midiIn">>,
   ending |-> <<Step("stop"), Step("quiet"), Step("join"),
                DropStep("midiIn"), DropStep("isoOut"), Step("close")>>,
   looksForGone |-> TRUE, exitsWhenGone |-> TRUE]
DropStreams ==
  <<Step("stop"), Step("join"), DropStep("audioIn"), DropStep("isoOut")>>
(* cmd_leds, cmd_step, cmd_blocks: they do not look. *)
Holding ==
  [streams |-> <<"audioIn", "isoOut">>, ending |-> DropStreams \o <<Step("close")>>,
   looksForGone |-> FALSE, exitsWhenGone |-> FALSE]
(* cmd_audio, cmd_stream: they look, and leave their loop. *)
DeviceFirst ==
  [streams |-> <<"audioIn", "isoOut">>, ending |-> <<Step("close")>> \o DropStreams,
   looksForGone |-> TRUE, exitsWhenGone |-> FALSE]

AllCommands == {CmdRun, Holding, DeviceFirst}
HandleFirst == {DeviceFirst}
==============================================================================
