------------------------------ MODULE MCBridge ------------------------------
(* Each command with the audio it can have: PipeWire's thread, or a source    *)
(* and a sink each on a file or a pipe, or a source that is not there.        *)
EXTENDS Bridge

Setup(command, audio, source, sink) ==
  [command |-> command, audio |-> audio, source |-> source, sink |-> sink]

MCSetups ==
  {Setup(c, "pipewire", "none", "none") : c \in {"bridge", "map"}}
    \union {Setup(c, "pipes", source, "fifo") : c \in {"bridge", "stream"},
                                                source \in {"none", "file", "missing", "fifo"}}
    \union {Setup("stream", "pipes", source, "file") : source \in {"none", "file"}}
MCQuit == {Setup("map", "pipewire", "none", "none")}
=============================================================================
