---------------------------- MODULE MCMsqStreams ----------------------------
(* Slices of what happens on a MsQuic connection, for TLC.                 *)
EXTENDS MsqStreams
MCUses ==
    {{"local", "bidi", "cancel", "inline"}, {"local", "bidi", "stop"},
     {"local", "bidi", "cancel", "refuse", "split"},
     {"local", "send", "commit", "cancel", "inline"},
     {"local", "send", "cancel", "refuse"},
     {"local", "send", "ideal", "keep"}, {"local", "send", "close"},
     {"local", "send", "lost", "dgram"}, {"local", "send", "commit", "badid"},
     {"local", "send", "commit", "stop"}, {"local", "stop", "crit"},
     {"local", "peer"}, {"peer", "uni", "pause"}, {"peer", "pause", "refuse"},
     {"peer", "abort", "stop", "junk"},
     {"peer", "cancel", "inline"}, {"peer", "send", "cancel"},
     {"peer", "close", "keep"}}
(* A program that cancels in on_stream_opened and pauses in on_stream_data. *)
CallbackUses == {{"peer", "send", "pause", "cancel"}}
=============================================================================
