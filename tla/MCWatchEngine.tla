---------------------------- MODULE MCWatchEngine ----------------------------
(* WatchEngine with a channel that three saves can fill.                    *)
EXTENDS WatchEngine
=============================================================================
