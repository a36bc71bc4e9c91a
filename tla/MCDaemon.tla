------------------------------ MODULE MCDaemon ------------------------------
(* A small instance of Daemon: pending.json holds a segment, the tracker      *)
(* times another, the extension delivers a third until it sees the 202.       *)
EXTENDS Daemon
CONSTANTS saved, native, browser, tracker, h1

MCSegments == {saved, native, browser}
MCReplayed == {browser}
MCOldPending == <<saved>>

MCHandlers == {h1}
MCProducers == {h1, tracker}
=============================================================================
