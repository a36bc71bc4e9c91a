----------------------------- MODULE MCReporter -----------------------------
(* A small instance of Reporter.  An earlier build left a segment that ends *)
(* before it starts and an extension's segment without a record id; the     *)
(* tracker hands its segment over once, the extension repeats its own.      *)
EXTENDS Reporter
CONSTANTS backwards, native, browser

MCSegments == {backwards, native, browser}
MCUnidentified == {backwards, browser}
MCBackwards == {backwards}
MCReplayed == {browser}
MCOldPending == <<backwards, browser>>
=============================================================================
