----------------------------- MODULE MCSettings -----------------------------
(* Two clients; settings that differ in either section, of two lengths.      *)
EXTENDS SavedSettings, TLC

CONSTANTS own, std, bad, off, vpnApp

\* The text of settings that list an application is longer by a line.
MCSize == [s \in Settings |-> IF s.split = vpnApp THEN 2 ELSE 1]

=============================================================================
