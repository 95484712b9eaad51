----------------------------- MODULE MCPresence ------------------------------
(* Small instances of Presence: the sockets of one console.                  *)
EXTENDS Presence, TLC

CONSTANTS c1, s1, s2

\* A console that reconnects.
OneConsole == s1 :> c1 @@ s2 :> c1

\* It is in a session and in a party, with a presence record that says so.
InGame == {Parts}
=============================================================================
