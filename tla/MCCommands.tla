----------------------------- MODULE MCCommands -----------------------------
(* Commands with payloads for each rule, and counters that wrap. *)
EXTENDS Commands

MCPayloads == {<<>>, <<2>>, <<3>>, <<0, 30>>, <<255>>, AuthCode}
MCReserved == {80}   \* a file transfer command
MCCustomIds == {80}
=============================================================================
