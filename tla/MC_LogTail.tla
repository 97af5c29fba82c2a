----------------------------- MODULE MC_LogTail -----------------------------
(* Instance of LogTail for TLC: the code's sizes scaled down, with _MAX_BYTES *)
(* a multiple of _CHUNK_SIZE as in the code (1 MiB = 128 chunks of 8 KiB).  *)
(* The directory holds the web component's file and its rotated backup, a   *)
(* beat file and a rotated backup of the prefix-only file, or nothing.      *)
EXTENDS LogTail

MCSeverities == {"info", "error"}
MCSevParams == {"", "info"}
MCRequests == {BadRequest, 0, 4}

Web == [stem |-> "web", rot |-> FALSE]
WebOld == [stem |-> "web", rot |-> TRUE]
Beat == [stem |-> "beat", rot |-> FALSE]
DefaultOld == [stem |-> "", rot |-> TRUE]
MCCompOrder == <<"beat", "default", "web">>
MCDirs == {{}, {[name |-> Web, mtime |-> 3], [name |-> WebOld, mtime |-> 1],
                [name |-> Beat, mtime |-> 2], [name |-> DefaultOld, mtime |-> 0]}}
MCFileParams == {NoName, WebOld, DefaultOld}
MCCompParams == {NoComp, "web"}
=============================================================================
