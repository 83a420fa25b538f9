-------------------------------- MODULE MCShell --------------------------------
(* Instance of Shell: all commands and directories spelled with two letters. *)
EXTENDS Shell

MCLetter == {"a", "b"}
MCCommandWord ==
  [cd |-> <<"a">>, ls |-> <<"b">>, test |-> <<"a", "a">>, pwd |-> <<"a", "b">>,
   reboot |-> <<"b", "a">>, help |-> <<"b", "b">>, info |-> <<"a", "b", "a">>]
MCDirWord ==
  [n \in {"/root", "/dev", "/ipc", ".."} |->
     CASE n = "/dev" -> <<"a">> [] n = "/ipc" -> <<"b">>
       [] n = ".." -> <<"a", "b">> [] n = "/root" -> <<"b", "b">>]
MCTestKey == {"a"}
===============================================================================
