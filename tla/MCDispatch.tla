------------------------------ MODULE MCDispatch ------------------------------
(***************************************************************************)
(* The model-checking instance of Dispatch: a package name of 4 characters *)
(* in 3 words, names of the same and of another length and none, an action *)
(* and none, and every Intent of up to three words that the search or the  *)
(* test of the name can tell apart, with Kodi's name inside one of them.   *)
(***************************************************************************)
EXTENDS Dispatch

MCKodi    == <<100, 101, 102>>
MCActions == {<<-1>>, <<3, 9>>}
MCNames   == {KodiName, <<4, 100, 101, 103>>, <<1, 100>>, <<-1>>}
MCBodies  ==
  UNION {[1 .. n -> {-2, -1, 0, 4}] : n \in 0 .. 3} \cup {<<0, -2, -1>> \o KodiName}
=============================================================================
