--------------------------- MODULE MCSFTPBrowser ----------------------------
(* Two levels: an account that logs in at the root and one that logs in below *)
(* it, with a directory to go down to and one beside it of the same name.     *)
EXTENDS SFTPBrowser

MCNames == {"a", "b"}
MCHomes == {<<>>, <<"a">>}
MCPaths == {<<>>, <<"a">>, <<"b">>, <<"a", "b">>}

(* One account, a directory in its login directory, and the same name in both. *)
MCLoginBelowRoot == {<<"a">>}
MCTwoLevels == {<<>>, <<"a">>, <<"a", "a">>, <<"a", "b">>, <<"a", "a", "b">>}
=============================================================================
