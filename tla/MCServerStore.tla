--------------------------- MODULE MCServerStore ----------------------------
(* Two servers and three operating systems.  The lists of the code have nine *)
(* rows: the first four differ between the screens, MySQL is the eighth in   *)
(* both.  Here the first two differ and MySQL is the third.                  *)
EXTENDS ServerStore

MCOptionsSeeds == <<"Windows", "Ubuntu", "MySQL">>
MCNewServerSeeds == <<"Ubuntu", "Debian", "MySQL">>
=============================================================================
