-------------------------- MODULE MCPackageManager --------------------------
(* Two packages, one of which fills its line: two rows are what a selection  *)
(* that moves, and a filter that changes the row of a package, need.  The    *)
(* third is of an architecture that one screen does not show.                *)
EXTENDS PackageManager

MCCatalog == <<"httpd", "libreoffice-langpack", "glibc.i686">>
MCWrapped == {"libreoffice-langpack"}
MCOtherArch == {"glibc.i686"}
=============================================================================
