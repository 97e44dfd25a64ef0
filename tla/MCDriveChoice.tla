--------------------------- MODULE MCDriveChoice ----------------------------
(***************************************************************************)
(* DriveChoice with two device names and three sticks, two of which are    *)
(* listed alike.                                                           *)
(***************************************************************************)
EXTENDS DriveChoice

CONSTANTS stick1, stick2, stick3

MCDisks == {stick1, stick2, stick3}

\* Size and model of the first two are the same.
MCModel(d) == IF d = stick3 THEN "16 GB" ELSE "8 GB"
=============================================================================
