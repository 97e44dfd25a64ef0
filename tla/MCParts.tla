------------------------------- MODULE MCParts -------------------------------
(***************************************************************************)
(* Parts with names on, before and after the ends of chunks; GRUB cores of *)
(* one sector, one too many and in between; a hive of three keys, with     *)
(* names of lengths that pad a cell by each amount; four distributions; .po*)
(* files of two entries; and two values for each setting.                  *)
(***************************************************************************)
EXTENDS Parts

MCNames ==
  {n \in [at : 0 .. 7, len : 2 .. 4, utf16 : BOOLEAN, tells : {"windows", "linux"}] :
     n.utf16 => n.len = 4}
MCNameLen(n) == n + 2
MCIds == {<<>>, <<1>>, <<1, 2>>}
MCStrings == {<<>>, <<3>>, <<3, 4>>}
=============================================================================
