------------------------------ MODULE MCMediaCopy ------------------------------
(***************************************************************************)
(* An instance of MediaCopy for TLC: an image of two sectors and cards     *)
(* that are smaller, as large and larger.                                  *)
(***************************************************************************)
EXTENDS MediaCopy

Sizes == 1 .. 3
Origins == {"image", "card", "client"} \X (0 .. 2)
=============================================================================
