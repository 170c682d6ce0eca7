---------------------------- MODULE MCMediaPath -----------------------------
(* MediaPath on a small instance: the bounds are the constants' values.     *)
EXTENDS MediaPath
=============================================================================
